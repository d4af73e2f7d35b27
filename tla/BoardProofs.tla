---------------------------- MODULE BoardProofs ----------------------------
(***************************************************************************)
(* Calls that are proper by themselves do what they say together: for any  *)
(* number of callers, any calls, however their accesses fall.              *)
(***************************************************************************)
EXTENDS Board, FiniteSetTheorems, SequenceTheorems, TLAPS

(* What holds of any calls: where callers are, which copies they have, and  *)
(* that bits other than a register's own get there only by a loss.          *)
WellPlaced ==
  \A c \in Callers : /\ call[c] = 0 => pc[c] = 1
                     /\ call[c] # 0 => pc[c] <= Len(Prog(c)) + 1
CopiesThere ==
  \A c \in Inside : \A j \in 1 .. pc[c] - 1 :
    Prog(c)[j].op \in {"get", "put"} => Prog(c)[j].reg \in DOMAIN copy[c]
Placed ==
  /\ kind \in Kinds /\ offset \in Regs
  /\ call \in [Callers -> 0 .. Len(Calls[kind])] /\ pc \in [Callers -> Nat \ {0}]
  /\ DOMAIN reg = Regs /\ DOMAIN copy = Callers /\ DOMAIN saved = Callers
  /\ WellPlaced
ChipsTyped ==
  /\ av \in Seq(BOOLEAN) /\ shift \in Seq(BOOLEAN) /\ synth \in Seq(BOOLEAN)
  /\ Len(av) <= 24 /\ Len(shift) <= 14
HistoryTyped ==
  /\ clobbered \subseteq Regs /\ crossed \subseteq Regs /\ overlapped \subseteq Regs
  /\ made \subseteq Callers
OwnBits ==
  /\ \A r \in Regs : ideal[r] \subseteq Bits[r]
  /\ \A r \in Regs \ clobbered : reg[r] \subseteq Bits[r]
BaseInv == Placed /\ CopiesThere /\ ChipsTyped /\ HistoryTyped /\ OwnBits

(* With careful calls, bits are everywhere.                                 *)
BitsOnly ==
  /\ \A r \in Regs : reg[r] \subseteq AllBits
  /\ \A c \in Callers : saved[c] \subseteq AllBits
  /\ \A c \in Callers : \A r \in DOMAIN copy[c] : copy[c][r] \subseteq AllBits

-----------------------------------------------------------------------------
(* Nothing is lost by a caller alone on a register: its copies differ from  *)
(* the register by what it has written since, and the offset is where it    *)
(* has put it.                                                              *)
Differ(s, t) == (s \ t) \cup (t \ s)
Changed(c, a) == Differ(reg[Target(a)], Value(c, a))
Since(prog, r, j, i) == {k \in Places(prog, r) : j < k /\ k < i}
SharedIsOverlapped ==
  \A c, d \in Inside : c # d => Shared(Prog(c), Prog(d)) \subseteq overlapped
CopyFresh ==
  \A c \in Inside : \A j \in 1 .. pc[c] - 1 :
    LET prog == Prog(c)  r == prog[j].reg IN
    prog[j].op \in {"get", "put"} /\ r \in Uses(prog) \ overlapped =>
      \A b \in Differ(copy[c][r], reg[r]) :
        \E k \in Since(prog, r, j, pc[c]) : ~Puts(prog[k], r) /\ b \in Touched(prog[k], r)
LastOf(prog, j, i, op) == prog[j].op = op /\ \A k \in j + 1 .. i - 1 : prog[k].op # op
SavedFresh ==
  \A c \in Inside : \A j \in 1 .. pc[c] - 1 :
    LET prog == Prog(c)  r == prog[j].reg IN
    LastOf(prog, j, pc[c], "save") /\ r \in Uses(prog) \ overlapped =>
      \A b \in Differ(saved[c], reg[r]) :
        \E k \in Since(prog, r, j, pc[c]) : b \in Touched(prog[k], r)
OffsetKept ==
  \A c \in Inside : \A j \in 1 .. pc[c] - 1 :
    LastOf(Prog(c), j, pc[c], "select") =>
      \/ offset = Prog(c)[j].reg
      \/ offset \in overlapped /\ Uses(Prog(c)) \subseteq overlapped
AloneInv ==
  NothingLostAlone /\ SharedIsOverlapped /\ CopyFresh /\ SavedFresh /\ OffsetKept

-----------------------------------------------------------------------------
(* A caller owns a bit of a register from its first access that is meant to *)
(* change it to its last write of the register.                             *)
Owns(c, r, b) ==
  /\ call[c] # 0 /\ \E i \in Hits(Prog(c), r, b) : i < pc[c]
  /\ \E i \in Places(Prog(c), r) : i >= pc[c]

(* A bit has one owner at most; a bit nobody owns is as the effects say;    *)
OneOwner(r, b) == \A c, d \in Callers : Owns(c, r, b) /\ Owns(d, r, b) => c = d
AsIdeal(r, b) == (\A c \in Callers : ~Owns(c, r, b)) => (b \in reg[r] <=> b \in ideal[r])

(* one that somebody owns is as that caller's last access to it left it;    *)
LeftBy(a, r, b) ==
  /\ TurnsOn(a, r, b) => b \in reg[r]
  /\ TurnsOff(a, r, b) => b \notin reg[r]
  /\ ~TurnsOn(a, r, b) /\ ~TurnsOff(a, r, b) => (b \in reg[r] <=> b \in ideal[r])
AsLeft(r, b) ==
  \A c \in Callers : Owns(c, r, b) =>
    \E i \in Hits(Prog(c), r, b) :
      /\ i < pc[c] /\ \A k \in Hits(Prog(c), r, b) : k < pc[c] => k <= i
      /\ LeftBy(Prog(c)[i], r, b)

(* and what a caller keeps to put back is what was there.                   *)
Original(c, r, b) == IF Owns(c, r, b) THEN b \in ideal[r] ELSE b \in reg[r]
Busy(c, r, b) == Hits(Prog(c), r, b) # {} /\ \E i \in Places(Prog(c), r) : i >= pc[c]
Untouched(prog, r, b, j) == \A k \in Hits(prog, r, b) : k > j
Kept(prog, r, b, j, i) == LastOf(prog, j, i, "save") /\ prog[j].reg = r /\ Untouched(prog, r, b, j)
Copied(prog, r, b, j, i) ==
  /\ prog[j].op = "get" /\ prog[j].reg = r /\ Untouched(prog, r, b, j)
  /\ \A k \in j + 1 .. i - 1 : prog[k].reg = r => prog[k].op \notin {"get", "put"}
SavedIsOriginal(r, b) ==
  \A c \in Inside : \A j \in 1 .. pc[c] - 1 :
    Busy(c, r, b) /\ Kept(Prog(c), r, b, j, pc[c]) => (b \in saved[c] <=> Original(c, r, b))
CopyIsOriginal(r, b) ==
  \A c \in Inside : \A j \in 1 .. pc[c] - 1 :
    Busy(c, r, b) /\ Copied(Prog(c), r, b, j, pc[c]) => (b \in copy[c][r] <=> Original(c, r, b))

EffectAt(r, b) ==
  OneOwner(r, b) /\ AsIdeal(r, b) /\ AsLeft(r, b) /\ SavedIsOriginal(r, b) /\ CopyIsOriginal(r, b)
EffectInv == \A r \in Regs \ (clobbered \cup crossed) : \A b \in Bits[r] : EffectAt(r, b)

-----------------------------------------------------------------------------
(* A chip gets its word: no bit a call drives is changed under it, and the  *)
(* chip has taken in what the call has sent so far.                         *)
Plain(prog, r, b) ==
  /\ ~UsesOffset(prog) /\ r # "DATA_PATH" /\ b \in Drives(prog, r)
  /\ \A i \in DOMAIN prog : prog[i].reg = r /\ prog[i].op = "restore" => b \in prog[i].means
AsDriven(c, r, b) ==
  /\ LeftOn(Prog(c), r, b, pc[c]) => b \in reg[r]
  /\ LeftOff(Prog(c), r, b, pc[c]) => b \notin reg[r]
CopyAsDriven(c, r, b) ==
  \A j \in 1 .. pc[c] - 1 :
    LET prog == Prog(c) IN
    /\ prog[j].op \in {"get", "put"} /\ prog[j].reg = r
    /\ b \in Differ(copy[c][r], reg[r])
    => \E k \in Since(prog, r, j, pc[c]) : ~Puts(prog[k], r) /\ b \in Touched(prog[k], r)
DrivenInv ==
  \A c \in Inside : \A r \in Regs \ crossed : \A b \in Bits[r] :
    Plain(Prog(c), r, b) => AsDriven(c, r, b) /\ CopyAsDriven(c, r, b)

Ends(bits, word, n) ==
  n <= Len(bits) /\ \A i \in 1 .. n : bits[Len(bits) - n + i] = word[i]
Sent(c, line) == Before(Raises(Prog(c), line.reg, line.clk), pc[c])
Load(c) == Calls[kind][call[c]].load
AvFed(c) ==
  Load(c).av # <<>> /\ AvLine(kind).reg \notin crossed =>
    Ends(av, Load(c).av, Sent(c, AvLine(kind)))
SynthFed(c) ==
  Load(c).synth # <<>> /\ SynthLine.reg \notin crossed =>
    /\ Ends(shift, Load(c).synth, Sent(c, SynthLine))
    /\ \A p \in 1 .. pc[c] - 1 : LastStrobe(Prog(c), SynthLine, "stb", p) => synth = Load(c).synth
LoadInv == DrivenInv /\ ClockLoaded /\ \A c \in Inside : AvFed(c) /\ SynthFed(c)

-----------------------------------------------------------------------------
(* Accesses, calls and registers.                                           *)

(* The registers and bits of a reset are registers and bits of the board.   *)
LEMMA ResetBits ==
  /\ "CMD" \in Regs /\ "PDV_CMD" \in Regs /\ "DATA_PATH" \in Regs
  /\ "continuous" \in Bits["DATA_PATH"]
BY DEF Regs, Bits

(* What every access is.                                                    *)
LEMMA AccessFacts ==
  ASSUME NEW a \in Accesses
  PROVE  /\ a.op \in {"get", "put", "save", "restore", "change", "again", "store", "select"}
         /\ a.reg \in Regs /\ a.pio \in BOOLEAN
         /\ a.set \subseteq AllBits /\ a.clear \subseteq AllBits
         /\ a.means \subseteq Bits[a.reg]
         /\ a.op \in {"put", "change"} => a.means = a.set \cup a.clear
         /\ a.op = "store" => a.means = Bits[a.reg] /\ a.set \subseteq a.means
         /\ a.op = "restore" => a.clear \subseteq a.means
         /\ a.op = "again" => a.means = a.set
         /\ a.op = "select" => a.pio
BY DEF Accesses

(* The registers an access writes, and the bits it touches.                 *)
LEMMA WrittenFacts ==
  ASSUME NEW a \in Accesses
  PROVE  /\ Written(a) \subseteq Regs
         /\ Written(a) = {} <=> a.op \in {"get", "save", "select"}
         /\ Written(a) # {} => a.reg \in Written(a)
         /\ \A r \in Written(a) : r # a.reg => IsReset(a) /\ r = "DATA_PATH" /\ a.reg = "PDV_CMD"
         /\ IsReset(a) /\ Written(a) # {} => "DATA_PATH" \in Written(a)
         /\ \A r \in Written(a) : Touched(a, r) \subseteq Bits[r]
BY ResetBits, AccessFacts DEF Written, IsReset, Touched

(* What every call is.                                                      *)
LEMMA CallFacts ==
  ASSUME NEW k \in Kinds, NEW n \in DOMAIN Calls[k]
  PROVE  /\ DOMAIN Calls[k] = 1 .. Len(Calls[k])
         /\ Calls[k][n].prog \in Seq(Accesses)
         /\ DOMAIN Calls[k][n].prog = 1 .. Len(Calls[k][n].prog) /\ Len(Calls[k][n].prog) \in Nat
         /\ \A i \in DOMAIN Calls[k][n].prog : Calls[k][n].prog[i] \in Accesses
         /\ \A e \in Calls[k][n].effects : /\ e.reg \in Regs
                                           /\ e.set \subseteq Bits[e.reg] /\ e.clear \subseteq Bits[e.reg]
<1> DEFINE X == [prog : Seq(Accesses), effects : SUBSET Changes, load : Loads]
<1>1. Calls[k] \in Seq(X)
  BY BoardAssumption
<1>2. DOMAIN Calls[k] = 1 .. Len(Calls[k]) /\ Calls[k][n] \in X
  <2> HIDE DEF X
  <2> QED BY <1>1
<1>3. Calls[k][n].prog \in Seq(Accesses) /\ Calls[k][n].effects \subseteq Changes
  BY <1>2
<1>4. \A e \in Changes : e.reg \in Regs /\ e.set \subseteq Bits[e.reg] /\ e.clear \subseteq Bits[e.reg]
  BY DEF Changes
<1> QED BY <1>2, <1>3, <1>4

(* The call a caller is in, and the accesses of it.                         *)
LEMMA InsideFacts ==
  ASSUME Placed, NEW c \in Inside
  PROVE  /\ c \in Callers /\ call[c] \in DOMAIN Calls[kind] /\ pc[c] \in Nat \ {0}
         /\ DOMAIN Prog(c) = 1 .. Len(Prog(c)) /\ Len(Prog(c)) \in Nat
         /\ pc[c] <= Len(Prog(c)) + 1
         /\ \A i \in DOMAIN Prog(c) : Prog(c)[i] \in Accesses
         /\ \A i \in 1 .. pc[c] - 1 : i \in DOMAIN Prog(c)
<1>1. c \in Callers /\ call[c] \in 1 .. Len(Calls[kind]) /\ pc[c] \in Nat \ {0}
  BY DEF Placed, Inside
<1>2. DOMAIN Calls[kind] = 1 .. Len(Calls[kind])
  BY BoardAssumption DEF Placed
<1>3. call[c] \in DOMAIN Calls[kind] /\ kind \in Kinds
  BY <1>1, <1>2 DEF Placed
<1>4. pc[c] <= Len(Prog(c)) + 1
  BY <1>1 DEF Placed, WellPlaced
<1> QED BY <1>1, <1>3, <1>4, CallFacts DEF Prog

(* Appending a bit to what a chip has taken in.                             *)
LEMMA AppendBit ==
  ASSUME NEW s \in Seq(BOOLEAN), NEW e \in BOOLEAN
  PROVE  /\ Append(s, e) \in Seq(BOOLEAN) /\ Len(Append(s, e)) = Len(s) + 1
         /\ Append(s, e)[Len(s) + 1] = e /\ \A i \in 1 .. Len(s) : Append(s, e)[i] = s[i]
         /\ Len(s) > 0 => /\ Tail(s) \in Seq(BOOLEAN) /\ Len(Tail(s)) = Len(s) - 1
                          /\ \A i \in 1 .. Len(s) - 1 : Tail(s)[i] = s[i + 1]
<1>1. /\ Append(s, e) \in Seq(BOOLEAN) /\ Len(Append(s, e)) = Len(s) + 1
      /\ Append(s, e)[Len(s) + 1] = e /\ \A i \in 1 .. Len(s) : Append(s, e)[i] = s[i]
  OBVIOUS
<1>2. Len(s) > 0 => s # <<>>
  <2>1. s = <<>> => Len(s) = Len(<<>>)
    BY Zenon
  <2> QED BY <2>1
<1> QED BY <1>1, <1>2, HeadTailProperties

(* What a chip has taken in, after a write.                                 *)
LEMMA TakenFacts ==
  ASSUME NEW line, NEW s \in Seq(BOOLEAN), NEW r, NEW v, line.bits \in Nat \ {0}, Len(s) <= line.bits
  PROVE  Taken(line, s, r, v) \in Seq(BOOLEAN) /\ Len(Taken(line, s, r, v)) <= line.bits
<1> DEFINE e == line.data \in v  t == IF Len(s) = line.bits THEN Tail(s) ELSE s
<1>1. t \in Seq(BOOLEAN) /\ Len(t) + 1 <= line.bits /\ e \in BOOLEAN
  <2>1. Len(s) \in Nat /\ e \in BOOLEAN
    OBVIOUS
  <2>2. Len(s) > 0 => Tail(s) \in Seq(BOOLEAN) /\ Len(Tail(s)) = Len(s) - 1
    BY <2>1, AppendBit
  <2>3. CASE Len(s) = line.bits
    <3>1. t = Tail(s)
      BY <2>3
    <3> QED BY <2>1, <2>2, <2>3, <3>1
  <2>4. CASE Len(s) # line.bits
    BY <2>1, <2>4
  <2> QED BY <2>3, <2>4
<1>2. Append(t, e) \in Seq(BOOLEAN) /\ Len(Append(t, e)) = Len(t) + 1
  <2> HIDE DEF t, e
  <2> QED BY <1>1, AppendBit
<1> QED BY <1>1, <1>2 DEF Taken

(* A function with one more value.                                          *)
LEMMA WithFacts ==
  ASSUME NEW f, NEW r, NEW v
  PROVE  /\ DOMAIN With(f, r, v) = DOMAIN f \cup {r} /\ With(f, r, v)[r] = v
         /\ \A s \in DOMAIN f : s # r => With(f, r, v)[s] = f[s]
BY DEF With

-----------------------------------------------------------------------------
(* Steps.                                                                   *)

(* A step of a call moves one caller by one access.                         *)
LEMMA StepFrame ==
  ASSUME Placed, NEW c \in Callers, Step(c)
  PROVE  /\ c \in Inside /\ pc[c] \in DOMAIN Prog(c) /\ Now(c) \in Accesses /\ Now(c) = Prog(c)[pc[c]]
         /\ kind' = kind /\ call' = call /\ made' = made /\ overlapped' = overlapped
         /\ Inside' = Inside /\ \A d \in Callers : Prog(d)' = Prog(d)
         /\ pc' = [pc EXCEPT ![c] = pc[c] + 1]
         /\ pc'[c] = pc[c] + 1 /\ \A d \in Callers \ {c} : pc'[d] = pc[d]
         /\ pc' \in [Callers -> Nat \ {0}]
         /\ Written(Now(c)) = {} => Read(c, Now(c))
         /\ Written(Now(c)) # {} => Write(c, Now(c))
<1>1. c \in Inside /\ pc[c] <= Len(Prog(c)) /\ kind' = kind /\ call' = call /\ made' = made
      /\ overlapped' = overlapped /\ pc' = [pc EXCEPT ![c] = pc[c] + 1]
  BY DEF Step, Move
<1>2. pc[c] \in DOMAIN Prog(c) /\ Now(c) \in Accesses /\ Now(c) = Prog(c)[pc[c]]
  BY <1>1, InsideFacts DEF Now
<1>3. Inside' = Inside /\ \A d \in Callers : Prog(d)' = Prog(d)
  BY <1>1 DEF Inside, Prog
<1>4. pc \in [Callers -> Nat \ {0}]
  BY DEF Placed
<1>5. /\ Written(Now(c)) = {} => Read(c, Now(c))
      /\ Written(Now(c)) # {} => Write(c, Now(c))
  BY DEF Step
<1> QED BY <1>1, <1>2, <1>3, <1>4, <1>5

(* What a read leaves alone, and the copy it takes.                         *)
LEMMA ReadFacts ==
  ASSUME Placed, NEW c \in Callers, NEW a \in Accesses, Read(c, a)
  PROVE  /\ reg' = reg /\ av' = av /\ shift' = shift /\ synth' = synth
         /\ ideal' = ideal /\ crossed' = crossed
         /\ DOMAIN copy' = Callers /\ DOMAIN saved' = Callers
         /\ a.op = "get" => /\ copy'[c][a.reg] = reg[Target(a)]
                            /\ DOMAIN copy'[c] = DOMAIN copy[c] \cup {a.reg}
                            /\ \A s \in DOMAIN copy[c] \ {a.reg} : copy'[c][s] = copy[c][s]
                            /\ Target(a) # a.reg => a.reg \in clobbered'
         /\ a.op # "get" => copy'[c] = copy[c]
         /\ a.op = "save" => saved'[c] = reg[a.reg]
         /\ a.op # "save" => saved' = saved
         /\ a.op = "select" => offset' = a.reg
         /\ a.op # "select" => offset' = offset
         /\ \A d \in Callers \ {c} : copy'[d] = copy[d] /\ saved'[d] = saved[d]
         /\ clobbered' = clobbered \cup IF a.op = "get" /\ Target(a) # a.reg THEN {a.reg} ELSE {}
<1>1. a.op = "get" => copy'[c] = With(copy[c], a.reg, reg[Target(a)])
  BY DEF Read, Placed
<1>2. a.op = "get" => /\ copy'[c][a.reg] = reg[Target(a)]
                      /\ DOMAIN copy'[c] = DOMAIN copy[c] \cup {a.reg}
                      /\ \A s \in DOMAIN copy[c] \ {a.reg} : copy'[c][s] = copy[c][s]
  BY <1>1 DEF With
<1> QED BY <1>2 DEF Read, Placed, chips

(* What a write does to the registers and to what the caller keeps.         *)
LEMMA WriteFacts ==
  ASSUME Placed, NEW c \in Callers, NEW a \in Accesses, Write(c, a), Written(a) # {}
  PROVE  /\ DOMAIN reg' = Regs /\ Target(a) \in Regs
         /\ reg'[Target(a)] \subseteq Value(c, a)
         /\ ~(IsReset(a) /\ Target(a) = "DATA_PATH") => reg'[Target(a)] = Value(c, a)
         /\ \A r \in Regs \ {Target(a)} :
              /\ IsReset(a) /\ r = "DATA_PATH" => reg'[r] = reg[r] \ {"continuous"}
              /\ ~(IsReset(a) /\ r = "DATA_PATH") => reg'[r] = reg[r]
         /\ offset' = offset /\ saved' = saved /\ DOMAIN copy' = Callers
         /\ a.op = "put" => /\ copy'[c][a.reg] = Value(c, a)
                            /\ DOMAIN copy'[c] = DOMAIN copy[c] \cup {a.reg}
                            /\ \A s \in DOMAIN copy[c] \ {a.reg} : copy'[c][s] = copy[c][s]
         /\ a.op # "put" => copy'[c] = copy[c]
         /\ \A d \in Callers \ {c} : copy'[d] = copy[d]
         /\ ideal' = Effect(c, a)
         /\ clobbered' = clobbered \cup
              IF Target(a) = a.reg /\ Changed(c, a) \subseteq a.means THEN {} ELSE {Target(a), a.reg}
         /\ crossed' = crossed \cup
              {s \in {Target(a)} \cup (Written(a) \ {a.reg}) :
                 \E d \in Inside \ {c} :
                   (IF s = Target(a) THEN Changed(c, a) \cup a.means ELSE Touched(a, s))
                      \cap Drives(Prog(d), s) # {}}
         /\ Hardware(a, Value(c, a))
<1>1. Target(a) \in Regs /\ "DATA_PATH" \in Regs
  BY AccessFacts, ResetBits DEF Target, Placed
<1>2. reg' = [[reg EXCEPT ![Target(a)] = Value(c, a)] EXCEPT
                 !["DATA_PATH"] = @ \ IF IsReset(a) THEN {"continuous"} ELSE {}]
  BY DEF Write, Hardware
<1>3. /\ DOMAIN reg' = Regs
      /\ reg'[Target(a)] \subseteq Value(c, a)
      /\ ~(IsReset(a) /\ Target(a) = "DATA_PATH") => reg'[Target(a)] = Value(c, a)
      /\ \A r \in Regs \ {Target(a)} :
           /\ IsReset(a) /\ r = "DATA_PATH" => reg'[r] = reg[r] \ {"continuous"}
           /\ ~(IsReset(a) /\ r = "DATA_PATH") => reg'[r] = reg[r]
  BY <1>1, <1>2 DEF Placed
<1>4. /\ offset' = offset /\ saved' = saved /\ DOMAIN copy' = Callers
      /\ a.op = "put" => copy'[c] = With(copy[c], a.reg, Value(c, a))
      /\ a.op # "put" => copy'[c] = copy[c]
      /\ \A d \in Callers \ {c} : copy'[d] = copy[d]
  BY DEF Write, Placed
<1>5. /\ ideal' = Effect(c, a)
      /\ clobbered' = clobbered \cup
              IF Target(a) = a.reg /\ Changed(c, a) \subseteq a.means THEN {} ELSE {Target(a), a.reg}
      /\ crossed' = crossed \cup
              {s \in {Target(a)} \cup (Written(a) \ {a.reg}) :
                 \E d \in Inside \ {c} :
                   (IF s = Target(a) THEN Changed(c, a) \cup a.means ELSE Touched(a, s))
                      \cap Drives(Prog(d), s) # {}}
      /\ Hardware(a, Value(c, a))
  BY DEF Write, Changed, Differ
<1>6. a.op = "put" => /\ copy'[c][a.reg] = Value(c, a)
                      /\ DOMAIN copy'[c] = DOMAIN copy[c] \cup {a.reg}
                      /\ \A s \in DOMAIN copy[c] \ {a.reg} : copy'[c][s] = copy[c][s]
  BY <1>4 DEF With
<1> QED BY <1>1, <1>3, <1>4, <1>5, <1>6

(* A call that starts has made no access yet, and disturbs nobody.          *)
LEMMA StartFacts ==
  ASSUME Placed, NEW c \in Callers, NEW n \in DOMAIN Calls[kind], Start(c, n)
  PROVE  /\ c \notin Inside /\ Inside' = Inside \cup {c} /\ pc[c] = 1 /\ n \in 1 .. Len(Calls[kind])
         /\ kind' = kind /\ reg' = reg /\ offset' = offset /\ pc' = pc /\ copy' = copy /\ saved' = saved
         /\ av' = av /\ shift' = shift /\ synth' = synth /\ ideal' = ideal
         /\ clobbered' = clobbered /\ crossed' = crossed /\ made' = made \cup {c}
         /\ call' = [call EXCEPT ![c] = n] /\ call' \in [Callers -> 0 .. Len(Calls[kind])]
         /\ \A d \in Callers \ {c} : call'[d] = call[d] /\ Prog(d)' = Prog(d)
         /\ Prog(c)' = Calls[kind][n].prog
         /\ overlapped' = overlapped \cup
              UNION {Shared(Calls[kind][n].prog, Prog(d)) : d \in Inside}
<1>1. n \in 1 .. Len(Calls[kind])
  BY BoardAssumption DEF Placed
<1>2. /\ c \notin Inside /\ call' = [call EXCEPT ![c] = n] /\ made' = made \cup {c}
      /\ kind' = kind /\ reg' = reg /\ offset' = offset /\ pc' = pc /\ copy' = copy /\ saved' = saved
      /\ av' = av /\ shift' = shift /\ synth' = synth /\ ideal' = ideal
      /\ clobbered' = clobbered /\ crossed' = crossed
      /\ overlapped' = overlapped \cup
           UNION {Shared(Calls[kind][n].prog, Prog(d)) : d \in Inside}
  BY DEF Start, chips
<1>3. call' \in [Callers -> 0 .. Len(Calls[kind])] /\ call'[c] = n
      /\ \A d \in Callers \ {c} : call'[d] = call[d]
  BY <1>1, <1>2 DEF Placed
<1>4. Inside' = Inside \cup {c}
  BY <1>1, <1>3 DEF Inside
<1>5. pc[c] = 1
  BY <1>2 DEF Inside, Placed, WellPlaced
<1> QED BY <1>1, <1>2, <1>3, <1>4, <1>5 DEF Prog

(* A call that returns has made all its accesses, and disturbs nobody.      *)
LEMMA ReturnFacts ==
  ASSUME Placed, NEW c \in Callers, Return(c)
  PROVE  /\ c \in Inside /\ Inside' = Inside \ {c} /\ pc[c] = Len(Prog(c)) + 1
         /\ kind' = kind /\ reg' = reg /\ offset' = offset /\ made' = made
         /\ av' = av /\ shift' = shift /\ synth' = synth /\ ideal' = ideal
         /\ clobbered' = clobbered /\ crossed' = crossed /\ overlapped' = overlapped
         /\ call' = [call EXCEPT ![c] = 0] /\ pc' = [pc EXCEPT ![c] = 1]
         /\ call' \in [Callers -> 0 .. Len(Calls[kind])] /\ pc' \in [Callers -> Nat \ {0}]
         /\ call'[c] = 0 /\ pc'[c] = 1 /\ DOMAIN copy' = Callers /\ DOMAIN saved' = Callers
         /\ copy'[c] = NoCopy /\ saved'[c] = {}
         /\ \A d \in Callers \ {c} : /\ call'[d] = call[d] /\ Prog(d)' = Prog(d) /\ pc'[d] = pc[d]
                                     /\ copy'[d] = copy[d] /\ saved'[d] = saved[d]
<1>1. /\ c \in Inside /\ pc[c] > Len(Prog(c)) /\ kind' = kind /\ reg' = reg /\ offset' = offset
      /\ made' = made /\ av' = av /\ shift' = shift /\ synth' = synth /\ ideal' = ideal
      /\ clobbered' = clobbered /\ crossed' = crossed /\ overlapped' = overlapped
      /\ call' = [call EXCEPT ![c] = 0] /\ pc' = [pc EXCEPT ![c] = 1]
      /\ copy' = [copy EXCEPT ![c] = NoCopy] /\ saved' = [saved EXCEPT ![c] = {}]
  BY DEF Return, Finish, chips
<1>2. pc[c] = Len(Prog(c)) + 1
  BY <1>1, InsideFacts
<1>3. /\ call' \in [Callers -> 0 .. Len(Calls[kind])] /\ pc' \in [Callers -> Nat \ {0}]
      /\ call'[c] = 0 /\ pc'[c] = 1 /\ DOMAIN copy' = Callers /\ DOMAIN saved' = Callers
      /\ copy'[c] = NoCopy /\ saved'[c] = {}
      /\ \A d \in Callers \ {c} : /\ call'[d] = call[d] /\ pc'[d] = pc[d]
                                  /\ copy'[d] = copy[d] /\ saved'[d] = saved[d]
  <2>1. Len(Calls[kind]) \in Nat
    BY BoardAssumption DEF Placed
  <2> QED BY <1>1, <2>1 DEF Placed
<1>4. Inside' = Inside \ {c}
  BY <1>3 DEF Inside
<1>5. \A d \in Callers \ {c} : Prog(d)' = Prog(d)
  BY <1>1, <1>3 DEF Prog
<1> QED BY <1>1, <1>2, <1>3, <1>4, <1>5

-----------------------------------------------------------------------------
(* What holds of any calls.                                                 *)

(* Initially.                                                               *)
LEMMA BaseInit == Init => BaseInv
<1> SUFFICES ASSUME Init PROVE BaseInv
  OBVIOUS
<1>1. Len(Calls[kind]) \in Nat
  BY BoardAssumption DEF Init
<1>2. \A r \in Regs : reg[r] \subseteq Bits[r]
  BY BoardAssumption DEF Init
<1>3. DOMAIN reg = Regs
  BY BoardAssumption DEF Init
<1>4. Placed
  BY <1>1, <1>3, ResetBits DEF Init, Placed, WellPlaced
<1>5. Inside = {}
  BY DEF Init, Inside
<1>6. CopiesThere
  BY <1>5 DEF CopiesThere
<1>7. ChipsTyped
  BY EmptySeq DEF Init, ChipsTyped
<1>8. HistoryTyped
  BY DEF Init, HistoryTyped
<1>9. OwnBits
  BY <1>2 DEF Init, OwnBits
<1> QED BY <1>4, <1>6, <1>7, <1>8, <1>9 DEF BaseInv

(* A call starts.                                                           *)
LEMMA BaseStart ==
  ASSUME BaseInv, NEW c \in Callers, NEW n \in DOMAIN Calls[kind], Start(c, n)
  PROVE  BaseInv'
<1> USE DEF BaseInv
<1>1. Placed'
  <2>1. Calls[kind][n].prog \in Seq(Accesses)
    BY CallFacts DEF Placed
  <2>2. WellPlaced'
    <3> SUFFICES ASSUME NEW d \in Callers
                 PROVE  (call[d] = 0 => pc[d] = 1)' /\ (call[d] # 0 => pc[d] <= Len(Prog(d)) + 1)'
      BY DEF WellPlaced
    <3>1. CASE d = c
      <4>1. Len(Calls[kind][n].prog) \in Nat
        BY <2>1
      <4> QED BY <3>1, <4>1, StartFacts
    <3>2. CASE d # c
      BY <3>2, StartFacts DEF Placed, WellPlaced
    <3> QED BY <3>1, <3>2
  <2> QED BY <2>2, StartFacts DEF Placed
<1>2. CopiesThere'
  <2> SUFFICES ASSUME NEW d \in Inside', NEW j \in (1 .. pc[d] - 1)', (Prog(d)[j].op \in {"get", "put"})'
               PROVE  (Prog(d)[j].reg \in DOMAIN copy[d])'
    BY DEF CopiesThere
  <2>1. d # c
    BY StartFacts
  <2>2. d \in Inside /\ d \in Callers
    BY <2>1, StartFacts DEF Inside
  <2> QED BY <2>1, <2>2, StartFacts DEF CopiesThere
<1>3. ChipsTyped' /\ HistoryTyped' /\ OwnBits'
  <2>1. ChipsTyped' /\ OwnBits'
    BY StartFacts DEF ChipsTyped, OwnBits
  <2>2. \A d \in Inside : Shared(Calls[kind][n].prog, Prog(d)) \subseteq Regs
    <3> SUFFICES ASSUME NEW d \in Inside PROVE Shared(Calls[kind][n].prog, Prog(d)) \subseteq Regs
      OBVIOUS
    <3>1. Uses(Calls[kind][n].prog) \subseteq Regs
      BY CallFacts, WrittenFacts, AccessFacts DEF Uses, Mapped, Placed
    <3>2. Uses(Prog(d)) \subseteq Regs
      BY InsideFacts, WrittenFacts, AccessFacts DEF Uses, Mapped
    <3> QED BY <3>1, <3>2 DEF Shared
  <2> QED BY <2>1, <2>2, StartFacts DEF HistoryTyped
<1> QED BY <1>1, <1>2, <1>3

(* A call returns.                                                          *)
LEMMA BaseReturn ==
  ASSUME BaseInv, NEW c \in Callers, Return(c)
  PROVE  BaseInv'
<1> USE DEF BaseInv
<1>1. Placed'
  <2>1. WellPlaced'
    BY ReturnFacts DEF Placed, WellPlaced
  <2> QED BY <2>1, ReturnFacts DEF Placed
<1>2. CopiesThere'
  <2> SUFFICES ASSUME NEW d \in Inside', NEW j \in (1 .. pc[d] - 1)', (Prog(d)[j].op \in {"get", "put"})'
               PROVE  (Prog(d)[j].reg \in DOMAIN copy[d])'
    BY DEF CopiesThere
  <2>1. d # c /\ d \in Inside /\ d \in Callers
    BY ReturnFacts DEF Inside
  <2> QED BY <2>1, ReturnFacts DEF CopiesThere
<1>3. ChipsTyped' /\ HistoryTyped' /\ OwnBits'
  BY ReturnFacts DEF ChipsTyped, OwnBits, HistoryTyped
<1> QED BY <1>1, <1>2, <1>3

(* A read.                                                                  *)
LEMMA BaseRead ==
  ASSUME BaseInv, NEW c \in Callers, Step(c), Read(c, Now(c))
  PROVE  BaseInv'
<1> DEFINE a == Now(c)
<1>1. Placed /\ CopiesThere /\ ChipsTyped /\ HistoryTyped /\ OwnBits
  BY DEF BaseInv
<1>2. Placed'
  <2>1. WellPlaced'
    <3> SUFFICES ASSUME NEW d \in Callers
                 PROVE  (call[d] = 0 => pc[d] = 1)' /\ (call[d] # 0 => pc[d] <= Len(Prog(d)) + 1)'
      BY DEF WellPlaced
    <3>1. CASE d = c
      BY <1>1, <3>1, StepFrame, InsideFacts DEF Inside
    <3>2. CASE d # c
      BY <1>1, <3>2, StepFrame DEF Placed, WellPlaced
    <3> QED BY <3>1, <3>2
  <2>2. offset' \in Regs
    <3>1. offset' \in {offset, a.reg} /\ a \in Accesses
      BY <1>1, StepFrame, ReadFacts
    <3> QED BY <1>1, <3>1, AccessFacts DEF Placed
  <2> QED BY <1>1, <2>1, <2>2, StepFrame, ReadFacts DEF Placed
<1>3. CopiesThere'
  <2> SUFFICES ASSUME NEW d \in Inside', NEW j \in (1 .. pc[d] - 1)', (Prog(d)[j].op \in {"get", "put"})'
               PROVE  (Prog(d)[j].reg \in DOMAIN copy[d])'
    BY DEF CopiesThere
  <2>1. d \in Inside /\ d \in Callers /\ Prog(d)' = Prog(d)
    BY <1>1, StepFrame DEF Inside
  <2>2. CASE d # c
    BY <1>1, <2>1, <2>2, StepFrame, ReadFacts DEF CopiesThere
  <2>3. CASE d = c
    <3>1. Prog(c)[j].op \in {"get", "put"} /\ j \in 1 .. pc[c] /\ pc[c] \in Nat \ {0}
      BY <1>1, <2>1, <2>3, StepFrame, InsideFacts
    <3>2. DOMAIN copy[c] \subseteq DOMAIN copy'[c]
      BY <1>1, StepFrame, ReadFacts
    <3>3. CASE j < pc[c]
      BY <1>1, <2>1, <2>3, <3>1, <3>2, <3>3 DEF CopiesThere
    <3>4. CASE j = pc[c]
      <4>1. a.op = "get" /\ a.reg = Prog(c)[j].reg
        BY <1>1, <3>1, <3>4, StepFrame DEF Read
      <4>2. a.reg \in DOMAIN copy'[c]
        BY <1>1, <4>1, StepFrame, ReadFacts
      <4> QED BY <2>1, <2>3, <4>1, <4>2
    <3> QED BY <3>1, <3>3, <3>4
  <2> QED BY <2>2, <2>3
<1>4. ChipsTyped' /\ HistoryTyped' /\ OwnBits'
  <2>1. clobbered \subseteq clobbered' /\ clobbered' \subseteq Regs
    BY <1>1, StepFrame, ReadFacts, AccessFacts DEF HistoryTyped
  <2> QED BY <1>1, <2>1, StepFrame, ReadFacts DEF ChipsTyped, HistoryTyped, OwnBits
<1> QED BY <1>2, <1>3, <1>4 DEF BaseInv

(* A write, on the places and copies.                                       *)
LEMMA BaseWritePlaces ==
  ASSUME BaseInv, NEW c \in Callers, Step(c), Write(c, Now(c)), Written(Now(c)) # {}
  PROVE  Placed' /\ CopiesThere'
<1> DEFINE a == Now(c)
<1>1. Placed /\ CopiesThere
  BY DEF BaseInv
<1>2. Placed'
  <2>1. WellPlaced'
    <3> SUFFICES ASSUME NEW d \in Callers
                 PROVE  (call[d] = 0 => pc[d] = 1)' /\ (call[d] # 0 => pc[d] <= Len(Prog(d)) + 1)'
      BY DEF WellPlaced
    <3>1. CASE d = c
      BY <1>1, <3>1, StepFrame, InsideFacts DEF Inside
    <3>2. CASE d # c
      BY <1>1, <3>2, StepFrame DEF Placed, WellPlaced
    <3> QED BY <3>1, <3>2
  <2> QED BY <1>1, <2>1, StepFrame, WriteFacts DEF Placed
<1>3. CopiesThere'
  <2> SUFFICES ASSUME NEW d \in Inside', NEW j \in (1 .. pc[d] - 1)', (Prog(d)[j].op \in {"get", "put"})'
               PROVE  (Prog(d)[j].reg \in DOMAIN copy[d])'
    BY DEF CopiesThere
  <2>1. d \in Inside /\ d \in Callers /\ Prog(d)' = Prog(d)
    BY <1>1, StepFrame DEF Inside
  <2>2. CASE d # c
    BY <1>1, <2>1, <2>2, StepFrame, WriteFacts DEF CopiesThere
  <2>3. CASE d = c
    <3>1. Prog(c)[j].op \in {"get", "put"} /\ j \in 1 .. pc[c] /\ pc[c] \in Nat \ {0}
      BY <1>1, <2>1, <2>3, StepFrame, InsideFacts
    <3>2. DOMAIN copy[c] \subseteq DOMAIN copy'[c]
      BY <1>1, StepFrame, WriteFacts
    <3>3. CASE j < pc[c]
      BY <1>1, <2>1, <2>3, <3>1, <3>2, <3>3 DEF CopiesThere
    <3>4. CASE j = pc[c]
      <4>1. a.op = "put" /\ a.reg = Prog(c)[j].reg
        BY <1>1, <3>1, <3>4, StepFrame, WrittenFacts
      <4>2. a.reg \in DOMAIN copy'[c]
        BY <1>1, <4>1, StepFrame, WriteFacts
      <4> QED BY <2>1, <2>3, <4>1, <4>2
    <3> QED BY <3>1, <3>3, <3>4
  <2> QED BY <2>2, <2>3
<1> QED BY <1>2, <1>3

(* What the effects of a call leave of a register.                          *)
LEMMA EffectFacts ==
  ASSUME Placed, NEW c \in Inside, NEW a \in Accesses, NEW r \in Regs
  PROVE  /\ \A b : b \in Effect(c, a)[r] <=>
              \/ \E e \in Effects(c, a) : e.reg = r /\ b \in e.set
              \/ b \in ideal[r] /\ ~\E e \in Effects(c, a) : e.reg = r /\ b \in e.clear
         /\ \A e \in Effects(c, a) : /\ e \in Calls[kind][call[c]].effects
                                     /\ e.reg \in Written(a)
                                     /\ e.set \subseteq Bits[e.reg] /\ e.clear \subseteq Bits[e.reg]
<1>1. \A b : b \in Effect(c, a)[r] <=>
        \/ \E e \in Effects(c, a) : e.reg = r /\ b \in e.set
        \/ b \in ideal[r] /\ ~\E e \in Effects(c, a) : e.reg = r /\ b \in e.clear
  BY DEF Effect
<1>2. \A e \in Effects(c, a) : e \in Calls[kind][call[c]].effects /\ e.reg \in Written(a)
  BY DEF Effects
<1>3. call[c] \in DOMAIN Calls[kind] /\ kind \in Kinds
  BY InsideFacts DEF Placed
<1> QED BY <1>1, <1>2, <1>3, CallFacts

(* A write, on the chips, the history and the bits.                         *)
LEMMA BaseWriteBits ==
  ASSUME BaseInv, NEW c \in Callers, Step(c), Write(c, Now(c)), Written(Now(c)) # {}
  PROVE  ChipsTyped' /\ HistoryTyped' /\ OwnBits'
<1> DEFINE a == Now(c)
<1>1. Placed /\ ChipsTyped /\ HistoryTyped /\ OwnBits /\ c \in Inside /\ a \in Accesses
  BY StepFrame DEF BaseInv
<1>2. ChipsTyped'
  <2>1. Hardware(a, Value(c, a))
    BY <1>1, WriteFacts
  <2>2. av' \in Seq(BOOLEAN) /\ Len(av') <= 24
    <3>1. AvLine(kind).bits = 24
      BY DEF AvLine
    <3> QED BY <1>1, <2>1, <3>1, TakenFacts DEF Hardware, ChipsTyped
  <2>3. shift' \in Seq(BOOLEAN) /\ Len(shift') <= 14
    <3>1. SynthLine.bits = 14
      BY DEF SynthLine
    <3> QED BY <1>1, <2>1, <3>1, TakenFacts DEF Hardware, ChipsTyped
  <2>4. synth' = synth \/ synth' = shift
    BY <2>1 DEF Hardware
  <2> QED BY <1>1, <2>2, <2>3, <2>4 DEF ChipsTyped
<1>3. HistoryTyped'
  <2>1. clobbered' \subseteq Regs /\ crossed' \subseteq Regs
    <3>1. {Target(a), a.reg} \cup Written(a) \subseteq Regs
      BY <1>1, WriteFacts, AccessFacts, WrittenFacts
    <3>2. clobbered' \subseteq clobbered \cup {Target(a), a.reg}
      BY <1>1, WriteFacts
    <3>3. crossed' \subseteq crossed \cup {Target(a)} \cup Written(a)
      BY <1>1, WriteFacts
    <3> QED BY <1>1, <3>1, <3>2, <3>3 DEF HistoryTyped
  <2> QED BY <1>1, <2>1, StepFrame DEF HistoryTyped
<1>4. OwnBits'
  <2>1. \A r \in Regs : ideal'[r] \subseteq Bits[r]
    <3>1. \A r \in Regs : ideal'[r] = Effect(c, a)[r]
      BY <1>1, WriteFacts
    <3> QED BY <1>1, <3>1, EffectFacts DEF OwnBits
  <2>2. \A r \in Regs \ clobbered' : reg'[r] \subseteq Bits[r]
    <3> SUFFICES ASSUME NEW r \in Regs \ clobbered' PROVE reg'[r] \subseteq Bits[r]
      OBVIOUS
    <3>1. reg[r] \subseteq Bits[r]
      BY <1>1, WriteFacts DEF OwnBits
    <3>2. CASE r # Target(a)
      <4>1. reg'[r] = reg[r] \/ reg'[r] = reg[r] \ {"continuous"}
        <5>1. r \in Regs \ {Target(a)}
          BY <3>2
        <5> QED BY <1>1, <5>1, WriteFacts
      <4> QED BY <3>1, <4>1
    <3>3. CASE r = Target(a)
      <4>1. r = a.reg /\ Changed(c, a) \subseteq Bits[r]
        BY <1>1, <3>3, WriteFacts, AccessFacts
      <4>2. Value(c, a) \subseteq Bits[r]
        BY <3>1, <3>3, <4>1 DEF Changed, Differ
      <4>3. reg'[r] \subseteq Value(c, a)
        BY <1>1, <3>3, WriteFacts
      <4> QED BY <4>2, <4>3
    <3> QED BY <3>2, <3>3
  <2> QED BY <2>1, <2>2 DEF OwnBits
<1> QED BY <1>2, <1>3, <1>4

(* The invariant of any calls.                                              *)
LEMMA BaseNext == ASSUME BaseInv, [Next]_vars PROVE BaseInv'
<1>1. CASE UNCHANGED vars
  BY <1>1 DEF vars, chips, caller, history, BaseInv, Placed, WellPlaced, CopiesThere, ChipsTyped,
              HistoryTyped, OwnBits, Prog, Inside
<1>2. ASSUME NEW c \in Callers, NEW n \in DOMAIN Calls[kind], Start(c, n) PROVE BaseInv'
  BY <1>2, BaseStart
<1>3. ASSUME NEW c \in Callers, Return(c) PROVE BaseInv'
  BY <1>3, BaseReturn
<1>4. ASSUME NEW c \in Callers, Step(c) PROVE BaseInv'
  <2>1. CASE Written(Now(c)) = {}
    <3>1. Read(c, Now(c))
      BY <1>4, <2>1 DEF Step
    <3> QED BY <1>4, <3>1, BaseRead
  <2>2. CASE Written(Now(c)) # {}
    <3>1. Write(c, Now(c))
      BY <1>4, <2>2 DEF Step
    <3> QED BY <1>4, <2>2, <3>1, BaseWritePlaces, BaseWriteBits DEF BaseInv
  <2> QED BY <2>1, <2>2
<1> QED BY <1>1, <1>2, <1>3, <1>4 DEF Next

(* Whatever the calls are, callers are where they can be.                   *)
THEOREM BaseAlways == Spec => []BaseInv
BY BaseInit, BaseNext, PTL DEF Spec

-----------------------------------------------------------------------------
(* Uses of registers.                                                       *)

(* A register an access writes, or reaches through the offset, is used; two *)
(* calls that use it share it, and the offset if both use that.             *)
LEMMA UsesFacts ==
  ASSUME NEW p, NEW i \in DOMAIN p
  PROVE  /\ Written(p[i]) \subseteq Uses(p)
         /\ p[i].pio => p[i].reg \in Uses(p) /\ UsesOffset(p)
BY DEF Uses, Mapped, UsesOffset

(* What is shared does not depend on the order, and is used by both.        *)
LEMMA SharedFacts ==
  ASSUME NEW p, NEW q
  PROVE  /\ Shared(p, q) = Shared(q, p)
         /\ Uses(p) \cap Uses(q) \subseteq Shared(p, q)
         /\ UsesOffset(p) /\ UsesOffset(q) => Shared(p, q) = Uses(p) \cup Uses(q)
BY DEF Shared

(* A bit a call drives is one of a register it uses.                        *)
LEMMA DrivesFacts ==
  ASSUME NEW p, NEW r, Drives(p, r) # {}
  PROVE  r \in Uses(p)
<1>1. PICK i \in Places(p, r) : TRUE
  BY DEF Drives
<1> QED BY <1>1, UsesFacts DEF Places

(* What a write does to a register where it undoes nothing.                 *)
LEMMA CleanWrite ==
  ASSUME Placed, NEW c \in Callers, NEW a \in Accesses, Write(c, a), Written(a) # {},
         NEW r \in Regs \ clobbered'
  PROVE  /\ r \notin Written(a) => reg'[r] = reg[r]
         /\ r \in Written(a) /\ r = a.reg =>
              Target(a) = r /\ reg'[r] = Value(c, a) /\ Changed(c, a) \subseteq a.means
         /\ r \in Written(a) /\ r # a.reg =>
              r = "DATA_PATH" /\ IsReset(a) /\ r # Target(a) /\ reg'[r] = reg[r] \ {"continuous"}
         /\ r \in Written(a) => Differ(reg[r], reg'[r]) \subseteq Touched(a, r)
<1>1. \/ Target(a) = a.reg /\ Changed(c, a) \subseteq a.means
      \/ r # Target(a) /\ r # a.reg
  BY WriteFacts
<1>2. a.reg \in Written(a) /\ (IsReset(a) => "DATA_PATH" \in Written(a))
  BY WrittenFacts
<1>3. ASSUME r \notin Written(a) PROVE reg'[r] = reg[r]
  <2>1. r \in Regs \ {Target(a)} /\ ~(IsReset(a) /\ r = "DATA_PATH")
    BY <1>1, <1>2, <1>3
  <2> QED BY <2>1, WriteFacts
<1>4. ASSUME r \in Written(a), r = a.reg
      PROVE  /\ Target(a) = r /\ reg'[r] = Value(c, a) /\ Changed(c, a) \subseteq a.means
             /\ Differ(reg[r], reg'[r]) \subseteq Touched(a, r)
  <2>1. Target(a) = r /\ Changed(c, a) \subseteq a.means
    BY <1>1, <1>4
  <2>2. ~(IsReset(a) /\ Target(a) = "DATA_PATH")
    BY <1>4, <2>1 DEF IsReset
  <2>3. reg'[r] = Value(c, a)
    BY <2>1, <2>2, WriteFacts
  <2> QED BY <1>4, <2>1, <2>3 DEF Changed, Touched
<1>5. ASSUME r \in Written(a), r # a.reg
      PROVE  /\ r = "DATA_PATH" /\ IsReset(a) /\ r # Target(a) /\ reg'[r] = reg[r] \ {"continuous"}
             /\ Differ(reg[r], reg'[r]) \subseteq Touched(a, r)
  <2>1. r = "DATA_PATH" /\ IsReset(a)
    BY <1>5, WrittenFacts
  <2>2. r \in Regs \ {Target(a)}
    BY <1>1, <1>5
  <2>3. reg'[r] = reg[r] \ {"continuous"}
    BY <2>1, <2>2, WriteFacts
  <2> QED BY <1>5, <2>1, <2>2, <2>3 DEF Touched, Differ
<1> QED BY <1>3, <1>4, <1>5

(* The copies a caller has after an access, and where they come from.       *)
LEMMA CopyFacts ==
  ASSUME Placed, NEW c \in Callers, Step(c), NEW r \in Regs \ clobbered'
  PROVE  /\ Now(c).op \in {"get", "put"} /\ Now(c).reg = r => copy'[c][r] = reg'[r]
         /\ r \in DOMAIN copy[c] /\ ~(Now(c).op \in {"get", "put"} /\ Now(c).reg = r) =>
              copy'[c][r] = copy[c][r]
         /\ Now(c).op = "save" /\ Now(c).reg = r => saved'[c] = reg'[r]
         /\ Now(c).op # "save" => saved'[c] = saved[c]
         /\ \A d \in Callers \ {c} : copy'[d] = copy[d] /\ saved'[d] = saved[d]
         /\ r \notin Written(Now(c)) => reg'[r] = reg[r]
         /\ r \in Written(Now(c)) => Differ(reg[r], reg'[r]) \subseteq Touched(Now(c), r)
<1> DEFINE a == Now(c)
<1>1. a \in Accesses
  BY StepFrame
<1>2. CASE Written(a) = {}
  <2>1. Read(c, a) /\ a.op # "put"
    BY <1>1, <1>2, StepFrame, WrittenFacts
  <2>2. a.op = "get" /\ a.reg = r => Target(a) = r
    BY <1>1, <2>1, ReadFacts
  <2> QED BY <1>1, <1>2, <2>1, <2>2, ReadFacts
<1>3. CASE Written(a) # {}
  <2>1. Write(c, a) /\ a.op # "get" /\ a.op # "save" /\ a.reg \in Written(a)
    BY <1>1, <1>3, StepFrame, WrittenFacts
  <2>2. a.op = "put" /\ a.reg = r => copy'[c][r] = reg'[r]
    BY <1>1, <1>3, <2>1, WriteFacts, CleanWrite
  <2> QED BY <1>1, <1>3, <2>1, <2>2, WriteFacts, CleanWrite
<1> QED BY <1>2, <1>3

-----------------------------------------------------------------------------
(* A caller alone on a register loses nothing.                              *)

(* What a careful caller, alone on a register, writes back differs from the *)
(* register by the bits it is meant to change only.                         *)
LEMMA CarefulWrite ==
  ASSUME BaseInv, AloneInv, NEW c \in Callers, Step(c), Write(c, Now(c)), Written(Now(c)) # {},
         Careful(Prog(c)), Now(c).reg \notin overlapped, Target(Now(c)) = Now(c).reg
  PROVE  Changed(c, Now(c)) \subseteq Now(c).means
<1> DEFINE a == Now(c)  p == Prog(c)  i == pc[c]  r == a.reg
<1>1. /\ Placed /\ c \in Inside /\ i \in DOMAIN p /\ a = p[i] /\ a \in Accesses
      /\ DOMAIN p = 1 .. Len(p) /\ Len(p) \in Nat /\ i \in Nat \ {0}
  BY StepFrame, InsideFacts DEF BaseInv
<1>2. r \in Written(a) /\ r \in Uses(p) \ overlapped /\ a.op \in {"put", "restore", "change", "again", "store"}
  BY <1>1, WrittenFacts, UsesFacts, AccessFacts
<1>3. CASE a.op = "put"
  <2>1. PICK j \in Source(p, i, {"get", "put"}) :
           \A k \in j + 1 .. i - 1 : Puts(p[k], r) \/ WritesLess(p, i, k)
    BY <1>1, <1>3 DEF Careful
  <2>2. j \in 1 .. pc[c] - 1 /\ p[j].op \in {"get", "put"} /\ p[j].reg = r
    BY <1>1, <2>1 DEF Source
  <2>3. \A b \in Differ(copy[c][r], reg[r]) :
          \E k \in Since(p, r, j, pc[c]) : ~Puts(p[k], r) /\ b \in Touched(p[k], r)
    BY <1>1, <1>2, <2>2 DEF AloneInv, CopyFresh
  <2>4. \A b \in Differ(copy[c][r], reg[r]) : b \in a.means
    <3> SUFFICES ASSUME NEW b \in Differ(copy[c][r], reg[r]) PROVE b \in a.means
      OBVIOUS
    <3>1. PICK k \in Since(p, r, j, i) : ~Puts(p[k], r) /\ b \in Touched(p[k], r)
      BY <2>3
    <3>2. k \in j + 1 .. i - 1 /\ r \in Written(p[k])
      BY <1>1, <2>2, <3>1 DEF Since, Places
    <3> QED BY <1>1, <2>1, <3>1, <3>2 DEF WritesLess
  <2>5. Value(c, a) = (copy[c][r] \ a.clear) \cup a.set /\ a.means = a.set \cup a.clear
    BY <1>1, <1>3, AccessFacts DEF Value
  <2> QED BY <2>4, <2>5 DEF Changed, Differ
<1>4. CASE a.op = "restore"
  <2>1. PICK j \in Source(p, i, {"save"}) :
           \A k \in j + 1 .. i - 1 : p[k].op # "save" /\ WritesLess(p, i, k)
    BY <1>1, <1>4 DEF Careful
  <2>2. j \in 1 .. pc[c] - 1 /\ LastOf(p, j, pc[c], "save") /\ p[j].reg = r
    BY <1>1, <2>1 DEF Source, LastOf
  <2>3. \A b \in Differ(saved[c], reg[r]) :
          \E k \in Since(p, r, j, pc[c]) : b \in Touched(p[k], r)
    BY <1>1, <1>2, <2>2 DEF AloneInv, SavedFresh
  <2>4. \A b \in Differ(saved[c], reg[r]) : b \in a.means
    <3> SUFFICES ASSUME NEW b \in Differ(saved[c], reg[r]) PROVE b \in a.means
      OBVIOUS
    <3>1. PICK k \in Since(p, r, j, i) : b \in Touched(p[k], r)
      BY <2>3
    <3>2. k \in j + 1 .. i - 1 /\ r \in Written(p[k])
      BY <1>1, <2>2, <3>1 DEF Since, Places
    <3> QED BY <1>1, <2>1, <3>1, <3>2 DEF WritesLess
  <2>5. Value(c, a) = saved[c] \ a.clear /\ a.clear \subseteq a.means
    BY <1>1, <1>4, AccessFacts DEF Value
  <2> QED BY <2>4, <2>5 DEF Changed, Differ
<1>5. CASE a.op = "change"
  BY <1>1, <1>5, AccessFacts DEF Value, Changed, Differ
<1>6. CASE a.op = "again"
  BY <1>1, <1>6, AccessFacts DEF Value, Changed, Differ
<1>7. CASE a.op = "store"
  <2>1. r \notin clobbered /\ r \in Regs
    BY <1>1, <1>2, AccessFacts DEF AloneInv, NothingLostAlone
  <2>2. reg[r] \subseteq Bits[r]
    BY <2>1 DEF BaseInv, OwnBits
  <2> QED BY <1>1, <1>7, <2>2, AccessFacts DEF Value, Changed, Differ
<1> QED BY <1>2, <1>3, <1>4, <1>5, <1>6, <1>7

(* A careful access through the offset reaches its register, or other       *)
(* callers use the offset.                                                  *)
LEMMA CarefulOffset ==
  ASSUME BaseInv, AloneInv, NEW c \in Callers, Step(c), Now(c).op # "select",
         Careful(Prog(c)), Target(Now(c)) # Now(c).reg
  PROVE  offset \in overlapped /\ Target(Now(c)) = offset /\ Now(c).reg \in overlapped
<1> DEFINE a == Now(c)  p == Prog(c)  i == pc[c]
<1>1. /\ Placed /\ c \in Inside /\ i \in DOMAIN p /\ a = p[i] /\ a \in Accesses
      /\ DOMAIN p = 1 .. Len(p) /\ Len(p) \in Nat /\ i \in Nat \ {0}
  BY StepFrame, InsideFacts DEF BaseInv
<1>2. a.pio /\ Target(a) = offset /\ offset # a.reg
  BY <1>1, AccessFacts DEF Target
<1>3. PICK j \in Source(p, i, {"select"}) : \A k \in j + 1 .. i - 1 : p[k].op # "select"
  BY <1>1, <1>2 DEF Careful
<1>4. j \in 1 .. pc[c] - 1 /\ LastOf(p, j, pc[c], "select") /\ p[j].reg = a.reg
  BY <1>1, <1>3 DEF Source, LastOf
<1>5. offset \in overlapped /\ Uses(p) \subseteq overlapped
  BY <1>1, <1>2, <1>4 DEF AloneInv, OffsetKept
<1> QED BY <1>1, <1>2, <1>5, UsesFacts

(* A careful access loses nothing on a register that its caller is alone on.*)
LEMMA CarefulStep ==
  ASSUME BaseInv, AloneInv, NEW c \in Callers, Step(c), Careful(Prog(c))
  PROVE  NothingLostAlone'
<1> DEFINE a == Now(c)
<1>1. /\ Placed /\ c \in Inside /\ pc[c] \in DOMAIN Prog(c) /\ a = Prog(c)[pc[c]] /\ a \in Accesses
      /\ overlapped' = overlapped
  BY StepFrame DEF BaseInv
<1>2. clobbered \subseteq overlapped /\ crossed \subseteq overlapped
  BY DEF AloneInv, NothingLostAlone
<1>3. CASE Written(a) = {}
  <2>1. Read(c, a)
    BY <1>3, StepFrame DEF BaseInv
  <2>2. crossed' = crossed /\ clobbered' = clobbered \cup IF a.op = "get" /\ Target(a) # a.reg THEN {a.reg} ELSE {}
    BY <1>1, <2>1, ReadFacts
  <2> QED BY <1>1, <1>2, <2>2, CarefulOffset DEF NothingLostAlone
<1>4. CASE Written(a) # {}
  <2>1. Write(c, a) /\ a.op # "select"
    BY <1>1, <1>4, StepFrame, WrittenFacts
  <2>2. CASE Target(a) # a.reg
    <3>1. Target(a) \in overlapped /\ a.reg \in overlapped
      BY <2>1, <2>2, CarefulOffset
    <3>2. clobbered' \subseteq overlapped
      BY <1>1, <1>2, <1>4, <2>1, <3>1, WriteFacts
    <3>3. crossed' \subseteq overlapped
      <4> SUFFICES ASSUME NEW s \in Written(a), NEW d \in Inside \ {c}, Drives(Prog(d), s) # {}
                   PROVE  s \in overlapped
        BY <1>1, <1>2, <1>4, <2>1, <3>1, WriteFacts
      <4>1. s \in Uses(Prog(c)) /\ s \in Uses(Prog(d))
        BY <1>1, UsesFacts, DrivesFacts
      <4> QED BY <1>1, <4>1, SharedFacts DEF AloneInv, SharedIsOverlapped
    <3> QED BY <1>1, <3>2, <3>3 DEF NothingLostAlone
  <2>3. CASE Target(a) = a.reg
    <3>1. a.reg \notin overlapped => Changed(c, a) \subseteq a.means
      BY <1>4, <2>1, <2>3, CarefulWrite
    <3>2. clobbered' \subseteq overlapped
      BY <1>1, <1>2, <1>4, <2>1, <2>3, <3>1, WriteFacts
    <3>3. crossed' \subseteq overlapped
      <4>1. a.reg \in Written(a)
        BY <1>1, <1>4, WrittenFacts
      <4> SUFFICES ASSUME NEW s \in Written(a), NEW d \in Inside \ {c}, Drives(Prog(d), s) # {}
                   PROVE  s \in overlapped
        BY <1>1, <1>2, <1>4, <2>1, <2>3, <4>1, WriteFacts
      <4>2. s \in Uses(Prog(c)) /\ s \in Uses(Prog(d))
        BY <1>1, UsesFacts, DrivesFacts
      <4> QED BY <1>1, <4>2, SharedFacts DEF AloneInv, SharedIsOverlapped
    <3> QED BY <1>1, <3>2, <3>3 DEF NothingLostAlone
  <2> QED BY <2>2, <2>3
<1> QED BY <1>3, <1>4

(* Copies stay fresh, another caller's because it would share the register. *)
LEMMA StepKeepsCopies ==
  ASSUME BaseInv, BaseInv', AloneInv, NothingLostAlone', NEW c \in Callers, Step(c)
  PROVE  CopyFresh'
<1> SUFFICES ASSUME NEW d \in Inside', NEW j \in (1 .. pc[d] - 1)',
                    (Prog(d)[j].op \in {"get", "put"})',
                    (Prog(d)[j].reg \in Uses(Prog(d)) \ overlapped)',
                    NEW b \in Differ(copy[d][Prog(d)[j].reg], reg[Prog(d)[j].reg])'
             PROVE  (\E k \in Since(Prog(d), Prog(d)[j].reg, j, pc[d]) :
                        ~Puts(Prog(d)[k], Prog(d)[j].reg) /\ b \in Touched(Prog(d)[k], Prog(d)[j].reg))'
  BY DEF CopyFresh
<1> DEFINE a == Now(c)  p == Prog(d)  r == p[j].reg
<1>1. /\ Placed /\ Inside' = Inside /\ d \in Inside /\ d \in Callers /\ Prog(d)' = p
      /\ overlapped' = overlapped /\ c \in Inside /\ a \in Accesses /\ a = Prog(c)[pc[c]]
      /\ pc[c] \in DOMAIN Prog(c) /\ pc'[c] = pc[c] + 1 /\ \A e \in Callers \ {c} : pc'[e] = pc[e]
  BY StepFrame DEF BaseInv, Inside
<1>2. p[j].op \in {"get", "put"} /\ r \in Uses(p) \ overlapped /\ b \in Differ(copy'[d][r], reg'[r])
  BY <1>1
<1>3. pc[c] \in Nat \ {0} /\ pc[d] \in Nat \ {0} /\ j \in 1 .. pc'[d] - 1 /\ j \in Nat \ {0}
  BY <1>1, InsideFacts
<1>4. r \in Regs \ clobbered'
  <2>1. j \in DOMAIN p /\ p[j] \in Accesses
    BY <1>1, <1>3, InsideFacts
  <2> QED BY <1>1, <1>2, <2>1, AccessFacts DEF NothingLostAlone
<1>5. ASSUME NEW k \in Since(p, r, j, pc'[d]), ~Puts(p[k], r), b \in Touched(p[k], r)
      PROVE  (\E l \in Since(Prog(d), Prog(d)[j].reg, j, pc[d]) :
                ~Puts(Prog(d)[l], Prog(d)[j].reg) /\ b \in Touched(Prog(d)[l], Prog(d)[j].reg))'
  BY <1>1, <1>5
<1>6. CASE d # c
  <2>1. j \in 1 .. pc[d] - 1 /\ pc'[d] = pc[d] /\ copy'[d] = copy[d]
    BY <1>1, <1>3, <1>4, <1>6, CopyFacts
  <2>2. r \notin Written(a)
    BY <1>1, <1>2, <1>6, UsesFacts, SharedFacts DEF AloneInv, SharedIsOverlapped
  <2>3. reg'[r] = reg[r]
    BY <1>1, <1>4, <2>2, CopyFacts
  <2>4. \E k \in Since(p, r, j, pc[d]) : ~Puts(p[k], r) /\ b \in Touched(p[k], r)
    BY <1>1, <1>2, <2>1, <2>3 DEF AloneInv, CopyFresh
  <2> QED BY <1>5, <2>1, <2>4
<1>7. CASE d = c
  <2>1. CASE a.op \in {"get", "put"} /\ a.reg = r
    <3>1. copy'[d][r] = reg'[r]
      BY <1>1, <1>4, <1>7, <2>1, CopyFacts
    <3> QED BY <1>2, <3>1 DEF Differ
  <2>2. CASE ~(a.op \in {"get", "put"} /\ a.reg = r)
    <3>1. j \in 1 .. pc[c] - 1
      BY <1>1, <1>2, <1>3, <1>7, <2>2
    <3>2. r \in DOMAIN copy[c]
      BY <1>2, <1>1, <1>7, <3>1 DEF BaseInv, CopiesThere
    <3>3. copy'[c][r] = copy[c][r]
      BY <1>1, <1>4, <2>2, <3>2, CopyFacts
    <3>4. CASE b \in Differ(copy[c][r], reg[r])
      <4>1. PICK k \in Since(p, r, j, pc[c]) : ~Puts(p[k], r) /\ b \in Touched(p[k], r)
        BY <1>1, <1>2, <1>7, <3>1, <3>4 DEF AloneInv, CopyFresh
      <4>2. k \in Since(p, r, j, pc'[d])
        BY <1>1, <1>3, <1>7, <4>1, InsideFacts DEF Since, Places
      <4> QED BY <1>5, <4>1, <4>2
    <3>5. CASE b \in Differ(reg[r], reg'[r])
      <4>1. r \in Written(a) /\ b \in Touched(a, r)
        BY <1>1, <1>4, <3>5, CopyFacts DEF Differ
      <4>2. pc[c] \in Since(p, r, j, pc'[d])
        BY <1>1, <1>3, <1>7, <3>1, <4>1 DEF Since, Places
      <4>3. ~Puts(p[pc[c]], r)
        BY <1>1, <1>7, <2>2 DEF Puts
      <4> QED BY <1>1, <1>5, <1>7, <4>1, <4>2, <4>3
    <3> QED BY <1>2, <1>7, <3>3, <3>4, <3>5 DEF Differ
  <2> QED BY <2>1, <2>2
<1> QED BY <1>6, <1>7

(* So does what a caller has saved.                                         *)
LEMMA StepKeepsSaved ==
  ASSUME BaseInv, BaseInv', AloneInv, NothingLostAlone', NEW c \in Callers, Step(c)
  PROVE  SavedFresh'
<1> SUFFICES ASSUME NEW d \in Inside', NEW j \in (1 .. pc[d] - 1)',
                    LastOf(Prog(d), j, pc[d], "save")',
                    (Prog(d)[j].reg \in Uses(Prog(d)) \ overlapped)',
                    NEW b \in Differ(saved[d], reg[Prog(d)[j].reg])'
             PROVE  (\E k \in Since(Prog(d), Prog(d)[j].reg, j, pc[d]) : b \in Touched(Prog(d)[k], Prog(d)[j].reg))'
  BY DEF SavedFresh
<1> DEFINE a == Now(c)  p == Prog(d)  r == p[j].reg
<1>1. /\ Placed /\ Inside' = Inside /\ d \in Inside /\ d \in Callers /\ Prog(d)' = p
      /\ overlapped' = overlapped /\ c \in Inside /\ a \in Accesses /\ a = Prog(c)[pc[c]]
      /\ pc[c] \in DOMAIN Prog(c) /\ pc'[c] = pc[c] + 1 /\ \A e \in Callers \ {c} : pc'[e] = pc[e]
  BY StepFrame DEF BaseInv, Inside
<1>2. LastOf(p, j, pc'[d], "save") /\ r \in Uses(p) \ overlapped /\ b \in Differ(saved'[d], reg'[r])
  BY <1>1
<1>3. pc[c] \in Nat \ {0} /\ pc[d] \in Nat \ {0} /\ j \in 1 .. pc'[d] - 1 /\ j \in Nat \ {0}
  BY <1>1, InsideFacts
<1>4. r \in Regs \ clobbered'
  <2>1. j \in DOMAIN p /\ p[j] \in Accesses
    BY <1>1, <1>3, InsideFacts
  <2> QED BY <1>1, <1>2, <2>1, AccessFacts DEF NothingLostAlone
<1>5. ASSUME NEW k \in Since(p, r, j, pc'[d]), b \in Touched(p[k], r)
      PROVE  (\E l \in Since(Prog(d), Prog(d)[j].reg, j, pc[d]) : b \in Touched(Prog(d)[l], Prog(d)[j].reg))'
  BY <1>1, <1>5
<1>6. CASE d # c
  <2>1. j \in 1 .. pc[d] - 1 /\ pc'[d] = pc[d] /\ saved'[d] = saved[d]
    BY <1>1, <1>3, <1>4, <1>6, CopyFacts
  <2>2. r \notin Written(a)
    BY <1>1, <1>2, <1>6, UsesFacts, SharedFacts DEF AloneInv, SharedIsOverlapped
  <2>3. reg'[r] = reg[r]
    BY <1>1, <1>4, <2>2, CopyFacts
  <2>4. \E k \in Since(p, r, j, pc[d]) : b \in Touched(p[k], r)
    BY <1>1, <1>2, <2>1, <2>3 DEF AloneInv, SavedFresh
  <2> QED BY <1>5, <2>1, <2>4
<1>7. CASE d = c
  <2>1. CASE a.op = "save"
    <3>1. j = pc[c]
      BY <1>1, <1>2, <1>3, <1>7, <2>1 DEF LastOf
    <3>2. saved'[d] = reg'[r]
      BY <1>1, <1>4, <1>7, <2>1, <3>1, CopyFacts
    <3> QED BY <1>2, <3>2 DEF Differ
  <2>2. CASE a.op # "save"
    <3>1. j \in 1 .. pc[c] - 1
      BY <1>1, <1>2, <1>3, <1>7, <2>2 DEF LastOf
    <3>2. saved'[c] = saved[c]
      BY <1>1, <1>4, <2>2, CopyFacts
    <3>3. LastOf(p, j, pc[c], "save")
      BY <1>1, <1>2, <1>3, <1>7, <3>1 DEF LastOf
    <3>4. CASE b \in Differ(saved[c], reg[r])
      <4>1. PICK k \in Since(p, r, j, pc[c]) : b \in Touched(p[k], r)
        BY <1>1, <1>2, <1>7, <3>1, <3>3, <3>4 DEF AloneInv, SavedFresh
      <4>2. k \in Since(p, r, j, pc'[d])
        BY <1>1, <1>3, <1>7, <4>1, InsideFacts DEF Since, Places
      <4> QED BY <1>5, <4>1, <4>2
    <3>5. CASE b \in Differ(reg[r], reg'[r])
      <4>1. r \in Written(a) /\ b \in Touched(a, r)
        BY <1>1, <1>4, <3>5, CopyFacts DEF Differ
      <4>2. pc[c] \in Since(p, r, j, pc'[d])
        BY <1>1, <1>3, <1>7, <3>1, <4>1 DEF Since, Places
      <4> QED BY <1>1, <1>5, <1>7, <4>1, <4>2
    <3> QED BY <1>2, <1>7, <3>2, <3>4, <3>5 DEF Differ
  <2> QED BY <2>1, <2>2
<1> QED BY <1>6, <1>7

(* The offset is where a caller has put it, or shared.                      *)
LEMMA StepKeepsOffset ==
  ASSUME BaseInv, AloneInv, NEW c \in Callers, Step(c)
  PROVE  OffsetKept'
<1> SUFFICES ASSUME NEW d \in Inside', NEW j \in (1 .. pc[d] - 1)',
                    LastOf(Prog(d), j, pc[d], "select")'
             PROVE  (\/ offset = Prog(d)[j].reg
                     \/ offset \in overlapped /\ Uses(Prog(d)) \subseteq overlapped)'
  BY DEF OffsetKept
<1> DEFINE a == Now(c)  p == Prog(d)
<1>1. /\ Placed /\ Inside' = Inside /\ d \in Inside /\ d \in Callers /\ Prog(d)' = p
      /\ overlapped' = overlapped /\ c \in Inside /\ a \in Accesses /\ a = Prog(c)[pc[c]]
      /\ pc[c] \in DOMAIN Prog(c) /\ pc'[c] = pc[c] + 1 /\ \A e \in Callers \ {c} : pc'[e] = pc[e]
  BY StepFrame DEF BaseInv, Inside
<1>2. LastOf(p, j, pc'[d], "select")
  BY <1>1
<1>3. pc[c] \in Nat \ {0} /\ pc[d] \in Nat \ {0} /\ j \in 1 .. pc'[d] - 1 /\ j \in Nat \ {0}
  BY <1>1, InsideFacts
<1>4. CASE a.op = "select"
  <2>1. Read(c, a)
    BY <1>1, <1>4, StepFrame, WrittenFacts
  <2>2. offset' = a.reg
    BY <1>1, <1>4, <2>1, ReadFacts
  <2>3. CASE d = c
    <3>1. j = pc[c]
      BY <1>1, <1>2, <1>3, <1>4, <2>3 DEF LastOf
    <3> QED BY <1>1, <2>2, <2>3, <3>1
  <2>4. CASE d # c
    <3>1. j \in DOMAIN p /\ p[j] \in Accesses /\ p[j].op = "select"
      BY <1>1, <1>2, <1>3, <2>4, InsideFacts DEF LastOf
    <3>2. UsesOffset(p) /\ UsesOffset(Prog(c)) /\ a.reg \in Uses(Prog(c))
      BY <1>1, <1>4, <3>1, UsesFacts, AccessFacts
    <3>3. Uses(p) \cup Uses(Prog(c)) \subseteq overlapped
      BY <1>1, <2>4, <3>2, SharedFacts DEF AloneInv, SharedIsOverlapped
    <3> QED BY <1>1, <2>2, <3>2, <3>3
  <2> QED BY <2>3, <2>4
<1>5. CASE a.op # "select"
  <2>1. offset' = offset
    BY <1>1, <1>5, StepFrame, ReadFacts, WriteFacts
  <2>2. j \in 1 .. pc[d] - 1 /\ LastOf(p, j, pc[d], "select")
    BY <1>1, <1>2, <1>3, <1>5 DEF LastOf
  <2> QED BY <1>1, <2>1, <2>2 DEF AloneInv, OffsetKept
<1> QED BY <1>4, <1>5

(* A careful access keeps the invariant.                                    *)
LEMMA AloneStep ==
  ASSUME BaseInv, BaseInv', AloneInv, NEW c \in Callers, Step(c), Careful(Prog(c))
  PROVE  AloneInv'
<1>1. NothingLostAlone'
  BY CarefulStep
<1>2. SharedIsOverlapped'
  <2>1. Inside' = Inside /\ overlapped' = overlapped /\ \A d \in Inside : Prog(d)' = Prog(d)
    BY StepFrame DEF BaseInv, Inside
  <2> QED BY <2>1 DEF AloneInv, SharedIsOverlapped
<1> QED BY <1>1, <1>2, StepKeepsCopies, StepKeepsSaved, StepKeepsOffset DEF AloneInv

(* A call that starts makes what it shares known before it can lose it.     *)
LEMMA AloneStart ==
  ASSUME BaseInv, AloneInv, NEW c \in Callers, NEW n \in DOMAIN Calls[kind], Start(c, n)
  PROVE  AloneInv'
<1> DEFINE new == Calls[kind][n].prog
<1>1. Placed /\ overlapped \subseteq overlapped'
  BY StartFacts DEF BaseInv
<1>2. NothingLostAlone'
  BY <1>1, StartFacts DEF AloneInv, NothingLostAlone
<1>3. ASSUME NEW d \in Inside', d # c
      PROVE  /\ d \in Inside /\ Prog(d)' = Prog(d) /\ pc'[d] = pc[d]
             /\ copy'[d] = copy[d] /\ saved'[d] = saved[d]
  BY <1>1, <1>3, StartFacts DEF Inside
<1>4. reg' = reg /\ offset' = offset /\ pc'[c] = 1
  BY <1>1, StartFacts
<1>5. SharedIsOverlapped'
  <2>1. ASSUME NEW d \in Inside PROVE Shared(new, Prog(d)) \subseteq overlapped'
    BY <1>1, StartFacts
  <2> SUFFICES ASSUME NEW d \in Inside', NEW e \in Inside', d # e
               PROVE  Shared(Prog(d)', Prog(e)') \subseteq overlapped'
    BY DEF SharedIsOverlapped
  <2>2. CASE d # c /\ e # c
    BY <1>1, <1>3, <2>2 DEF AloneInv, SharedIsOverlapped
  <2>3. CASE d = c
    BY <1>1, <1>3, <2>1, <2>3, StartFacts
  <2>4. CASE e = c
    BY <1>1, <1>3, <2>1, <2>4, StartFacts, SharedFacts
  <2> QED BY <2>2, <2>3, <2>4
<1>6. CopyFresh'
  BY <1>1, <1>3, <1>4 DEF AloneInv, CopyFresh
<1>7. SavedFresh'
  BY <1>1, <1>3, <1>4 DEF AloneInv, SavedFresh
<1>8. OffsetKept'
  BY <1>1, <1>3, <1>4 DEF AloneInv, OffsetKept
<1> QED BY <1>2, <1>5, <1>6, <1>7, <1>8 DEF AloneInv

(* A call that returns shares no more.                                      *)
LEMMA AloneReturn ==
  ASSUME BaseInv, AloneInv, NEW c \in Callers, Return(c)
  PROVE  AloneInv'
<1>1. /\ Placed /\ overlapped' = overlapped /\ clobbered' = clobbered /\ crossed' = crossed
      /\ reg' = reg /\ offset' = offset
  BY ReturnFacts DEF BaseInv
<1>2. ASSUME NEW d \in Inside'
      PROVE  /\ d \in Inside /\ Prog(d)' = Prog(d) /\ pc'[d] = pc[d]
             /\ copy'[d] = copy[d] /\ saved'[d] = saved[d]
  BY <1>1, <1>2, ReturnFacts DEF Inside
<1>3. NothingLostAlone'
  BY <1>1 DEF AloneInv, NothingLostAlone
<1>4. SharedIsOverlapped'
  BY <1>1, <1>2 DEF AloneInv, SharedIsOverlapped
<1>5. CopyFresh'
  BY <1>1, <1>2 DEF AloneInv, CopyFresh
<1>6. SavedFresh'
  BY <1>1, <1>2 DEF AloneInv, SavedFresh
<1>7. OffsetKept'
  BY <1>1, <1>2 DEF AloneInv, OffsetKept
<1> QED BY <1>3, <1>4, <1>5, <1>6, <1>7 DEF AloneInv

(* Initially nobody is in a call.                                           *)
LEMMA AloneInit == Init => AloneInv
<1> SUFFICES ASSUME Init PROVE AloneInv
  OBVIOUS
<1>1. Inside = {}
  BY DEF Init, Inside
<1>2. NothingLostAlone
  BY DEF Init, NothingLostAlone
<1> QED BY <1>1, <1>2 DEF AloneInv, SharedIsOverlapped, CopyFresh, SavedFresh, OffsetKept

(* Callers of careful calls lose nothing on a register they are alone on,   *)
(* however many callers there are and however their accesses fall.          *)
THEOREM NothingIsLostAlone ==
  ASSUME \A k \in Kinds : CarefulOn(k)
  PROVE  Spec => []NothingLostAlone
<1>1. ASSUME BaseInv, BaseInv', AloneInv, [Next]_vars PROVE AloneInv'
  <2>1. CASE UNCHANGED vars
    <3>1. /\ kind' = kind /\ reg' = reg /\ offset' = offset /\ call' = call /\ pc' = pc /\ copy' = copy
          /\ saved' = saved /\ clobbered' = clobbered /\ crossed' = crossed /\ overlapped' = overlapped
      BY <2>1 DEF vars, caller, history
    <3>2. Inside' = Inside /\ \A d \in Inside : Prog(d)' = Prog(d)
      BY <3>1 DEF Inside, Prog
    <3>3. NothingLostAlone' /\ SharedIsOverlapped'
      BY <1>1, <3>1, <3>2 DEF AloneInv, NothingLostAlone, SharedIsOverlapped
    <3>4. CopyFresh'
      BY <1>1, <3>1, <3>2 DEF AloneInv, CopyFresh
    <3>5. SavedFresh'
      BY <1>1, <3>1, <3>2 DEF AloneInv, SavedFresh
    <3>6. OffsetKept'
      BY <1>1, <3>1, <3>2 DEF AloneInv, OffsetKept
    <3> QED BY <3>3, <3>4, <3>5, <3>6 DEF AloneInv
  <2>2. ASSUME NEW c \in Callers, Step(c) PROVE AloneInv'
    <3>1. Careful(Prog(c))
      BY <1>1, <2>2, StepFrame, InsideFacts DEF BaseInv, Placed, CarefulOn, Prog
    <3> QED BY <1>1, <2>2, <3>1, AloneStep
  <2>3. ASSUME NEW c \in Callers, NEW n \in DOMAIN Calls[kind], Start(c, n) PROVE AloneInv'
    BY <1>1, <2>3, AloneStart
  <2>4. ASSUME NEW c \in Callers, Return(c) PROVE AloneInv'
    BY <1>1, <2>4, AloneReturn
  <2> QED BY <1>1, <2>1, <2>2, <2>3, <2>4 DEF Next
<1>2. AloneInv => NothingLostAlone
  BY DEF AloneInv
<1> QED BY <1>1, <1>2, AloneInit, BaseAlways, PTL DEF Spec

-----------------------------------------------------------------------------
(* Calls do what they say.                                                  *)

(* What effects make of a register at the last write to it.                 *)
LEMMA IdealFacts ==
  ASSUME BaseInv, NEW c \in Callers, Step(c), NEW r \in Regs
  PROVE  /\ r \notin Written(Now(c)) => ideal'[r] = ideal[r]
         /\ (\E i \in Places(Prog(c), r) : i > pc[c]) => ideal'[r] = ideal[r]
         /\ r \in Written(Now(c)) /\ (\A i \in Places(Prog(c), r) : i <= pc[c]) =>
              \A b : b \in ideal'[r] <=>
                       \/ Sets(Calls[kind][call[c]], r, b)
                       \/ b \in ideal[r] /\ ~Clears(Calls[kind][call[c]], r, b)
<1> DEFINE a == Now(c)
<1>1. Placed /\ c \in Inside /\ a \in Accesses /\ pc[c] \in Nat /\ DOMAIN Prog(c) \subseteq Nat
  <2>1. Placed /\ c \in Inside /\ a \in Accesses
    BY StepFrame DEF BaseInv
  <2>2. Len(Prog(c)) \in Nat /\ DOMAIN Prog(c) = 1 .. Len(Prog(c)) /\ pc[c] \in Nat
    BY <2>1, InsideFacts
  <2> QED BY <2>1, <2>2
<1>2. CASE Written(a) = {}
  BY <1>1, <1>2, StepFrame, ReadFacts
<1>3. CASE Written(a) # {}
  <2>1. Write(c, a)
    BY <1>1, <1>3, StepFrame
  <2>2. ideal'[r] = Effect(c, a)[r]
    BY <1>1, <1>3, <2>1, WriteFacts
  <2>3. ideal'[r] = (ideal[r] \ UNION {e.clear : e \in {f \in Effects(c, a) : f.reg = r}})
                      \cup UNION {e.set : e \in {f \in Effects(c, a) : f.reg = r}}
    BY <2>2 DEF Effect
  <2>4. ASSUME {f \in Effects(c, a) : f.reg = r} = {} PROVE ideal'[r] = ideal[r]
    BY <2>3, <2>4
  <2>5. r \notin Written(a) => {f \in Effects(c, a) : f.reg = r} = {}
    BY DEF Effects
  <2>6. (\E i \in Places(Prog(c), r) : i > pc[c]) => {f \in Effects(c, a) : f.reg = r} = {}
    BY <1>1 DEF Effects, Places
  <2>7. ASSUME r \in Written(a), \A i \in Places(Prog(c), r) : i <= pc[c]
        PROVE  \A b : b \in ideal'[r] <=>
                       \/ Sets(Calls[kind][call[c]], r, b)
                       \/ b \in ideal[r] /\ ~Clears(Calls[kind][call[c]], r, b)
    <3>1. {f \in Effects(c, a) : f.reg = r} = {f \in Calls[kind][call[c]].effects : f.reg = r}
      BY <2>7 DEF Effects
    <3> QED BY <2>3, <3>1 DEF Sets, Clears
  <2> QED BY <2>4, <2>5, <2>6, <2>7
<1> QED BY <1>2, <1>3

(* What a write where nothing is lost does to one bit: no other caller      *)
(* drives a bit it is meant to change.                                      *)
LEMMA BitFacts ==
  ASSUME BaseInv, NEW c \in Callers, Step(c),
         NEW r \in Regs \ (clobbered' \cup crossed'), NEW b \in Bits[r], r \in Written(Now(c))
  PROVE  /\ b \notin Touched(Now(c), r) => (b \in reg'[r] <=> b \in reg[r])
         /\ b \in Touched(Now(c), r) =>
              /\ \A d \in Inside \ {c} : Hits(Prog(d), r, b) = {}
              /\ TurnsOn(Now(c), r, b) => b \in reg'[r]
              /\ TurnsOff(Now(c), r, b) => b \notin reg'[r]
              /\ Now(c).op = "restore" /\ ~TurnsOff(Now(c), r, b) => (b \in reg'[r] <=> b \in saved[c])
              /\ Now(c).op = "again" /\ ~TurnsOff(Now(c), r, b) =>
                   (b \in reg'[r] <=> b \in reg[r] \/ b \in copy[c][r])
<1> DEFINE a == Now(c)
<1>1. Placed /\ c \in Inside /\ a \in Accesses /\ Written(a) # {} /\ Write(c, a) /\ r \in Regs \ clobbered'
  BY StepFrame DEF BaseInv
<1>2. /\ r = a.reg => Target(a) = r /\ reg'[r] = Value(c, a) /\ Changed(c, a) \subseteq a.means
      /\ r # a.reg => r = "DATA_PATH" /\ IsReset(a) /\ r # Target(a) /\ reg'[r] = reg[r] \ {"continuous"}
      /\ Differ(reg[r], reg'[r]) \subseteq Touched(a, r)
  BY <1>1, CleanWrite
<1>3. b \notin Touched(a, r) => (b \in reg'[r] <=> b \in reg[r])
  BY <1>2 DEF Differ
<1>4. ASSUME b \in Touched(a, r), NEW d \in Inside \ {c} PROVE Hits(Prog(d), r, b) = {}
  <2>1. r \in {Target(a)} \cup (Written(a) \ {a.reg})
    BY <1>2
  <2>2. (IF r = Target(a) THEN Changed(c, a) \cup a.means ELSE Touched(a, r)) \cap Drives(Prog(d), r) = {}
    BY <1>1, <2>1, WriteFacts
  <2>3. b \in IF r = Target(a) THEN Changed(c, a) \cup a.means ELSE Touched(a, r)
    BY <1>2, <1>4 DEF Touched
  <2> QED BY <2>2, <2>3 DEF Hits, Drives
<1>5. a.op \in {"put", "restore", "change", "again", "store"}
  BY <1>1, AccessFacts, WrittenFacts
<1>6. ASSUME b \in Touched(a, r), r = a.reg
      PROVE  /\ TurnsOn(a, r, b) => b \in reg'[r]
             /\ TurnsOff(a, r, b) => b \notin reg'[r]
             /\ a.op = "restore" /\ ~TurnsOff(a, r, b) => (b \in reg'[r] <=> b \in saved[c])
             /\ a.op = "again" => (b \in reg'[r] <=> b \in reg[r] \/ b \in copy[c][r])
  <2>1. b \in a.means /\ reg'[r] = Value(c, a)
    BY <1>2, <1>6 DEF Touched
  <2>2. CASE a.op = "put"
    BY <1>1, <1>6, <2>1, <2>2, AccessFacts DEF Value, TurnsOn, TurnsOff
  <2>3. CASE a.op = "restore"
    BY <1>1, <1>6, <2>1, <2>3, AccessFacts DEF Value, TurnsOn, TurnsOff
  <2>4. CASE a.op = "change"
    BY <1>1, <1>6, <2>1, <2>4, AccessFacts DEF Value, TurnsOn, TurnsOff
  <2>5. CASE a.op = "again"
    BY <1>1, <1>6, <2>1, <2>5, AccessFacts DEF Value, TurnsOn, TurnsOff
  <2>6. CASE a.op = "store"
    BY <1>1, <1>6, <2>1, <2>6, AccessFacts DEF Value, TurnsOn, TurnsOff
  <2> QED BY <1>5, <2>2, <2>3, <2>4, <2>5, <2>6
<1>7. ASSUME b \in Touched(a, r), r # a.reg
      PROVE  b \notin reg'[r] /\ TurnsOff(a, r, b) /\ ~TurnsOn(a, r, b)
  BY <1>2, <1>7 DEF Touched, TurnsOff, TurnsOn
<1> QED BY <1>3, <1>4, <1>6, <1>7

(* What a call that has its effect does to a bit.                           *)
LEMMA HasEffectFacts ==
  ASSUME NEW x, HasItsEffect(x), NEW r \in Regs, NEW b \in Bits[r]
  PROVE  /\ Hits(x.prog, r, b) = {} => ~Sets(x, r, b) /\ ~Clears(x, r, b)
         /\ \A i \in Hits(x.prog, r, b) :
              /\ TurnsOn(x.prog[i], r, b) \/ TurnsOff(x.prog[i], r, b) \/ PutsBack(x.prog, i, r, b)
              /\ (\A k \in Hits(x.prog, r, b) : k <= i) =>
                   /\ Sets(x, r, b) <=> TurnsOn(x.prog[i], r, b)
                   /\ ~Sets(x, r, b) /\ Clears(x, r, b) <=> TurnsOff(x.prog[i], r, b)
BY DEF HasItsEffect

(* Hits and places of a call are numbers of its accesses.                   *)
LEMMA HitsFacts ==
  ASSUME Placed, NEW c \in Inside, NEW r, NEW b
  PROVE  /\ Hits(Prog(c), r, b) \subseteq Places(Prog(c), r)
         /\ Places(Prog(c), r) \subseteq DOMAIN Prog(c)
         /\ \A i \in Places(Prog(c), r) : i \in Nat \ {0} /\ i <= Len(Prog(c))
         /\ pc[c] \in Nat \ {0}
<1>1. DOMAIN Prog(c) = 1 .. Len(Prog(c)) /\ Len(Prog(c)) \in Nat /\ pc[c] \in Nat \ {0}
  BY InsideFacts
<1>2. Hits(Prog(c), r, b) \subseteq Places(Prog(c), r) /\ Places(Prog(c), r) \subseteq DOMAIN Prog(c)
  BY DEF Hits, Places
<1> QED BY <1>1, <1>2

(* Whatever it was that the caller put back, it was what was there: a bit   *)
(* it touches is on, off, or as the effects so far say.                     *)
LEMMA TouchedBit ==
  ASSUME BaseInv, NEW c \in Callers, Step(c), HasItsEffect(Calls[kind][call[c]]),
         NEW r \in Regs \ (clobbered' \cup crossed'), NEW b \in Bits[r], EffectAt(r, b),
         r \in Written(Now(c)), b \in Touched(Now(c), r)
  PROVE  /\ TurnsOn(Now(c), r, b) => b \in reg'[r]
         /\ TurnsOff(Now(c), r, b) => b \notin reg'[r]
         /\ ~TurnsOn(Now(c), r, b) /\ ~TurnsOff(Now(c), r, b) => (b \in reg'[r] <=> b \in ideal[r])
<1> DEFINE a == Now(c)  p == Prog(c)  i == pc[c]  hits == Hits(p, r, b)
<1>1. /\ Placed /\ c \in Inside /\ a \in Accesses /\ a = p[i] /\ i \in DOMAIN p
      /\ p = Calls[kind][call[c]].prog /\ i \in Nat \ {0} /\ call[c] # 0
  BY StepFrame, InsideFacts DEF BaseInv, Prog, Inside
<1>2. i \in Places(p, r) /\ i \in hits
  BY <1>1 DEF Places, Hits
<1>3. Busy(c, r, b)
  BY <1>1, <1>2 DEF Busy
<1>4. Owns(c, r, b) <=> \E k \in hits : k < i
  BY <1>1, <1>2 DEF Owns
<1>5. ~Owns(c, r, b) => (b \in reg[r] <=> b \in ideal[r])
  <2>1. \A d \in Inside \ {c} : Hits(Prog(d), r, b) = {}
    BY BitFacts
  <2>2. \A d \in Callers \ {c} : ~Owns(d, r, b)
    BY <2>1 DEF Owns, Inside
  <2> QED BY <2>2 DEF EffectAt, AsIdeal
<1>6. Original(c, r, b) <=> b \in ideal[r]
  BY <1>5 DEF Original
<1>7. ASSUME ~TurnsOn(a, r, b), ~TurnsOff(a, r, b) PROVE b \in reg'[r] <=> b \in ideal[r]
  <2>1. PutsBack(p, i, r, b)
    BY <1>1, <1>2, <1>7, HasEffectFacts
  <2>2. r = a.reg
    BY <1>7 DEF TurnsOff
  <2>3. CASE a.op = "restore"
    <3>1. PICK j \in Source(p, i, {"save"}) :
            (\A k \in j + 1 .. i - 1 : p[k].op # "save") /\ \A k \in hits : k > j
      BY <1>1, <2>1, <2>3 DEF PutsBack
    <3>2. j \in 1 .. i - 1 /\ Kept(p, r, b, j, i)
      BY <1>1, <2>2, <3>1 DEF Source, Kept, LastOf, Untouched
    <3>3. b \in saved[c] <=> Original(c, r, b)
      BY <1>1, <1>3, <3>2 DEF EffectAt, SavedIsOriginal
    <3> QED BY <1>6, <1>7, <2>3, <3>3, BitFacts
  <2>4. CASE a.op = "again"
    <3>1. PICK j \in Source(p, i, {"get"}) :
            /\ \A k \in j + 1 .. i - 1 : p[k].reg = r => p[k].op \notin {"get", "put"}
            /\ \A k \in hits : k > j /\ (k < i => TurnsOff(p[k], r, b))
      BY <1>1, <2>1, <2>4 DEF PutsBack
    <3>2. j \in 1 .. i - 1 /\ Copied(p, r, b, j, i)
      BY <1>1, <2>2, <3>1 DEF Source, Copied, Untouched
    <3>3. b \in copy[c][r] <=> Original(c, r, b)
      BY <1>1, <1>3, <3>2 DEF EffectAt, CopyIsOriginal
    <3>4. Owns(c, r, b) => b \notin reg[r]
      <4> SUFFICES ASSUME Owns(c, r, b) PROVE b \notin reg[r]
        OBVIOUS
      <4>1. PICK k \in hits : k < i /\ LeftBy(p[k], r, b)
        BY <1>1 DEF EffectAt, AsLeft
      <4> QED BY <3>1, <4>1 DEF LeftBy
    <3> QED BY <1>5, <1>6, <1>7, <2>4, <3>3, <3>4, BitFacts
  <2> QED BY <1>1, <2>1, <2>3, <2>4 DEF PutsBack
<1> QED BY <1>7, BitFacts

(* An access moves the owner's hold on a bit.                               *)
LEMMA OwnsFacts ==
  ASSUME Placed, NEW c \in Callers, Step(c), NEW r, NEW b
  PROVE  /\ \A d \in Callers \ {c} : Owns(d, r, b)' = Owns(d, r, b)
         /\ Owns(c, r, b)' <=> /\ \E i \in Hits(Prog(c), r, b) : i <= pc[c]
                               /\ \E i \in Places(Prog(c), r) : i > pc[c]
<1>1. /\ c \in Inside /\ call' = call /\ pc'[c] = pc[c] + 1 /\ call[c] # 0
      /\ \A d \in Callers : Prog(d)' = Prog(d)
      /\ \A d \in Callers \ {c} : pc'[d] = pc[d]
  BY StepFrame DEF Inside
<1>2. \A i \in Places(Prog(c), r) : i \in Nat
  BY <1>1, HitsFacts
<1>3. Hits(Prog(c), r, b) \subseteq Places(Prog(c), r) /\ pc[c] \in Nat
  BY <1>1, HitsFacts
<1>4. ASSUME NEW d \in Callers \ {c} PROVE Owns(d, r, b)' = Owns(d, r, b)
  BY <1>1 DEF Owns
<1>5. Owns(c, r, b)' <=> /\ \E i \in Hits(Prog(c), r, b) : i < pc[c] + 1
                         /\ \E i \in Places(Prog(c), r) : i >= pc[c] + 1
  BY <1>1 DEF Owns
<1> QED BY <1>2, <1>3, <1>4, <1>5

(* What is kept stays what was there if the bit is as it was and its owner  *)
(* the same, or if the bit was as the effects say when it got its owner.    *)
LEMMA KeptStays ==
  ASSUME BaseInv, NEW c \in Callers, Step(c),
         NEW r \in Regs \ (clobbered' \cup crossed'), NEW b \in Bits[r], EffectAt(r, b),
         \A d \in Inside : Busy(d, r, b)' => Busy(d, r, b) /\ (Original(d, r, b)' <=> Original(d, r, b)),
         Now(c).op \in {"get", "save"} /\ Now(c).reg = r => (b \in reg'[r] <=> b \in reg[r])
  PROVE  SavedIsOriginal(r, b)' /\ CopyIsOriginal(r, b)'
<1> DEFINE a == Now(c)
<1>1. /\ Placed /\ Inside' = Inside /\ c \in Inside /\ a \in Accesses /\ a = Prog(c)[pc[c]]
      /\ pc[c] \in DOMAIN Prog(c) /\ pc[c] \in Nat \ {0} /\ pc'[c] = pc[c] + 1
      /\ \A d \in Callers \ {c} : pc'[d] = pc[d]
      /\ \A d \in Callers : Prog(d)' = Prog(d)
      /\ r \in Regs \ clobbered'
  BY StepFrame, InsideFacts DEF BaseInv
<1>2. \A d \in Inside : d \in Callers /\ pc[d] \in Nat \ {0}
  BY <1>1, InsideFacts
<1>3. ASSUME a.op \in {"get", "save"}, a.reg = r, Untouched(Prog(c), r, b, pc[c])
      PROVE  Original(c, r, b) <=> b \in reg[r]
  <2>1. ~Owns(c, r, b)
    BY <1>1, <1>3, HitsFacts DEF Untouched, Owns
  <2> QED BY <2>1 DEF Original
<1>4. SavedIsOriginal(r, b)'
  <2> SUFFICES ASSUME NEW d \in Inside', NEW j \in (1 .. pc[d] - 1)', Busy(d, r, b)',
                      Kept(Prog(d), r, b, j, pc[d])'
               PROVE  (b \in saved[d] <=> Original(d, r, b))'
    BY DEF SavedIsOriginal
  <2>1. d \in Inside /\ d \in Callers /\ Busy(d, r, b) /\ (Original(d, r, b)' <=> Original(d, r, b))
    BY <1>1, <1>2
  <2>2. Kept(Prog(d), r, b, j, pc'[d]) /\ j \in 1 .. pc'[d] - 1
    BY <1>1, <2>1
  <2>3. CASE d # c
    <3>1. saved'[d] = saved[d] /\ pc'[d] = pc[d]
      BY <1>1, <2>1, <2>3, CopyFacts
    <3> QED BY <1>1, <2>1, <2>2, <3>1 DEF EffectAt, SavedIsOriginal
  <2>4. CASE d = c /\ j = pc[c]
    <3>1. a.op = "save" /\ a.reg = r /\ Untouched(Prog(c), r, b, pc[c])
      BY <1>1, <2>2, <2>4 DEF Kept, LastOf
    <3>2. saved'[d] = reg'[r]
      BY <1>1, <2>4, <3>1, CopyFacts
    <3> QED BY <1>3, <2>1, <2>4, <3>1, <3>2
  <2>5. CASE d = c /\ j # pc[c]
    <3>1. j \in 1 .. pc[c] - 1
      BY <1>1, <2>2, <2>5
    <3>2. a.op # "save" /\ Kept(Prog(c), r, b, j, pc[c])
      BY <1>1, <2>2, <2>5, <3>1 DEF Kept, LastOf
    <3>3. saved'[c] = saved[c]
      BY <1>1, <3>2, CopyFacts
    <3>4. b \in saved[c] <=> Original(c, r, b)
      BY <1>1, <2>1, <2>5, <3>1, <3>2 DEF EffectAt, SavedIsOriginal
    <3> QED BY <2>1, <2>5, <3>3, <3>4
  <2> QED BY <2>3, <2>4, <2>5
<1>5. CopyIsOriginal(r, b)'
  <2> SUFFICES ASSUME NEW d \in Inside', NEW j \in (1 .. pc[d] - 1)', Busy(d, r, b)',
                      Copied(Prog(d), r, b, j, pc[d])'
               PROVE  (b \in copy[d][r] <=> Original(d, r, b))'
    BY DEF CopyIsOriginal
  <2>1. d \in Inside /\ d \in Callers /\ Busy(d, r, b) /\ (Original(d, r, b)' <=> Original(d, r, b))
    BY <1>1, <1>2
  <2>2. Copied(Prog(d), r, b, j, pc'[d]) /\ j \in 1 .. pc'[d] - 1
    BY <1>1, <2>1
  <2>3. CASE d # c
    <3>1. copy'[d] = copy[d] /\ pc'[d] = pc[d]
      BY <1>1, <2>1, <2>3, CopyFacts
    <3> QED BY <1>1, <2>1, <2>2, <3>1 DEF EffectAt, CopyIsOriginal
  <2>4. CASE d = c /\ j = pc[c]
    <3>1. a.op = "get" /\ a.reg = r /\ Untouched(Prog(c), r, b, pc[c])
      BY <1>1, <2>2, <2>4 DEF Copied
    <3>2. copy'[d][r] = reg'[r]
      BY <1>1, <2>4, <3>1, CopyFacts
    <3> QED BY <1>3, <2>1, <2>4, <3>1, <3>2
  <2>5. CASE d = c /\ j # pc[c]
    <3>1. j \in 1 .. pc[c] - 1
      BY <1>1, <2>2, <2>5
    <3>2. ~(a.op \in {"get", "put"} /\ a.reg = r) /\ Copied(Prog(c), r, b, j, pc[c])
      BY <1>1, <2>2, <2>5, <3>1 DEF Copied
    <3>3. r \in DOMAIN copy[c]
      BY <1>1, <3>1, <3>2 DEF BaseInv, CopiesThere, Copied
    <3>4. copy'[c][r] = copy[c][r]
      BY <1>1, <3>2, <3>3, CopyFacts
    <3>5. b \in copy[c][r] <=> Original(c, r, b)
      BY <1>1, <2>1, <2>5, <3>1, <3>2 DEF EffectAt, CopyIsOriginal
    <3> QED BY <2>1, <2>5, <3>4, <3>5
  <2> QED BY <2>3, <2>4, <2>5
<1> QED BY <1>4, <1>5

(* An access that is not meant to change a bit, and is not the last write   *)
(* of the register, changes nothing about it.                               *)
LEMMA StepElsewhere ==
  ASSUME BaseInv, NEW c \in Callers, Step(c),
         NEW r \in Regs \ (clobbered' \cup crossed'), NEW b \in Bits[r], EffectAt(r, b),
         r \in Written(Now(c)) => b \notin Touched(Now(c), r),
         (b \in ideal'[r] <=> b \in ideal[r]),
         \A d \in Callers : Owns(d, r, b)' <=> Owns(d, r, b)
  PROVE  EffectAt(r, b)'
<1> DEFINE a == Now(c)
<1>1. /\ Placed /\ c \in Inside /\ Inside' = Inside /\ a = Prog(c)[pc[c]] /\ pc'[c] = pc[c] + 1
      /\ pc[c] \in Nat \ {0} /\ \A d \in Callers \ {c} : pc'[d] = pc[d]
      /\ \A d \in Callers : Prog(d)' = Prog(d)
      /\ r \in Regs \ clobbered' /\ Inside \subseteq Callers
  BY StepFrame, InsideFacts DEF BaseInv, Inside
<1>2. b \in reg'[r] <=> b \in reg[r]
  <2>1. CASE r \in Written(a)
    BY <2>1, BitFacts
  <2>2. CASE r \notin Written(a)
    BY <1>1, <2>2, CopyFacts
  <2> QED BY <2>1, <2>2
<1>3. pc[c] \notin Hits(Prog(c), r, b)
  BY <1>1 DEF Hits, Places
<1>4. OneOwner(r, b)'
  BY DEF EffectAt, OneOwner
<1>5. AsIdeal(r, b)'
  BY <1>2 DEF EffectAt, AsIdeal
<1>6. AsLeft(r, b)'
  <2> SUFFICES ASSUME NEW d \in Callers, Owns(d, r, b)'
               PROVE  (\E i \in Hits(Prog(d), r, b) :
                         /\ i < pc[d] /\ \A k \in Hits(Prog(d), r, b) : k < pc[d] => k <= i
                         /\ LeftBy(Prog(d)[i], r, b))'
    BY DEF AsLeft
  <2>1. PICK i \in Hits(Prog(d), r, b) :
          /\ i < pc[d] /\ \A k \in Hits(Prog(d), r, b) : k < pc[d] => k <= i
          /\ LeftBy(Prog(d)[i], r, b)
    BY DEF EffectAt, AsLeft
  <2>2. d \in Inside /\ Prog(d)' = Prog(d)
    BY <1>1 DEF Owns, Inside
  <2>3. \A k \in Hits(Prog(d), r, b) : k < pc'[d] <=> k < pc[d]
    <3>1. CASE d = c
      <4>1. \A k \in Hits(Prog(c), r, b) : k \in Nat /\ k # pc[c]
        BY <1>1, <1>3, HitsFacts
      <4> QED BY <1>1, <3>1, <4>1
    <3>2. CASE d # c
      BY <1>1, <3>2
    <3> QED BY <3>1, <3>2
  <2>4. LeftBy(Prog(d)[i], r, b)'
    BY <1>2, <2>1, <2>2 DEF LeftBy
  <2> QED BY <2>1, <2>2, <2>3, <2>4
<1>7. \A d \in Inside : Busy(d, r, b)' => Busy(d, r, b) /\ (Original(d, r, b)' <=> Original(d, r, b))
  <2> SUFFICES ASSUME NEW d \in Inside, Busy(d, r, b)'
               PROVE  Busy(d, r, b) /\ (Original(d, r, b)' <=> Original(d, r, b))
    OBVIOUS
  <2>1. Original(d, r, b)' <=> Original(d, r, b)
    BY <1>1, <1>2 DEF Original
  <2>2. Busy(d, r, b)
    <3>1. \A k \in Places(Prog(d), r) : k \in Nat
      BY <1>1, HitsFacts
    <3>2. pc[d] \in Nat /\ pc'[d] \in {pc[d], pc[d] + 1} /\ Prog(d)' = Prog(d)
      BY <1>1, InsideFacts
    <3> QED BY <3>1, <3>2 DEF Busy
  <2> QED BY <2>1, <2>2
<1>8. SavedIsOriginal(r, b)' /\ CopyIsOriginal(r, b)'
  BY <1>2, <1>7, KeptStays
<1> QED BY <1>4, <1>5, <1>6, <1>8 DEF EffectAt

(* The last write of a register by a call gives its bits up: each is what   *)
(* the last access that touched it made of it, which is what the effect of  *)
(* the call says.                                                           *)
LEMMA StepLast ==
  ASSUME BaseInv, NEW c \in Callers, Step(c), HasItsEffect(Calls[kind][call[c]]),
         NEW r \in Regs \ (clobbered' \cup crossed'), NEW b \in Bits[r], EffectAt(r, b),
         r \in Written(Now(c)), Hits(Prog(c), r, b) # {},
         \A i \in Places(Prog(c), r) : i <= pc[c]
  PROVE  EffectAt(r, b)'
<1> DEFINE a == Now(c)  p == Prog(c)  i == pc[c]  hits == Hits(p, r, b)  x == Calls[kind][call[c]]
<1>1. /\ Placed /\ c \in Inside /\ Inside' = Inside /\ a = p[i] /\ i \in DOMAIN p /\ i \in Nat \ {0}
      /\ p = x.prog /\ call[c] # 0 /\ \A d \in Callers : Prog(d)' = Prog(d)
      /\ \A d \in Callers \ {c} : pc'[d] = pc[d]
      /\ r \in Regs \ clobbered' /\ Inside \subseteq Callers
  BY StepFrame, InsideFacts DEF BaseInv, Prog, Inside
<1>2. i \in Places(p, r) /\ hits \subseteq Places(p, r) /\ Places(p, r) \subseteq Nat
  BY <1>1, HitsFacts DEF Places
<1>3. \A d \in Callers \ {c} : ~Owns(d, r, b)
  <2>1. CASE b \in Touched(a, r)
    <3>1. \A d \in Inside \ {c} : Hits(Prog(d), r, b) = {}
      BY <2>1, BitFacts
    <3> QED BY <3>1 DEF Owns, Inside
  <2>2. CASE b \notin Touched(a, r)
    <3>1. PICK k \in hits : TRUE
      OBVIOUS
    <3>2. k # i
      BY <1>1, <2>2, <3>1 DEF Hits
    <3>3. Owns(c, r, b)
      BY <1>1, <1>2, <3>1, <3>2 DEF Owns
    <3> QED BY <3>3 DEF EffectAt, OneOwner
  <2> QED BY <2>1, <2>2
<1>4. \A d \in Callers : ~Owns(d, r, b)'
  BY <1>1, <1>2, <1>3, OwnsFacts
<1>5. \E k \in hits : /\ \A l \in hits : l <= k
                      /\ TurnsOn(p[k], r, b) => b \in reg'[r]
                      /\ TurnsOff(p[k], r, b) => b \notin reg'[r]
                      /\ ~TurnsOn(p[k], r, b) /\ ~TurnsOff(p[k], r, b) => (b \in reg'[r] <=> b \in ideal[r])
  <2>1. CASE b \in Touched(a, r)
    <3>1. i \in hits /\ \A l \in hits : l <= i
      BY <1>1, <1>2, <2>1 DEF Hits
    <3> QED BY <1>1, <2>1, <3>1, TouchedBit
  <2>2. CASE b \notin Touched(a, r)
    <3>1. i \notin hits
      BY <1>1, <2>2 DEF Hits
    <3>2. \A l \in hits : l < i
      BY <1>1, <1>2, <3>1
    <3>3. Owns(c, r, b)
      BY <1>1, <1>2, <3>2 DEF Owns
    <3>4. PICK k \in hits : (\A l \in hits : l < i => l <= k) /\ LeftBy(p[k], r, b)
      BY <3>3 DEF EffectAt, AsLeft
    <3>5. b \in reg'[r] <=> b \in reg[r]
      BY <2>2, BitFacts
    <3> QED BY <3>2, <3>4, <3>5 DEF LeftBy
  <2> QED BY <2>1, <2>2
<1>6. b \in reg'[r] <=> b \in ideal'[r]
  <2>1. PICK k \in hits : /\ \A l \in hits : l <= k
                          /\ TurnsOn(p[k], r, b) => b \in reg'[r]
                          /\ TurnsOff(p[k], r, b) => b \notin reg'[r]
                          /\ ~TurnsOn(p[k], r, b) /\ ~TurnsOff(p[k], r, b) =>
                               (b \in reg'[r] <=> b \in ideal[r])
    BY <1>5
  <2>2. /\ Sets(x, r, b) <=> TurnsOn(p[k], r, b)
        /\ ~Sets(x, r, b) /\ Clears(x, r, b) <=> TurnsOff(p[k], r, b)
    BY <1>1, <2>1, HasEffectFacts
  <2>3. b \in ideal'[r] <=> Sets(x, r, b) \/ (b \in ideal[r] /\ ~Clears(x, r, b))
    <3>1. \A e : e \in ideal'[r] <=> Sets(x, r, e) \/ (e \in ideal[r] /\ ~Clears(x, r, e))
      BY IdealFacts
    <3> QED BY <3>1
  <2> QED BY <2>1, <2>2, <2>3
<1>7. OneOwner(r, b)' /\ AsIdeal(r, b)' /\ AsLeft(r, b)'
  BY <1>4, <1>6 DEF OneOwner, AsIdeal, AsLeft
<1>8. \A d \in Inside : Busy(d, r, b)' => Busy(d, r, b) /\ (Original(d, r, b)' <=> Original(d, r, b))
  <2> SUFFICES ASSUME NEW d \in Inside, Busy(d, r, b)'
               PROVE  Busy(d, r, b) /\ (Original(d, r, b)' <=> Original(d, r, b))
    OBVIOUS
  <2>1. d # c
    BY <1>1, <1>2, StepFrame DEF Busy
  <2>2. Busy(d, r, b) /\ Hits(Prog(d), r, b) # {}
    BY <1>1, <2>1 DEF Busy
  <2>3. b \notin Touched(a, r)
    BY <1>1, <2>1, <2>2, BitFacts
  <2>4. b \in reg'[r] <=> b \in reg[r]
    BY <2>3, BitFacts
  <2>5. ~Owns(d, r, b) /\ ~Owns(d, r, b)'
    BY <1>1, <1>3, <1>4, <2>1
  <2> QED BY <2>2, <2>4, <2>5 DEF Original
<1>9. SavedIsOriginal(r, b)' /\ CopyIsOriginal(r, b)'
  <2>1. ~(a.op \in {"get", "save"})
    BY StepFrame, WrittenFacts DEF BaseInv
  <2> QED BY <1>8, <2>1, KeptStays
<1> QED BY <1>7, <1>9 DEF EffectAt

(* An access that touches a bit, not the last write of the register: the    *)
(* caller owns the bit, and has left it so.                                 *)
LEMMA StepTouches ==
  ASSUME BaseInv, NEW c \in Callers, Step(c), HasItsEffect(Calls[kind][call[c]]),
         NEW r \in Regs \ (clobbered' \cup crossed'), NEW b \in Bits[r], EffectAt(r, b),
         r \in Written(Now(c)), b \in Touched(Now(c), r),
         \E i \in Places(Prog(c), r) : i > pc[c]
  PROVE  EffectAt(r, b)'
<1> DEFINE a == Now(c)  p == Prog(c)  i == pc[c]  hits == Hits(p, r, b)
<1>1. /\ Placed /\ c \in Inside /\ Inside' = Inside /\ a = p[i] /\ i \in DOMAIN p /\ i \in Nat \ {0}
      /\ call[c] # 0 /\ \A d \in Callers : Prog(d)' = Prog(d) /\ pc'[c] = i + 1
      /\ \A d \in Callers \ {c} : pc'[d] = pc[d]
      /\ r \in Regs \ clobbered' /\ Inside \subseteq Callers
  BY StepFrame, InsideFacts DEF BaseInv, Inside
<1>2. i \in Places(p, r) /\ i \in hits /\ hits \subseteq Places(p, r) /\ Places(p, r) \subseteq Nat
  BY <1>1, HitsFacts DEF Places, Hits
<1>3. \A d \in Inside \ {c} : Hits(Prog(d), r, b) = {}
  BY BitFacts
<1>4. \A d \in Callers \ {c} : ~Owns(d, r, b) /\ ~Owns(d, r, b)'
  BY <1>1, <1>3, OwnsFacts DEF Owns, Inside
<1>5. Owns(c, r, b)'
  BY <1>1, <1>2, OwnsFacts
<1>6. ideal'[r] = ideal[r]
  BY <1>1, IdealFacts
<1>7. /\ TurnsOn(a, r, b) => b \in reg'[r]
      /\ TurnsOff(a, r, b) => b \notin reg'[r]
      /\ ~TurnsOn(a, r, b) /\ ~TurnsOff(a, r, b) => (b \in reg'[r] <=> b \in ideal'[r])
  BY <1>6, TouchedBit
<1>8. OneOwner(r, b)' /\ AsIdeal(r, b)'
  BY <1>4, <1>5 DEF OneOwner, AsIdeal
<1>9. AsLeft(r, b)'
  <2> SUFFICES ASSUME NEW d \in Callers, Owns(d, r, b)'
               PROVE  (\E k \in Hits(Prog(d), r, b) :
                         /\ k < pc[d] /\ \A l \in Hits(Prog(d), r, b) : l < pc[d] => l <= k
                         /\ LeftBy(Prog(d)[k], r, b))'
    BY DEF AsLeft
  <2>1. d = c
    BY <1>4
  <2>2. PICK k \in hits : k = i
    BY <1>2
  <2>3. k < pc'[d] /\ \A l \in hits : l < pc'[d] => l <= k
    BY <1>1, <1>2, <2>1, <2>2
  <2>4. Prog(c)'[k] = a /\ k \in Hits(Prog(c)', r, b) /\ Prog(c)' = Prog(c)
    BY <1>1, <2>2
  <2>5. LeftBy(Prog(c)[k], r, b)'
    BY <1>7, <2>4 DEF LeftBy
  <2> QED BY <2>1, <2>3, <2>4, <2>5
<1>10. \A d \in Inside : Busy(d, r, b)' => Busy(d, r, b) /\ (Original(d, r, b)' <=> Original(d, r, b))
  <2> SUFFICES ASSUME NEW d \in Inside, Busy(d, r, b)'
               PROVE  Busy(d, r, b) /\ (Original(d, r, b)' <=> Original(d, r, b))
    OBVIOUS
  <2>1. d = c
    BY <1>1, <1>3 DEF Busy
  <2>2. Busy(c, r, b)
    BY <1>2, <1>1 DEF Busy
  <2>3. Original(c, r, b)' <=> b \in ideal[r]
    BY <1>5, <1>6 DEF Original
  <2>4. Original(c, r, b) <=> b \in ideal[r]
    BY <1>1, <1>4 DEF Original, EffectAt, AsIdeal
  <2> QED BY <2>1, <2>2, <2>3, <2>4
<1>11. SavedIsOriginal(r, b)' /\ CopyIsOriginal(r, b)'
  <2>1. ~(a.op \in {"get", "save"})
    BY StepFrame, WrittenFacts DEF BaseInv
  <2> QED BY <1>10, <2>1, KeptStays
<1> QED BY <1>8, <1>9, <1>11 DEF EffectAt

(* An access of a call that has its effect keeps the invariant.             *)
LEMMA EffectStep ==
  ASSUME BaseInv, EffectInv, NEW c \in Callers, Step(c), HasItsEffect(Calls[kind][call[c]])
  PROVE  EffectInv'
<1> DEFINE a == Now(c)  p == Prog(c)  i == pc[c]  x == Calls[kind][call[c]]
<1>1. Placed /\ c \in Inside /\ a = p[i] /\ i \in DOMAIN p /\ p = x.prog /\ i \in Nat
  BY StepFrame, InsideFacts DEF BaseInv, Prog
<1>2. clobbered \subseteq clobbered' /\ crossed \subseteq crossed'
  BY <1>1, StepFrame, ReadFacts, WriteFacts
<1> SUFFICES ASSUME NEW r \in Regs \ (clobbered' \cup crossed'), NEW b \in Bits[r]
             PROVE  EffectAt(r, b)'
  BY DEF EffectInv
<1>3. EffectAt(r, b)
  BY <1>2 DEF EffectInv
<1>4. Places(p, r) \subseteq Nat /\ Hits(p, r, b) \subseteq Places(p, r)
  BY <1>1, HitsFacts
<1>5. \A d \in Callers \ {c} : Owns(d, r, b)' <=> Owns(d, r, b)
  <2>1. \A d \in Callers \ {c} : Owns(d, r, b)' = Owns(d, r, b)
    BY <1>1, OwnsFacts
  <2> QED BY <2>1
<1>6. CASE r \notin Written(a)
  <2>1. i \notin Places(p, r)
    BY <1>1, <1>6 DEF Places
  <2>2. Owns(c, r, b)' <=> Owns(c, r, b)
    BY <1>1, <1>4, <2>1, OwnsFacts DEF Owns, Inside
  <2>3. ideal'[r] = ideal[r]
    BY <1>6, IdealFacts
  <2> QED BY <1>3, <1>5, <1>6, <2>2, <2>3, StepElsewhere
<1>7. CASE r \in Written(a) /\ \E k \in Places(p, r) : k > i
  <2>1. CASE b \in Touched(a, r)
    BY <1>3, <1>7, <2>1, StepTouches
  <2>2. CASE b \notin Touched(a, r)
    <3>1. i \notin Hits(p, r, b) /\ i \in Places(p, r)
      BY <1>1, <1>7, <2>2 DEF Hits, Places
    <3>2. Owns(c, r, b)' <=> Owns(c, r, b)
      BY <1>1, <1>4, <1>7, <3>1, OwnsFacts DEF Owns, Inside
    <3>3. ideal'[r] = ideal[r]
      BY <1>7, IdealFacts
    <3> QED BY <1>3, <1>5, <2>2, <3>2, <3>3, StepElsewhere
  <2> QED BY <2>1, <2>2
<1>8. CASE r \in Written(a) /\ \A k \in Places(p, r) : k <= i
  <2>1. CASE Hits(p, r, b) # {}
    BY <1>3, <1>8, <2>1, StepLast
  <2>2. CASE Hits(p, r, b) = {}
    <3>1. b \notin Touched(a, r)
      BY <1>1, <1>8, <2>2 DEF Hits, Places
    <3>2. Owns(c, r, b)' <=> Owns(c, r, b)
      BY <1>1, <2>2, OwnsFacts DEF Owns
    <3>3. b \in ideal'[r] <=> b \in ideal[r]
      BY <1>1, <1>8, <2>2, IdealFacts, HasEffectFacts
    <3> QED BY <1>3, <1>5, <3>1, <3>2, <3>3, StepElsewhere
  <2> QED BY <2>1, <2>2
<1> QED BY <1>1, <1>4, <1>6, <1>7, <1>8

(* Starting or returning, a caller owns nothing.                            *)
LEMMA EffectFrame ==
  ASSUME NEW c \in Callers, EffectInv, reg' = reg, ideal' = ideal, clobbered' = clobbered, crossed' = crossed,
         \A r, b : ~Owns(c, r, b) /\ ~Owns(c, r, b)',
         \A d \in Callers \ {c} : /\ call'[d] = call[d] /\ Prog(d)' = Prog(d) /\ pc'[d] = pc[d]
                                  /\ copy'[d] = copy[d] /\ saved'[d] = saved[d],
         c \in Inside' => pc'[c] = 1
  PROVE  EffectInv'
<1> SUFFICES ASSUME NEW r \in Regs \ (clobbered \cup crossed), NEW b \in Bits[r] PROVE EffectAt(r, b)'
  BY DEF EffectInv
<1>1. EffectAt(r, b)
  BY DEF EffectInv
<1>2. \A d \in Callers : Owns(d, r, b)' <=> Owns(d, r, b)
  <2>1. \A d \in Callers \ {c} : Owns(d, r, b)' <=> Owns(d, r, b)
    BY DEF Owns
  <2> QED BY <2>1
<1>3. ASSUME NEW d \in Inside', NEW j \in 1 .. pc'[d] - 1
      PROVE  /\ d \in Inside /\ d # c /\ d \in Callers /\ pc'[d] = pc[d] /\ Prog(d)' = Prog(d)
             /\ (Busy(d, r, b)' <=> Busy(d, r, b)) /\ (Original(d, r, b)' <=> Original(d, r, b))
             /\ copy'[d] = copy[d] /\ saved'[d] = saved[d]
  <2>1. d # c /\ d \in Callers
    BY <1>3 DEF Inside
  <2>2. d \in Inside
    BY <1>3, <2>1 DEF Inside
  <2>3. Original(d, r, b)' <=> Original(d, r, b)
    BY <1>2, <2>1 DEF Original
  <2>4. Busy(d, r, b)' <=> Busy(d, r, b)
    BY <2>1 DEF Busy
  <2> QED BY <2>1, <2>2, <2>3, <2>4
<1>4. OneOwner(r, b)' /\ AsIdeal(r, b)'
  BY <1>1, <1>2 DEF EffectAt, OneOwner, AsIdeal
<1>5. AsLeft(r, b)'
  <2> SUFFICES ASSUME NEW d \in Callers, Owns(d, r, b)'
               PROVE  (\E i \in Hits(Prog(d), r, b) :
                         /\ i < pc[d] /\ \A k \in Hits(Prog(d), r, b) : k < pc[d] => k <= i
                         /\ LeftBy(Prog(d)[i], r, b))'
    BY DEF AsLeft
  <2>1. d # c
    OBVIOUS
  <2>2. PICK i \in Hits(Prog(d), r, b) :
          /\ i < pc[d] /\ \A k \in Hits(Prog(d), r, b) : k < pc[d] => k <= i
          /\ LeftBy(Prog(d)[i], r, b)
    BY <1>1, <1>2 DEF EffectAt, AsLeft
  <2>3. LeftBy(Prog(d)[i], r, b)'
    BY <2>1, <2>2 DEF LeftBy
  <2> QED BY <2>1, <2>2, <2>3
<1>6. SavedIsOriginal(r, b)'
  BY <1>1, <1>3 DEF EffectAt, SavedIsOriginal
<1>7. CopyIsOriginal(r, b)'
  BY <1>1, <1>3 DEF EffectAt, CopyIsOriginal
<1> QED BY <1>4, <1>5, <1>6, <1>7 DEF EffectAt

(* Initially every register is as it was.                                   *)
LEMMA EffectInit == Init => EffectInv
<1> SUFFICES ASSUME Init, NEW r \in Regs, NEW b \in Bits[r] PROVE EffectAt(r, b)
  BY DEF EffectInv
<1>1. Inside = {} /\ \A c \in Callers : ~Owns(c, r, b)
  BY DEF Init, Inside, Owns
<1>2. reg[r] = ideal[r]
  BY DEF Init
<1> QED BY <1>1, <1>2 DEF EffectAt, OneOwner, AsIdeal, AsLeft, SavedIsOriginal, CopyIsOriginal

(* Any step.                                                                *)
LEMMA EffectNext ==
  ASSUME \A k \in Kinds : EffectiveOn(k), BaseInv, EffectInv, [Next]_vars
  PROVE  EffectInv'
<1>1. Placed
  BY DEF BaseInv
<1>2. CASE UNCHANGED vars
  <2>1. /\ kind' = kind /\ reg' = reg /\ call' = call /\ pc' = pc /\ copy' = copy /\ saved' = saved
        /\ ideal' = ideal /\ clobbered' = clobbered /\ crossed' = crossed
    BY <1>2 DEF vars, caller, history
  <2>2. Inside' = Inside /\ \A d \in Callers : Prog(d)' = Prog(d)
    BY <2>1 DEF Inside, Prog
  <2> SUFFICES ASSUME NEW r \in Regs \ (clobbered \cup crossed), NEW b \in Bits[r] PROVE EffectAt(r, b)'
    BY <2>1 DEF EffectInv
  <2>3. EffectAt(r, b)
    BY DEF EffectInv
  <2>4. \A c \in Callers : Owns(c, r, b)' <=> Owns(c, r, b)
    BY <2>1, <2>2 DEF Owns
  <2>5. \A c \in Callers : /\ Busy(c, r, b)' <=> Busy(c, r, b)
                           /\ Original(c, r, b)' <=> Original(c, r, b)
    BY <2>1, <2>2, <2>4 DEF Busy, Original
  <2>6. OneOwner(r, b)' /\ AsIdeal(r, b)'
    BY <2>1, <2>3, <2>4 DEF EffectAt, OneOwner, AsIdeal
  <2>7. AsLeft(r, b)'
    BY <2>1, <2>2, <2>3, <2>4 DEF EffectAt, AsLeft, LeftBy
  <2>8. SavedIsOriginal(r, b)' /\ CopyIsOriginal(r, b)'
    BY <2>1, <2>2, <2>3, <2>5 DEF EffectAt, SavedIsOriginal, CopyIsOriginal, Inside
  <2> QED BY <2>6, <2>7, <2>8 DEF EffectAt
<1>3. ASSUME NEW c \in Callers, Step(c) PROVE EffectInv'
  <2>1. c \in Inside /\ kind \in Kinds /\ call[c] \in DOMAIN Calls[kind]
    BY <1>1, <1>3, StepFrame, InsideFacts DEF Placed
  <2>2. HasItsEffect(Calls[kind][call[c]])
    BY <2>1 DEF EffectiveOn
  <2> QED BY <1>3, <2>2, EffectStep
<1>4. ASSUME NEW c \in Callers, NEW n \in DOMAIN Calls[kind], Start(c, n) PROVE EffectInv'
  <2>1. /\ call[c] = 0 /\ pc'[c] = 1
        /\ reg' = reg /\ ideal' = ideal /\ clobbered' = clobbered /\ crossed' = crossed
        /\ \A d \in Callers \ {c} : /\ call'[d] = call[d] /\ Prog(d)' = Prog(d) /\ pc'[d] = pc[d]
                                    /\ copy'[d] = copy[d] /\ saved'[d] = saved[d]
    BY <1>1, <1>4, StartFacts DEF Inside
  <2>2. \A i \in DOMAIN Calls[kind][n].prog : i \in Nat \ {0}
    BY <1>1, <1>4, CallFacts DEF Placed
  <2>3. Prog(c)' = Calls[kind][n].prog
    BY <1>1, <1>4, StartFacts
  <2>4. \A r, b : ~Owns(c, r, b) /\ ~Owns(c, r, b)'
    BY <2>1, <2>2, <2>3 DEF Owns, Hits, Places
  <2> QED BY <2>1, <2>4, EffectFrame
<1>5. ASSUME NEW c \in Callers, Return(c) PROVE EffectInv'
  <2>1. /\ c \in Inside /\ call'[c] = 0 /\ pc'[c] = 1 /\ pc[c] = Len(Prog(c)) + 1
        /\ reg' = reg /\ ideal' = ideal /\ clobbered' = clobbered /\ crossed' = crossed
        /\ \A d \in Callers \ {c} : /\ call'[d] = call[d] /\ Prog(d)' = Prog(d) /\ pc'[d] = pc[d]
                                    /\ copy'[d] = copy[d] /\ saved'[d] = saved[d]
    BY <1>1, <1>5, ReturnFacts
  <2>2. Len(Prog(c)) \in Nat /\ DOMAIN Prog(c) = 1 .. Len(Prog(c))
    BY <1>1, <2>1, InsideFacts
  <2>3. \A r, b : ~Owns(c, r, b) /\ ~Owns(c, r, b)'
    BY <2>1, <2>2 DEF Owns, Places
  <2> QED BY <2>1, <2>3, EffectFrame
<1> QED BY <1>2, <1>3, <1>4, <1>5 DEF Next

(* Where no call is between its first and its last write to a register,     *)
(* nobody owns a bit of it.                                                 *)
LEMMA SettledIsIdeal ==
  ASSUME BaseInv, EffectInv, NEW r \in Regs \ (clobbered \cup crossed), Settled(r)
  PROVE  reg[r] = ideal[r]
<1>1. reg[r] \subseteq Bits[r] /\ ideal[r] \subseteq Bits[r] /\ Placed
  BY DEF BaseInv, OwnBits
<1>2. ASSUME NEW b \in Bits[r] PROVE b \in reg[r] <=> b \in ideal[r]
  <2>1. ASSUME NEW c \in Callers, Owns(c, r, b) PROVE FALSE
    <3>1. c \in Inside
      BY <2>1 DEF Owns, Inside
    <3>2. PICK i \in Hits(Prog(c), r, b) : i < pc[c]
      BY <2>1 DEF Owns
    <3>3. PICK j \in Places(Prog(c), r) : j >= pc[c]
      BY <2>1 DEF Owns
    <3>4. i \in Places(Prog(c), r) /\ i \in Nat /\ j \in Nat /\ pc[c] \in Nat
      BY <1>1, <3>1, HitsFacts
    <3> QED BY <3>1, <3>2, <3>3, <3>4 DEF Settled
  <2> QED BY <2>1 DEF EffectInv, EffectAt, AsIdeal
<1> QED BY <1>1, <1>2

(* Calls that have their effects when nobody interferes have them together, *)
(* however many callers there are and however their accesses fall, on every *)
(* register where no write undid or crossed what another caller did.        *)
THEOREM CallsDoTogetherWhatTheySay ==
  ASSUME \A k \in Kinds : EffectiveOn(k)
  PROVE  Spec => []CallsDoWhatTheySay
<1>1. BaseInv /\ EffectInv => CallsDoWhatTheySay
  BY SettledIsIdeal DEF CallsDoWhatTheySay
<1>2. BaseInv /\ EffectInv /\ [Next]_vars => EffectInv'
  BY EffectNext
<1> QED BY <1>1, <1>2, EffectInit, BaseAlways, PTL DEF Spec

-----------------------------------------------------------------------------
(* Types.                                                                   *)

(* What a careful call writes are bits.                                     *)
LEMMA ValueBits ==
  ASSUME BaseInv, BitsOnly, NEW c \in Callers, Step(c), Written(Now(c)) # {}, Careful(Prog(c))
  PROVE  Value(c, Now(c)) \subseteq AllBits
<1> DEFINE a == Now(c)  p == Prog(c)  i == pc[c]
<1>1. /\ Placed /\ c \in Inside /\ i \in DOMAIN p /\ a = p[i] /\ a \in Accesses
      /\ DOMAIN p = 1 .. Len(p) /\ Len(p) \in Nat /\ i \in Nat \ {0}
  BY StepFrame, InsideFacts DEF BaseInv
<1>2. /\ a.op \in {"put", "restore", "change", "again", "store"} /\ a.reg \in Regs
      /\ a.set \subseteq AllBits
  BY <1>1, WrittenFacts, AccessFacts
<1>3. CASE a.op = "put"
  <2>1. PICK j \in Source(p, i, {"get", "put"}) : TRUE
    BY <1>1, <1>3 DEF Careful
  <2>2. a.reg \in DOMAIN copy[c]
    BY <1>1, <2>1 DEF Source, BaseInv, CopiesThere
  <2> QED BY <1>2, <1>3, <2>2 DEF Value, BitsOnly
<1>4. CASE a.op \in {"restore", "change", "again", "store"}
  BY <1>2, <1>4 DEF Value, BitsOnly
<1> QED BY <1>2, <1>3, <1>4

(* Bits are everywhere if calls are careful.                                *)
LEMMA BitsNext ==
  ASSUME \A k \in Kinds : CarefulOn(k), BaseInv, BitsOnly, [Next]_vars
  PROVE  BitsOnly'
<1>1. Placed
  BY DEF BaseInv
<1>2. CASE UNCHANGED vars
  BY <1>2 DEF vars, caller, history, BitsOnly
<1>3. ASSUME NEW c \in Callers, NEW n \in DOMAIN Calls[kind], Start(c, n) PROVE BitsOnly'
  BY <1>1, <1>3, StartFacts DEF BitsOnly
<1>4. ASSUME NEW c \in Callers, Return(c) PROVE BitsOnly'
  <2>1. DOMAIN NoCopy = {}
    BY DEF NoCopy
  <2> QED BY <1>1, <1>4, <2>1, ReturnFacts DEF BitsOnly
<1>5. ASSUME NEW c \in Callers, Step(c) PROVE BitsOnly'
  <2> DEFINE a == Now(c)
  <2>1. c \in Inside /\ a \in Accesses /\ a.reg \in Regs /\ offset \in Regs
    BY <1>1, <1>5, StepFrame, AccessFacts DEF Placed
  <2>2. Careful(Prog(c))
    BY <1>1, <2>1, InsideFacts DEF Placed, CarefulOn, Prog
  <2>3. CASE Written(a) = {}
    <3>1. Read(c, a) /\ Target(a) \in Regs
      BY <1>1, <1>5, <2>1, <2>3, StepFrame DEF Target
    <3>2. reg' = reg
      BY <1>1, <2>1, <3>1, ReadFacts
    <3>3. \A d \in Callers : saved'[d] \subseteq AllBits
      BY <1>1, <2>1, <3>1, ReadFacts DEF BitsOnly
    <3>4. \A d \in Callers : \A r \in DOMAIN copy'[d] : copy'[d][r] \subseteq AllBits
      <4>1. \A r \in DOMAIN copy'[c] : copy'[c][r] \subseteq AllBits
        BY <1>1, <2>1, <3>1, ReadFacts DEF BitsOnly
      <4>2. \A d \in Callers \ {c} : copy'[d] = copy[d]
        BY <1>1, <2>1, <3>1, ReadFacts
      <4> QED BY <4>1, <4>2 DEF BitsOnly
    <3> QED BY <3>2, <3>3, <3>4 DEF BitsOnly
  <2>4. CASE Written(a) # {}
    <3>1. Write(c, a) /\ Value(c, a) \subseteq AllBits
      BY <1>1, <1>5, <2>2, <2>4, StepFrame, ValueBits
    <3>2. saved' = saved
      BY <1>1, <2>1, <2>4, <3>1, WriteFacts
    <3>3. \A r \in Regs : reg'[r] \subseteq AllBits
      <4> SUFFICES ASSUME NEW r \in Regs PROVE reg'[r] \subseteq AllBits
        OBVIOUS
      <4>1. CASE r = Target(a)
        <5>1. reg'[Target(a)] \subseteq Value(c, a)
          BY <1>1, <2>1, <2>4, <3>1, WriteFacts
        <5> QED BY <3>1, <4>1, <5>1
      <4>2. CASE r # Target(a)
        <5>1. r \in Regs \ {Target(a)}
          BY <4>2
        <5>2. reg'[r] = reg[r] \/ reg'[r] = reg[r] \ {"continuous"}
          BY <1>1, <2>1, <2>4, <3>1, <5>1, WriteFacts
        <5> QED BY <5>2 DEF BitsOnly
      <4> QED BY <4>1, <4>2
    <3>4. \A d \in Callers : \A r \in DOMAIN copy'[d] : copy'[d][r] \subseteq AllBits
      <4>1. \A r \in DOMAIN copy'[c] : copy'[c][r] \subseteq AllBits
        BY <1>1, <2>1, <2>4, <3>1, WriteFacts DEF BitsOnly
      <4>2. \A d \in Callers \ {c} : copy'[d] = copy[d]
        BY <1>1, <2>1, <2>4, <3>1, WriteFacts
      <4> QED BY <4>1, <4>2 DEF BitsOnly
    <3> QED BY <3>2, <3>3, <3>4 DEF BitsOnly
  <2> QED BY <2>3, <2>4
<1> QED BY <1>2, <1>3, <1>4, <1>5 DEF Next

(* Initially.                                                               *)
LEMMA BitsInit == Init => BitsOnly
<1>1. DOMAIN NoCopy = {}
  BY DEF NoCopy
<1>2. Init => \A r \in Regs : reg[r] \subseteq AllBits
  BY BoardAssumption DEF Init
<1> QED BY <1>1, <1>2 DEF Init, BitsOnly

(* Types of the variables, if the calls are careful: a call that wrote back *)
(* a copy it does not have could write anything.                            *)
THEOREM BoardTypeCorrect ==
  ASSUME \A k \in Kinds : CarefulOn(k)
  PROVE  Spec => []TypeOK
<1>1. BaseInv /\ BitsOnly => TypeOK
  <2> SUFFICES ASSUME BaseInv, BitsOnly PROVE TypeOK
    OBVIOUS
  <2>1. \A c \in Callers : call[c] \in 0 .. Len(Calls[kind]) /\ pc[c] \in Nat \ {0}
    BY DEF BaseInv, Placed
  <2> QED BY <2>1 DEF TypeOK, BaseInv, Placed, ChipsTyped, HistoryTyped, OwnBits, BitsOnly
<1>2. (\A k \in Kinds : CarefulOn(k)) /\ BaseInv /\ BitsOnly /\ [Next]_vars => BitsOnly'
  BY BitsNext
<1> QED BY <1>1, <1>2, BitsInit, BaseAlways, PTL DEF Spec
-----------------------------------------------------------------------------
(* Bits that a call drives.                                                 *)

(* A bit a call drives is a bit of the register, and it hits it somewhere.  *)
LEMMA HitFacts ==
  ASSUME NEW p, \A i \in DOMAIN p : p[i] \in Accesses, NEW r, NEW b
  PROVE  /\ b \in Drives(p, r) <=> \E i \in DOMAIN p : Hit(p[i], r, b)
         /\ b \in Drives(p, r) => r \in Regs /\ b \in Bits[r]
         /\ \A i \in DOMAIN p : i \in Hits(p, r, b) <=> Hit(p[i], r, b)
         /\ Hits(p, r, b) \subseteq DOMAIN p
BY WrittenFacts DEF Drives, Places, Hits, Hit

(* An access in its own register: what it hits is what it means.            *)
LEMMA HitMeans ==
  ASSUME NEW a \in Accesses, NEW r, r # "DATA_PATH", NEW b
  PROVE  /\ r \in Written(a) <=> a.reg = r /\ Written(a) # {}
         /\ Hit(a, r, b) <=> a.reg = r /\ Written(a) # {} /\ b \in a.means
         /\ r \in Written(a) => Touched(a, r) = a.means
BY WrittenFacts DEF Hit, Touched

(* How a bit is left after one more access.                                 *)
LEMMA LeftNext ==
  ASSUME NEW p, NEW r, NEW b, NEW i \in Nat \ {0}
  PROVE  /\ Hit(p[i], r, b) => /\ LeftOn(p, r, b, i + 1) <=> TurnsOn(p[i], r, b)
                               /\ LeftOff(p, r, b, i + 1) <=> TurnsOff(p[i], r, b)
         /\ ~Hit(p[i], r, b) => /\ LeftOn(p, r, b, i + 1) <=> LeftOn(p, r, b, i)
                                /\ LeftOff(p, r, b, i + 1) <=> LeftOff(p, r, b, i)
<1>1. \A j \in Nat \ {0} : LastHit(p, r, b, i + 1, j) /\ j < i <=> LastHit(p, r, b, i, j) /\ j < i /\ ~Hit(p[i], r, b)
  BY DEF LastHit
<1>2. LastHit(p, r, b, i + 1, i) <=> Hit(p[i], r, b)
  BY DEF LastHit
<1>3. 1 .. i + 1 - 1 = (1 .. i - 1) \cup {i} /\ \A j \in 1 .. i - 1 : j \in Nat \ {0} /\ j < i
  OBVIOUS
<1> QED BY <1>1, <1>2, <1>3 DEF LeftOn, LeftOff

(* What another caller does to a bit that a call drives, if it is not known *)
(* that it crossed: nothing, whatever register it reaches.                  *)
LEMMA OtherSpares ==
  ASSUME Placed, NEW c \in Inside, NEW d \in Callers \ {c}, Step(d), NEW r \in Regs \ crossed',
         r # "DATA_PATH", NEW b \in Drives(Prog(c), r)
  PROVE  /\ b \in reg'[r] <=> b \in reg[r]
         /\ Written(Now(d)) # {} /\ Target(Now(d)) = r => (b \in Value(d, Now(d)) <=> b \in reg[r])
<1> DEFINE a == Now(d)
<1>1. a \in Accesses /\ d \in Inside /\ c \in Inside \ {d}
  BY StepFrame
<1>2. CASE Written(a) = {}
  BY <1>1, <1>2, StepFrame, ReadFacts
<1>3. CASE Written(a) # {}
  <2>1. Write(d, a)
    BY <1>1, <1>3, StepFrame
  <2>2. CASE Target(a) # r
    <3>1. r \in Regs \ {Target(a)}
      BY <2>2
    <3>2. reg'[r] = reg[r]
      BY <1>1, <1>3, <2>1, <3>1, WriteFacts
    <3> QED BY <2>2, <3>2
  <2>3. CASE Target(a) = r
    <3>1. reg'[r] = Value(d, a)
      BY <1>1, <1>3, <2>1, <2>3, WriteFacts
    <3>2. (Changed(d, a) \cup a.means) \cap Drives(Prog(c), r) = {}
      BY <1>1, <1>3, <2>1, <2>3, WriteFacts
    <3> QED BY <2>3, <3>1, <3>2 DEF Changed, Differ
  <2> QED BY <2>2, <2>3
<1> QED BY <1>2, <1>3

(* What a call does itself, if it does not use the offset.                  *)
LEMMA OwnAccess ==
  ASSUME Placed, NEW c \in Callers, Step(c), ~UsesOffset(Prog(c)), NEW r \in Regs, r # "DATA_PATH"
  PROVE  /\ Target(Now(c)) = Now(c).reg
         /\ r \in Written(Now(c)) => reg'[r] = Value(c, Now(c))
         /\ r \notin Written(Now(c)) => reg'[r] = reg[r]
<1> DEFINE a == Now(c)
<1>1. a \in Accesses /\ a = Prog(c)[pc[c]] /\ pc[c] \in DOMAIN Prog(c)
  BY StepFrame
<1>2. Target(a) = a.reg
  BY <1>1 DEF UsesOffset, Target
<1>3. CASE Written(a) = {}
  BY <1>1, <1>2, <1>3, StepFrame, ReadFacts
<1>4. CASE Written(a) # {}
  <2>1. Write(c, a)
    BY <1>1, <1>4, StepFrame
  <2>2. CASE a.reg # r
    <3>1. r \in Regs \ {Target(a)} /\ r \notin Written(a)
      BY <1>1, <1>2, <2>2, HitMeans
    <3> QED BY <1>1, <1>2, <1>4, <2>1, <3>1, WriteFacts
  <2>3. CASE a.reg = r
    BY <1>1, <1>2, <1>4, <2>1, <2>3, WriteFacts, HitMeans
  <2> QED BY <2>2, <2>3
<1> QED BY <1>2, <1>3, <1>4

(* and to a bit it drives: what it is meant to.                             *)
LEMMA OwnBit ==
  ASSUME BaseInv, DrivenInv, NEW c \in Callers, Step(c), Careful(Prog(c)),
         NEW r \in Regs \ crossed, NEW b, Plain(Prog(c), r, b)
  PROVE  /\ Hit(Now(c), r, b) => /\ TurnsOn(Now(c), r, b) => b \in reg'[r]
                                 /\ TurnsOff(Now(c), r, b) => b \notin reg'[r]
         /\ ~Hit(Now(c), r, b) => (b \in reg'[r] <=> b \in reg[r])
<1> DEFINE a == Now(c)  p == Prog(c)  i == pc[c]
<1>1. /\ Placed /\ c \in Inside /\ i \in DOMAIN p /\ a = p[i] /\ a \in Accesses
      /\ DOMAIN p = 1 .. Len(p) /\ Len(p) \in Nat /\ i \in Nat \ {0}
      /\ \A k \in DOMAIN p : p[k] \in Accesses
  BY StepFrame, InsideFacts DEF BaseInv
<1>2. r # "DATA_PATH" /\ ~UsesOffset(p) /\ b \in Drives(p, r) /\ b \in Bits[r]
  BY <1>1, HitFacts DEF Plain
<1>3. CASE r \notin Written(a)
  BY <1>1, <1>2, <1>3, OwnAccess DEF Hit
<1>4. CASE r \in Written(a)
  <2>1. a.reg = r /\ reg'[r] = Value(c, a) /\ Touched(a, r) = a.means /\ (Hit(a, r, b) <=> b \in a.means)
        /\ Target(a) = r
    BY <1>1, <1>2, <1>4, OwnAccess, HitMeans
  <2>2. a.op \in {"put", "restore", "change", "again", "store"}
    BY <1>1, <1>4, AccessFacts, WrittenFacts
  <2>3. CASE b \in a.means
    BY <1>1, <2>1, <2>2, <2>3, AccessFacts DEF Value, TurnsOn, TurnsOff
  <2>4. CASE b \notin a.means
    <3>1. CASE a.op = "put"
      <4>1. PICK j \in Source(p, i, {"get", "put"}) :
               \A k \in j + 1 .. i - 1 : Puts(p[k], r) \/ WritesLess(p, i, k)
        BY <1>1, <2>1, <3>1 DEF Careful
      <4>2. j \in 1 .. pc[c] - 1 /\ p[j].op \in {"get", "put"} /\ p[j].reg = r
        BY <1>1, <2>1, <4>1 DEF Source
      <4>3. b \notin Differ(copy[c][r], reg[r])
        <5> SUFFICES ASSUME b \in Differ(copy[c][r], reg[r]) PROVE FALSE
          OBVIOUS
        <5>1. CopyAsDriven(c, r, b)
          BY <1>1, <1>2 DEF DrivenInv
        <5>2. PICK k \in Since(p, r, j, i) : ~Puts(p[k], r) /\ b \in Touched(p[k], r)
          BY <4>2, <5>1 DEF CopyAsDriven
        <5>3. k \in j + 1 .. i - 1 /\ r \in Written(p[k])
          BY <1>1, <4>2, <5>2 DEF Since, Places
        <5> QED BY <1>1, <2>1, <2>4, <4>1, <5>2, <5>3 DEF WritesLess
      <4> QED BY <1>1, <2>1, <2>4, <3>1, <4>3, AccessFacts DEF Value, Differ
    <3>2. CASE a.op = "restore"
      BY <1>1, <2>1, <2>4, <3>2 DEF Plain
    <3>3. CASE a.op = "change"
      BY <1>1, <2>1, <2>4, <3>3, AccessFacts DEF Value
    <3>4. CASE a.op = "again"
      BY <1>1, <2>1, <2>4, <3>4, AccessFacts DEF Value
    <3>5. CASE a.op = "store"
      BY <1>1, <1>2, <2>1, <2>4, <3>5, AccessFacts
    <3> QED BY <2>2, <3>1, <3>2, <3>3, <3>4, <3>5
  <2> QED BY <2>1, <2>3, <2>4
<1> QED BY <1>3, <1>4


(* Its copy of the register is made of what it has read or written there.   *)
LEMMA OwnCopy ==
  ASSUME Placed, NEW c \in Callers, Step(c), ~UsesOffset(Prog(c)), NEW r \in Regs, r # "DATA_PATH"
  PROVE  /\ Now(c).op \in {"get", "put"} /\ Now(c).reg = r => copy'[c][r] = reg'[r]
         /\ r \in DOMAIN copy[c] /\ ~(Now(c).op \in {"get", "put"} /\ Now(c).reg = r) =>
              copy'[c][r] = copy[c][r]
<1> DEFINE a == Now(c)
<1>1. a \in Accesses /\ Target(a) = a.reg
  BY StepFrame, OwnAccess
<1>2. CASE Written(a) = {}
  <2>1. Read(c, a) /\ a.op # "put"
    BY <1>1, <1>2, StepFrame, WrittenFacts
  <2> QED BY <1>1, <2>1, ReadFacts
<1>3. CASE Written(a) # {}
  <2>1. Write(c, a) /\ a.op # "get" /\ a.reg \in Written(a)
    BY <1>1, <1>3, StepFrame, WrittenFacts
  <2>2. a.reg = r => reg'[r] = Value(c, a)
    BY <2>1, OwnAccess
  <2> QED BY <1>1, <1>3, <2>1, <2>2, WriteFacts
<1> QED BY <1>2, <1>3

(* What a call drives stays as it drives it, by a step of its own           *)
LEMMA OwnStepDriven ==
  ASSUME BaseInv, DrivenInv, NEW c \in Callers, Step(c), Careful(Prog(c)),
         NEW r \in Regs \ crossed', NEW b \in Bits[r], Plain(Prog(c), r, b)
  PROVE  AsDriven(c, r, b)' /\ CopyAsDriven(c, r, b)'
<1> DEFINE a == Now(c)  p == Prog(c)  i == pc[c]
<1>1. /\ Placed /\ c \in Inside /\ i \in DOMAIN p /\ a = p[i] /\ a \in Accesses
      /\ DOMAIN p = 1 .. Len(p) /\ Len(p) \in Nat /\ i \in Nat \ {0}
      /\ Prog(c)' = p /\ pc'[c] = i + 1
  BY StepFrame, InsideFacts DEF BaseInv
<1>2. r \in Regs \ crossed /\ r # "DATA_PATH" /\ ~UsesOffset(p)
  BY <1>1, StepFrame, ReadFacts, WriteFacts DEF Plain
<1>3. AsDriven(c, r, b) /\ CopyAsDriven(c, r, b)
  BY <1>1, <1>2 DEF DrivenInv
<1>4. /\ Hit(a, r, b) => /\ TurnsOn(a, r, b) => b \in reg'[r]
                         /\ TurnsOff(a, r, b) => b \notin reg'[r]
      /\ ~Hit(a, r, b) => (b \in reg'[r] <=> b \in reg[r])
  BY <1>2, OwnBit
<1>5. AsDriven(c, r, b)'
  <2>1. /\ LeftOn(p, r, b, i + 1) => b \in reg'[r]
        /\ LeftOff(p, r, b, i + 1) => b \notin reg'[r]
    BY <1>1, <1>3, <1>4, LeftNext DEF AsDriven
  <2> QED BY <1>1, <2>1 DEF AsDriven
<1>6. CopyAsDriven(c, r, b)'
  <2> SUFFICES ASSUME NEW j \in 1 .. i, p[j].op \in {"get", "put"}, p[j].reg = r,
                      b \in Differ(copy'[c][r], reg'[r])
               PROVE  \E k \in Since(p, r, j, i + 1) : ~Puts(p[k], r) /\ b \in Touched(p[k], r)
    BY <1>1 DEF CopyAsDriven
  <2>1. CASE a.op \in {"get", "put"} /\ a.reg = r
    <3>1. copy'[c][r] = reg'[r]
      BY <1>1, <1>2, <2>1, OwnCopy
    <3> QED BY <3>1 DEF Differ
  <2>2. CASE ~(a.op \in {"get", "put"} /\ a.reg = r)
    <3>1. j \in 1 .. i - 1
      BY <1>1, <2>2
    <3>2. copy'[c][r] = copy[c][r]
      <4>1. r \in DOMAIN copy[c]
        BY <1>1, <3>1 DEF BaseInv, CopiesThere
      <4> QED BY <1>1, <1>2, <2>2, <4>1, OwnCopy
    <3>3. CASE b \in Differ(copy[c][r], reg[r])
      <4>1. PICK k \in Since(p, r, j, i) : ~Puts(p[k], r) /\ b \in Touched(p[k], r)
        BY <1>3, <3>1, <3>3 DEF CopyAsDriven
      <4>2. k \in Since(p, r, j, i + 1)
        BY <1>1, <4>1 DEF Since, Places
      <4> QED BY <4>1, <4>2
    <3>4. CASE b \in Differ(reg[r], reg'[r])
      <4>1. Hit(a, r, b)
        BY <1>4, <3>4 DEF Differ
      <4>2. i \in Since(p, r, j, i + 1) /\ b \in Touched(p[i], r)
        BY <1>1, <3>1, <4>1 DEF Since, Places, Hit
      <4>3. ~Puts(p[i], r)
        BY <1>1, <2>2 DEF Puts
      <4> QED BY <4>2, <4>3
    <3> QED BY <3>2, <3>3, <3>4 DEF Differ
  <2> QED BY <2>1, <2>2
<1> QED BY <1>5, <1>6

(* and by another caller's.                                                 *)
LEMMA OtherStepDriven ==
  ASSUME BaseInv, DrivenInv, NEW c \in Inside, NEW d \in Callers \ {c}, Step(d),
         NEW r \in Regs \ crossed', NEW b \in Bits[r], Plain(Prog(c), r, b)
  PROVE  AsDriven(c, r, b)' /\ CopyAsDriven(c, r, b)'
<1>1. /\ Placed /\ Prog(c)' = Prog(c) /\ pc'[c] = pc[c] /\ c \in Callers
      /\ Now(d) \in Accesses
  BY StepFrame DEF BaseInv, Inside
<1>2. r \in Regs \ crossed /\ copy'[c] = copy[c]
  BY <1>1, StepFrame, ReadFacts, WriteFacts
<1>3. AsDriven(c, r, b) /\ CopyAsDriven(c, r, b)
  BY <1>2 DEF DrivenInv
<1>4. b \in reg'[r] <=> b \in reg[r]
  BY <1>1, OtherSpares DEF Plain
<1>5. AsDriven(c, r, b)'
  BY <1>1, <1>3, <1>4 DEF AsDriven
<1>6. CopyAsDriven(c, r, b)'
  <2>1. b \in Differ(copy'[c][r], reg'[r]) <=> b \in Differ(copy[c][r], reg[r])
    BY <1>2, <1>4 DEF Differ
  <2> QED BY <1>1, <1>3, <2>1 DEF CopyAsDriven
<1> QED BY <1>5, <1>6

(* A step keeps every call's bits as it drives them.                        *)
LEMMA StepKeepsDriven ==
  ASSUME BaseInv, DrivenInv, NEW d \in Callers, Step(d), Careful(Prog(d))
  PROVE  DrivenInv'
<1> SUFFICES ASSUME NEW c \in Inside', NEW r \in Regs \ crossed', NEW b \in Bits[r],
                    Plain(Prog(c), r, b)'
             PROVE  AsDriven(c, r, b)' /\ CopyAsDriven(c, r, b)'
  BY DEF DrivenInv
<1>1. Placed /\ c \in Inside /\ c \in Callers /\ Prog(c)' = Prog(c)
  BY StepFrame DEF BaseInv, Inside
<1>2. Plain(Prog(c), r, b)
  BY <1>1
<1>3. CASE c = d
  BY <1>1, <1>2, <1>3, OwnStepDriven
<1>4. CASE c # d
  BY <1>1, <1>2, <1>4, OtherStepDriven
<1> QED BY <1>3, <1>4

(* A call that starts drives nothing yet.                                   *)
LEMMA StartKeepsDriven ==
  ASSUME BaseInv, DrivenInv, NEW d \in Callers, NEW n \in DOMAIN Calls[kind], Start(d, n)
  PROVE  DrivenInv'
<1> SUFFICES ASSUME NEW c \in Inside', NEW r \in Regs \ crossed', NEW b \in Bits[r],
                    Plain(Prog(c), r, b)'
             PROVE  AsDriven(c, r, b)' /\ CopyAsDriven(c, r, b)'
  BY DEF DrivenInv
<1>1. /\ Placed /\ crossed' = crossed /\ reg' = reg /\ pc' = pc /\ copy' = copy /\ pc[d] = 1
      /\ Inside' = Inside \cup {d} /\ \A e \in Callers \ {d} : Prog(e)' = Prog(e)
  BY StartFacts DEF BaseInv
<1>2. CASE c = d
  <2>1. 1 .. pc'[d] - 1 = {}
    BY <1>1
  <2> QED BY <1>2, <2>1 DEF AsDriven, CopyAsDriven, LeftOn, LeftOff
<1>3. CASE c # d
  <2>1. c \in Inside /\ Prog(c)' = Prog(c)
    BY <1>1, <1>3 DEF Inside
  <2>2. Plain(Prog(c), r, b)
    BY <2>1
  <2>3. AsDriven(c, r, b) /\ CopyAsDriven(c, r, b)
    BY <1>1, <2>1, <2>2 DEF DrivenInv
  <2> QED BY <1>1, <2>1, <2>3 DEF AsDriven, CopyAsDriven
<1> QED BY <1>2, <1>3

(* One that returns drives nothing any more.                                *)
LEMMA ReturnKeepsDriven ==
  ASSUME BaseInv, DrivenInv, NEW d \in Callers, Return(d)
  PROVE  DrivenInv'
<1> SUFFICES ASSUME NEW c \in Inside', NEW r \in Regs \ crossed', NEW b \in Bits[r],
                    Plain(Prog(c), r, b)'
             PROVE  AsDriven(c, r, b)' /\ CopyAsDriven(c, r, b)'
  BY DEF DrivenInv
<1>1. /\ Placed /\ crossed' = crossed /\ reg' = reg /\ Inside' = Inside \ {d}
      /\ \A e \in Callers \ {d} : Prog(e)' = Prog(e) /\ pc'[e] = pc[e] /\ copy'[e] = copy[e]
  BY ReturnFacts DEF BaseInv
<1>2. /\ c \in Inside /\ Prog(c)' = Prog(c) /\ pc'[c] = pc[c] /\ copy'[c] = copy[c]
  BY <1>1 DEF Inside
<1>3. Plain(Prog(c), r, b)
  BY <1>2
<1>4. AsDriven(c, r, b) /\ CopyAsDriven(c, r, b)
  BY <1>1, <1>2, <1>3 DEF DrivenInv
<1> QED BY <1>1, <1>2, <1>4 DEF AsDriven, CopyAsDriven


-----------------------------------------------------------------------------
(* What a chip has taken in.                                                *)

(* How many clocks there were, before an access and after it.               *)
LEMMA BeforeFacts ==
  ASSUME NEW m \in Nat, NEW S \in SUBSET (1 .. m), NEW i \in Nat \ {0}
  PROVE  /\ Before(S, i) \in Nat /\ Cardinality(S) \in Nat
         /\ i \in S => Before(S, i + 1) = Before(S, i) + 1 /\ Before(S, i) + 1 <= Cardinality(S)
         /\ i \notin S => Before(S, i + 1) = Before(S, i)
         /\ (\A k \in S : i <= k) => Before(S, i) = 0
         /\ (\A k \in S : k < i) => Before(S, i) = Cardinality(S)
<1> DEFINE B == {k \in S : k < i}  C == {k \in S : k < i + 1}
<1> \A k \in S : k \in Nat \ {0}
  OBVIOUS
<1>1. IsFiniteSet(S) /\ IsFiniteSet(B) /\ IsFiniteSet(C)
  <2>1. IsFiniteSet(1 .. m)
    BY FS_Interval
  <2>2. IsFiniteSet(S)
    BY <2>1, FS_Subset
  <2>3. B \in SUBSET S /\ C \in SUBSET S
    OBVIOUS
  <2> QED BY <2>2, <2>3, FS_Subset
<1>2. Cardinality(S) \in Nat /\ Cardinality(B) \in Nat
  BY <1>1, FS_CardinalityType
<1>3. i \in S => C = B \cup {i} /\ i \notin B
  <2>1. \A k \in S : (k < i + 1 <=> k < i \/ k = i) /\ ~(i < i)
    OBVIOUS
  <2>2. \A k : k \in C <=> k \in S /\ (k < i \/ k = i)
    BY <2>1
  <2> QED BY <2>1, <2>2
<1>4. i \in S => Cardinality(C) = Cardinality(B) + 1
  BY <1>1, <1>3, FS_AddElement
<1>5. Cardinality(C) <= Cardinality(S)
  BY <1>1, FS_Subset
<1>6. i \notin S => C = B
  <2>1. \A k \in S : k < i + 1 <=> k < i \/ k = i
    OBVIOUS
  <2> QED BY <2>1
<1>7. (\A k \in S : i <= k) => B = {}
  <2>1. \A k \in S : i <= k => ~(k < i)
    OBVIOUS
  <2> QED BY <2>1
<1>8. (\A k \in S : k < i) => B = S
  OBVIOUS
<1>9. Cardinality({}) = 0
  BY FS_EmptySet
<1> QED BY <1>2, <1>4, <1>5, <1>6, <1>7, <1>8, <1>9 DEF Before

(* A bit more of the word, if the chip takes it in.                         *)
LEMMA EndsNext ==
  ASSUME NEW s \in Seq(BOOLEAN), NEW t \in Seq(BOOLEAN), NEW e \in BOOLEAN, NEW word, NEW n \in Nat,
         NEW max \in Nat, n + 1 <= max, Len(s) <= max, Ends(s, word, n), word[n + 1] = e,
         t = Append(IF Len(s) = max THEN Tail(s) ELSE s, e)
  PROVE  Ends(t, word, n + 1)
<1>1. Len(s) \in Nat /\ n <= Len(s) /\ \A i \in 1 .. n : s[Len(s) - n + i] = word[i]
  BY DEF Ends
<1>2. \A x \in Nat : x - (n + 1) + (n + 1) = x
  OBVIOUS
<1>3. \A i \in 1 .. n + 1 : i \in 1 .. n \/ i = n + 1
  OBVIOUS
<1>4. CASE Len(s) = max
  <2>1. /\ Tail(s) \in Seq(BOOLEAN) /\ Len(Tail(s)) = Len(s) - 1
        /\ \A i \in 1 .. Len(s) - 1 : Tail(s)[i] = s[i + 1]
    BY <1>1, <1>4, AppendBit
  <2>2. /\ Len(t) = Len(s) /\ t[Len(s)] = e /\ \A i \in 1 .. Len(s) - 1 : t[i] = s[i + 1]
    BY <1>1, <1>4, <2>1, AppendBit
  <2>3. ASSUME NEW i \in 1 .. n PROVE t[Len(t) - (n + 1) + i] = word[i]
    <3>1. Len(s) - (n + 1) + i \in 1 .. Len(s) - 1 /\ Len(s) - (n + 1) + i + 1 = Len(s) - n + i
      BY <1>1, <1>4
    <3> QED BY <1>1, <2>2, <3>1
  <2>4. t[Len(t) - (n + 1) + (n + 1)] = word[n + 1]
    BY <1>1, <1>2, <2>2
  <2>5. n + 1 <= Len(t)
    BY <1>1, <1>4, <2>2
  <2> QED BY <1>3, <2>3, <2>4, <2>5 DEF Ends
<1>5. CASE Len(s) # max
  <2>1. t = Append(s, e)
    BY <1>5
  <2>2. Len(t) = Len(s) + 1 /\ t[Len(s) + 1] = e /\ \A i \in 1 .. Len(s) : t[i] = s[i]
    BY <2>1, AppendBit
  <2>3. ASSUME NEW i \in 1 .. n PROVE t[Len(t) - (n + 1) + i] = word[i]
    <3>1. Len(t) - (n + 1) + i = Len(s) - n + i /\ Len(s) - n + i \in 1 .. Len(s)
      BY <1>1, <2>2
    <3> QED BY <1>1, <2>2, <3>1
  <2>4. t[Len(t) - (n + 1) + (n + 1)] = word[n + 1]
    <3>1. Len(t) \in Nat /\ Len(t) = Len(s) + 1
      BY <2>2
    <3>2. Len(t) - (n + 1) + (n + 1) = Len(s) + 1
      BY <1>2, <3>1
    <3> QED BY <2>2, <3>2
  <2>5. n + 1 <= Len(t)
    BY <1>1, <2>2
  <2> QED BY <1>3, <2>3, <2>4, <2>5 DEF Ends
<1> QED BY <1>4, <1>5

(* The whole word.                                                          *)
LEMMA EndsWhole ==
  ASSUME NEW s \in Seq(BOOLEAN), NEW word \in Seq(BOOLEAN), NEW n \in Nat,
         Len(word) = n, Len(s) <= n, Ends(s, word, n)
  PROVE  s = word
<1>1. Len(s) = n /\ \A i \in 1 .. n : s[Len(s) - n + i] = word[i]
  BY DEF Ends
<1>2. \A i \in 1 .. n : Len(s) - n + i = i
  BY <1>1
<1>3. \A i \in 1 .. n : s[i] = word[i]
  BY <1>1, <1>2
<1> QED BY <1>1, <1>3

(* The lines, and the words a call loads over them.                         *)
LEMMA LineFacts ==
  ASSUME NEW line \in {AvLine(kind), SynthLine}
  PROVE  /\ line.reg \in Regs /\ line.reg # "DATA_PATH" /\ line.bits \in Nat \ {0}
         /\ line = AvLine(kind) => line.bits = 24
         /\ line = SynthLine => line.bits = 14 /\ line.reg = "PAL2" /\ line.load = {"stb"}
         /\ line.clk \in Wires(line) /\ line.data \in Wires(line)
         /\ line.select \subseteq Wires(line) /\ line.load \subseteq Wires(line)
<1>1. {"FUNCT", "PLL_CTL", "PAL2"} \subseteq Regs
  BY DEF Regs, Bits
<1>2. AvLine(kind).reg \in {"FUNCT", "PLL_CTL"}
  BY DEF AvLine, AvReg
<1> QED BY <1>1, <1>2 DEF AvLine, SynthLine, Wires

(* What a call is to load, and how it feeds the chips with it.              *)
LEMMA LoadFacts ==
  ASSUME Placed, NEW c \in Inside, \A k \in Kinds : LoadingOn(k)
  PROVE  /\ Load(c) \in Loads /\ Load(c).av \in Seq(BOOLEAN) /\ Load(c).synth \in Seq(BOOLEAN)
         /\ Load(c).av # <<>> => Feeds(Prog(c), AvLine(kind), Load(c).av)
         /\ Load(c).synth # <<>> => Feeds(Prog(c), SynthLine, Load(c).synth)
<1> DEFINE X == [prog : Seq(Accesses), effects : SUBSET Changes, load : Loads]
<1>1. call[c] \in DOMAIN Calls[kind] /\ kind \in Kinds
  BY InsideFacts DEF Placed
<1>2. Calls[kind][call[c]] \in X
  <2>1. Calls[kind] \in Seq(X)
    BY <1>1, BoardAssumption
  <2> HIDE DEF X
  <2> QED BY <1>1, <2>1
<1>3. Load(c) \in Loads
  BY <1>2 DEF Load
<1>4. LoadsItsWords(Calls[kind][call[c]], kind)
  BY <1>1 DEF LoadingOn
<1> QED BY <1>3, <1>4 DEF Loads, LoadsItsWords, Load, Prog

(* The wires while a call feeds a chip.                                     *)
LEMMA WiresDriven ==
  ASSUME BaseInv, DrivenInv, DrivenInv', NEW c \in Callers, Step(c), Careful(Prog(c)),
         NEW line \in {AvLine(kind), SynthLine}, NEW word, Feeds(Prog(c), line, word),
         line.reg \notin crossed', NEW b \in Wires(line)
  PROVE  LET p == Prog(c)  i == pc[c]  r == line.reg IN
         /\ LeftOn(p, r, b, i) => b \in reg[r]
         /\ LeftOff(p, r, b, i) => b \notin reg[r]
         /\ LeftOn(p, r, b, i + 1) => b \in reg'[r]
         /\ LeftOff(p, r, b, i + 1) => b \notin reg'[r]
         /\ ~Hit(Now(c), r, b) => (b \in reg'[r] <=> b \in reg[r])
<1> DEFINE p == Prog(c)  i == pc[c]  r == line.reg
<1>1. /\ Placed /\ c \in Inside /\ Prog(c)' = p /\ pc'[c] = i + 1 /\ Inside' = Inside
      /\ \A k \in DOMAIN p : p[k] \in Accesses
  BY StepFrame, InsideFacts DEF BaseInv
<1>2. r \in Regs /\ r # "DATA_PATH" /\ r \notin crossed
  BY <1>1, StepFrame, ReadFacts, WriteFacts, LineFacts
<1>3. Plain(p, r, b) /\ b \in Bits[r]
  <2>1. b \in Drives(p, r)
    BY DEF Feeds
  <2> QED BY <1>1, <1>2, <2>1, HitFacts DEF Feeds, Plain
<1>4. AsDriven(c, r, b)
  BY <1>1, <1>2, <1>3 DEF DrivenInv
<1>5. AsDriven(c, r, b)'
  <2>1. Plain(Prog(c), r, b)'
    BY <1>1, <1>3
  <2> QED BY <1>1, <1>2, <1>3, <2>1 DEF DrivenInv
<1>6. /\ LeftOn(p, r, b, i + 1) => b \in reg'[r]
      /\ LeftOff(p, r, b, i + 1) => b \notin reg'[r]
  BY <1>1, <1>5 DEF AsDriven
<1>7. ~Hit(Now(c), r, b) => (b \in reg'[r] <=> b \in reg[r])
  BY <1>2, <1>3, OwnBit
<1> QED BY <1>4, <1>6, <1>7 DEF AsDriven


(* A step of the caller that feeds a chip sends the next bit, or none.      *)
LEMMA OwnStepFeeds ==
  ASSUME BaseInv, DrivenInv, DrivenInv', NEW c \in Callers, Step(c), Careful(Prog(c)),
         NEW line \in {AvLine(kind), SynthLine}, NEW word \in Seq(BOOLEAN), Feeds(Prog(c), line, word),
         line.reg \notin crossed', NEW s \in Seq(BOOLEAN), Len(s) <= line.bits,
         Ends(s, word, Sent(c, line)), NEW t,
         t = IF Written(Now(c)) = {} THEN s ELSE Taken(line, s, Target(Now(c)), Value(c, Now(c)))
  PROVE  Ends(t, word, Before(Raises(Prog(c), line.reg, line.clk), pc[c] + 1))
<1> DEFINE a == Now(c)  p == Prog(c)  i == pc[c]  r == line.reg  clocks == Raises(p, r, line.clk)
           n == Before(clocks, i)
<1>1. /\ Placed /\ c \in Inside /\ i \in DOMAIN p /\ a = p[i] /\ a \in Accesses
      /\ DOMAIN p = 1 .. Len(p) /\ Len(p) \in Nat /\ i \in Nat \ {0}
      /\ \A k \in DOMAIN p : p[k] \in Accesses
  BY StepFrame, InsideFacts DEF BaseInv
<1>2. r \in Regs /\ r # "DATA_PATH" /\ line.bits \in Nat \ {0}
  BY LineFacts
<1>3. clocks \subseteq 1 .. Len(p) /\ (i \in Hits(p, r, line.clk) <=> Hit(a, r, line.clk))
  BY <1>1, HitFacts DEF Raises
<1>4. ClocksIn(p, line, word) /\ ~UsesOffset(p)
  BY DEF Feeds
<1>5. Ends(s, word, n)
  BY DEF Sent
<1>6. /\ LeftOn(p, r, line.clk, i) => line.clk \in reg[r]
      /\ LeftOff(p, r, line.clk, i) => line.clk \notin reg[r]
      /\ LeftOn(p, r, line.clk, i + 1) => line.clk \in reg'[r]
      /\ LeftOff(p, r, line.clk, i + 1) => line.clk \notin reg'[r]
      /\ ~Hit(a, r, line.clk) => (line.clk \in reg'[r] <=> line.clk \in reg[r])
  BY WiresDriven, LineFacts
<1>7. Target(a) = a.reg /\ (r \in Written(a) => reg'[r] = Value(c, a))
  BY <1>1, <1>2, <1>4, OwnAccess
<1>8. r \in Written(a) <=> a.reg = r /\ Written(a) # {}
  BY <1>1, <1>2, HitMeans
<1>9. CASE i \in clocks
  <2>1. /\ Hit(a, r, line.clk) /\ LeftOff(p, r, line.clk, i) /\ LeftOn(p, r, line.clk, i + 1)
    BY <1>3, <1>9 DEF Raises
  <2>2. r \in Written(a) /\ Written(a) # {} /\ Target(a) = r /\ reg'[r] = Value(c, a)
    BY <1>7, <1>8, <2>1 DEF Hit
  <2>3. line.clk \in Value(c, a) /\ line.clk \notin reg[r]
    BY <1>6, <2>1, <2>2
  <2>4. line.select \subseteq Value(c, a) \cap reg[r]
    <3> SUFFICES ASSUME NEW w \in line.select PROVE w \in reg'[r] /\ w \in reg[r]
      BY <2>2
    <3>1. LeftOn(p, r, w, i) /\ LeftOn(p, r, w, i + 1)
      BY <1>4, <1>9 DEF ClocksIn
    <3>2. w \in Wires(line)
      BY LineFacts
    <3> QED BY <3>1, <3>2, WiresDriven
  <2>5. /\ n \in Nat /\ Before(clocks, i + 1) = n + 1 /\ n + 1 <= Cardinality(clocks)
    BY <1>1, <1>3, <1>9, BeforeFacts
  <2>6. Cardinality(clocks) = line.bits /\ Len(word) = line.bits /\ word[n + 1] \in BOOLEAN
    <3>1. Cardinality(clocks) = line.bits /\ Len(word) = line.bits
      BY <1>4 DEF ClocksIn
    <3>2. n + 1 \in 1 .. Len(word)
      BY <1>2, <2>5, <3>1
    <3> QED BY <3>1, <3>2
  <2>7. (line.data \in Value(c, a)) = word[n + 1]
    <3>1. /\ LeftOn(p, r, line.data, i + 1) => line.data \in Value(c, a)
          /\ LeftOff(p, r, line.data, i + 1) => line.data \notin Value(c, a)
      BY <2>2, WiresDriven, LineFacts
    <3>2. IF word[n + 1] THEN LeftOn(p, r, line.data, i + 1) ELSE LeftOff(p, r, line.data, i + 1)
      BY <1>4, <1>9 DEF ClocksIn
    <3> QED BY <2>6, <3>1, <3>2
  <2>8. t = Append(IF Len(s) = line.bits THEN Tail(s) ELSE s, line.data \in Value(c, a))
    BY <2>2, <2>3, <2>4 DEF Taken, Rises
  <2>9. t \in Seq(BOOLEAN)
    BY <1>2, <2>2, TakenFacts
  <2>10. (line.data \in Value(c, a)) \in BOOLEAN /\ n + 1 <= line.bits /\ line.bits \in Nat
    BY <1>2, <2>5, <2>6
  <2> DEFINE e == line.data \in Value(c, a)
  <2>11. Ends(t, word, n + 1)
    <3>1. e \in BOOLEAN /\ word[n + 1] = e /\ t = Append(IF Len(s) = line.bits THEN Tail(s) ELSE s, e)
      BY <2>7, <2>8, <2>10
    <3> HIDE DEF e, n
    <3> QED BY <1>5, <2>5, <2>9, <2>10, <3>1, EndsNext
  <2> QED BY <2>5, <2>11
<1>10. CASE i \notin clocks
  <2>1. Before(clocks, i + 1) = n
    BY <1>1, <1>3, <1>10, BeforeFacts
  <2>2. t = s
    <3>1. CASE Written(a) = {} \/ Target(a) # r
      BY <3>1 DEF Taken
    <3>2. CASE Written(a) # {} /\ Target(a) = r
      <4>1. reg'[r] = Value(c, a)
        BY <1>7, <1>8, <3>2
      <4>2. CASE ~Hit(a, r, line.clk)
        BY <1>6, <3>2, <4>1, <4>2 DEF Taken, Rises
      <4>3. CASE Hit(a, r, line.clk)
        <5>1. \/ LeftOn(p, r, line.clk, i) \/ LeftOff(p, r, line.clk, i + 1)
              \/ \E w \in line.select : LeftOff(p, r, w, i + 1)
          BY <1>3, <1>4, <1>10, <4>3 DEF ClocksIn, Spares
        <5>2. CASE LeftOn(p, r, line.clk, i) \/ LeftOff(p, r, line.clk, i + 1)
          BY <1>6, <3>2, <4>1, <5>2 DEF Taken, Rises
        <5>3. CASE \E w \in line.select : LeftOff(p, r, w, i + 1)
          <6>1. PICK w \in line.select : LeftOff(p, r, w, i + 1)
            BY <5>3
          <6>2. w \notin reg'[r]
            BY <6>1, WiresDriven, LineFacts
          <6> QED BY <3>2, <4>1, <6>2 DEF Taken
        <5> QED BY <5>1, <5>2, <5>3
      <4> QED BY <4>2, <4>3
    <3> QED BY <3>1, <3>2
  <2> QED BY <1>5, <2>1, <2>2
<1> QED BY <1>9, <1>10

(* Another caller's sends none.                                             *)
LEMMA OtherStepFeeds ==
  ASSUME BaseInv, NEW c \in Inside, NEW d \in Callers \ {c}, Step(d),
         NEW line \in {AvLine(kind), SynthLine}, NEW word, Feeds(Prog(c), line, word),
         line.reg \notin crossed', NEW s
  PROVE  /\ Written(Now(d)) # {} => Taken(line, s, Target(Now(d)), Value(d, Now(d))) = s
         /\ \A b \in Wires(line) : Written(Now(d)) # {} /\ Target(Now(d)) = line.reg =>
              (b \in Value(d, Now(d)) <=> b \in reg[line.reg])
<1>1. Placed /\ line.reg \in Regs /\ line.reg # "DATA_PATH" /\ line.clk \in Wires(line)
  BY LineFacts DEF BaseInv
<1>2. Wires(line) \subseteq Drives(Prog(c), line.reg)
  BY DEF Feeds
<1>3. \A b \in Wires(line) : Written(Now(d)) # {} /\ Target(Now(d)) = line.reg =>
         (b \in Value(d, Now(d)) <=> b \in reg[line.reg])
  BY <1>1, <1>2, OtherSpares
<1> QED BY <1>1, <1>3 DEF Taken, Rises

(* What a step makes of the chips.                                          *)
LEMMA StepChips ==
  ASSUME Placed, NEW d \in Callers, Step(d)
  PROVE  /\ av' = IF Written(Now(d)) = {} THEN av
                  ELSE Taken(AvLine(kind), av, Target(Now(d)), Value(d, Now(d)))
         /\ shift' = IF Written(Now(d)) = {} THEN shift
                     ELSE Taken(SynthLine, shift, Target(Now(d)), Value(d, Now(d)))
         /\ synth' = IF /\ Written(Now(d)) # {} /\ Target(Now(d)) = "PAL2"
                        /\ Rises("stb", "PAL2", Value(d, Now(d)))
                     THEN shift ELSE synth
         /\ crossed \subseteq crossed' /\ loaded' = loaded
<1>1. Now(d) \in Accesses /\ loaded' = loaded
  BY StepFrame DEF Step, Move
<1>2. CASE Written(Now(d)) = {}
  BY <1>1, <1>2, StepFrame, ReadFacts
<1>3. CASE Written(Now(d)) # {}
  <2>1. Write(d, Now(d))
    BY <1>3, StepFrame
  <2>2. Hardware(Now(d), Value(d, Now(d))) /\ crossed \subseteq crossed'
    BY <1>1, <1>3, <2>1, WriteFacts
  <2> QED BY <1>1, <1>3, <2>2 DEF Hardware
<1> QED BY <1>2, <1>3

(* Whoever makes the step, a chip that is fed has what was sent to it.      *)
LEMMA StepFeeds ==
  ASSUME BaseInv, DrivenInv, DrivenInv', NEW d \in Callers, Step(d), Careful(Prog(d)),
         NEW c \in Inside,
         NEW line \in {AvLine(kind), SynthLine}, NEW word \in Seq(BOOLEAN), Feeds(Prog(c), line, word),
         line.reg \notin crossed', NEW s \in Seq(BOOLEAN), Len(s) <= line.bits,
         Ends(s, word, Sent(c, line)), NEW t,
         t = IF Written(Now(d)) = {} THEN s ELSE Taken(line, s, Target(Now(d)), Value(d, Now(d)))
  PROVE  Ends(t, word, Before(Raises(Prog(c), line.reg, line.clk), pc'[c]))
<1>1. Placed /\ c \in Callers
  BY DEF BaseInv, Inside
<1>2. CASE c = d
  <2>1. pc'[c] = pc[c] + 1
    BY <1>1, <1>2, StepFrame
  <2>2. Ends(t, word, Before(Raises(Prog(c), line.reg, line.clk), pc[c] + 1))
    BY <1>1, <1>2, OwnStepFeeds
  <2> QED BY <2>1, <2>2
<1>3. CASE c # d
  <2>1. pc'[c] = pc[c]
    BY <1>1, <1>3, StepFrame
  <2>2. t = s
    BY <1>3, OtherStepFeeds
  <2> QED BY <2>1, <2>2 DEF Sent
<1> QED BY <1>2, <1>3

(* After its last strobe, the synthesiser has the word.                     *)
LEMMA StepStrobes ==
  ASSUME BaseInv, DrivenInv, DrivenInv', NEW d \in Callers, Step(d), Careful(Prog(d)),
         NEW c \in Inside, NEW word \in Seq(BOOLEAN), Feeds(Prog(c), SynthLine, word),
         SynthLine.reg \notin crossed', Ends(shift, word, Sent(c, SynthLine)),
         \A p \in 1 .. pc[c] - 1 : LastStrobe(Prog(c), SynthLine, "stb", p) => synth = word,
         NEW p \in 1 .. pc'[c] - 1, LastStrobe(Prog(c), SynthLine, "stb", p)
  PROVE  synth' = word
<1> DEFINE a == Now(d)  prog == Prog(c)  r == SynthLine.reg  v == Value(d, a)
           strobes == Written(a) # {} /\ a.reg = r /\ "stb" \in v /\ "stb" \notin reg[r]
<1>1. /\ Placed /\ c \in Callers /\ r \in Regs /\ r # "DATA_PATH" /\ r = "PAL2"
      /\ "stb" \in Wires(SynthLine) /\ ~UsesOffset(prog)
      /\ DOMAIN prog = 1 .. Len(prog) /\ Len(prog) \in Nat
      /\ \A k \in DOMAIN prog : prog[k] \in Accesses
  BY LineFacts, InsideFacts DEF BaseInv, Inside, Feeds
<1>2. CASE c # d
  <2>1. synth' = synth
    <3>1. Written(a) # {} /\ Target(a) = r => ("stb" \in v <=> "stb" \in reg[r])
      BY <1>1, <1>2, OtherStepFeeds
    <3> QED BY <1>1, <3>1, StepChips DEF Rises
  <2>2. pc'[c] = pc[c]
    BY <1>1, <1>2, StepFrame
  <2> QED BY <2>1, <2>2
<1>3. CASE c = d
  <2> DEFINE i == pc[c]
  <2>1. /\ pc'[c] = i + 1 /\ i \in Nat \ {0} /\ i \in DOMAIN prog /\ a = prog[i] /\ a \in Accesses
        /\ Target(a) = a.reg /\ (r \in Written(a) => reg'[r] = v)
        /\ (r \in Written(a) <=> a.reg = r /\ Written(a) # {})
    BY <1>1, <1>3, StepFrame, InsideFacts, OwnAccess, HitMeans
  <2>2. /\ LeftOn(prog, r, "stb", i) => "stb" \in reg[r]
        /\ LeftOff(prog, r, "stb", i) => "stb" \notin reg[r]
        /\ LeftOn(prog, r, "stb", i + 1) => "stb" \in reg'[r]
        /\ LeftOff(prog, r, "stb", i + 1) => "stb" \notin reg'[r]
        /\ ~Hit(a, r, "stb") => ("stb" \in reg'[r] <=> "stb" \in reg[r])
    BY <1>1, <1>3, WiresDriven
  <2>3. synth' = IF strobes THEN shift ELSE synth
    BY <1>1, <2>1, StepChips DEF Rises
  <2>4. i \in Hits(prog, r, "stb") <=> Hit(a, r, "stb")
    BY <1>1, <2>1, HitFacts
  <2>5. CASE p < i
    <3>1. ~strobes
      <4>1. CASE Hit(a, r, "stb")
        <5>1. Spares(prog, r, "stb", i)
          BY <2>4, <2>5, <4>1 DEF LastStrobe
        <5> QED BY <2>1, <2>2, <5>1 DEF Spares
      <4>2. CASE ~Hit(a, r, "stb")
        BY <2>1, <2>2, <4>2
      <4> QED BY <4>1, <4>2
    <3>2. p \in 1 .. pc[c] - 1
      BY <2>1, <2>5
    <3> QED BY <2>3, <3>1, <3>2
  <2>6. CASE p = i
    <3>1. LeftOff(prog, r, "stb", i) /\ LeftOn(prog, r, "stb", i + 1) /\ Hit(a, r, "stb")
      BY <2>4, <2>6 DEF LastStrobe, Raises
    <3>2. strobes
      BY <2>1, <2>2, <3>1 DEF Hit
    <3>3. Len(word) = 14 /\ Sent(c, SynthLine) = 14
      <4> DEFINE clocks == Raises(prog, r, SynthLine.clk)
      <4>1. clocks \subseteq 1 .. Len(prog) /\ \A k \in clocks : k < i
        BY <1>1, <2>6, HitFacts DEF Raises, LastStrobe
      <4>2. Before(clocks, i) = Cardinality(clocks)
        BY <1>1, <2>1, <4>1, BeforeFacts
      <4>3. Cardinality(clocks) = 14 /\ Len(word) = 14
        BY LineFacts DEF Feeds, ClocksIn
      <4> QED BY <4>2, <4>3 DEF Sent
    <3>4. shift = word
      BY <3>3, EndsWhole DEF BaseInv, ChipsTyped
    <3> QED BY <2>3, <3>2, <3>4
  <2>7. p < i \/ p = i
    BY <2>1
  <2> QED BY <2>5, <2>6, <2>7
<1> QED BY <1>2, <1>3

(* A step keeps the chips fed.                                              *)
LEMMA StepKeepsLoad ==
  ASSUME BaseInv, LoadInv, NEW d \in Callers, Step(d), Careful(Prog(d)),
         \A k \in Kinds : LoadingOn(k)
  PROVE  LoadInv'
<1>1. Placed /\ kind' = kind /\ call' = call /\ crossed \subseteq crossed' /\ loaded' = loaded
      /\ Inside' = Inside
  BY StepFrame, StepChips DEF BaseInv
<1>2. DrivenInv /\ DrivenInv'
  BY StepKeepsDriven DEF LoadInv
<1>3. ClockLoaded'
  BY <1>1 DEF LoadInv, ClockLoaded, AvLine, SynthLine
<1>4. ASSUME NEW c \in Inside PROVE AvFed(c)' /\ SynthFed(c)'
  <2>1. /\ Load(c)' = Load(c) /\ Prog(c)' = Prog(c) /\ AvLine(kind)' = AvLine(kind)
        /\ Load(c).av \in Seq(BOOLEAN) /\ Load(c).synth \in Seq(BOOLEAN)
        /\ Load(c).av # <<>> => Feeds(Prog(c), AvLine(kind), Load(c).av)
        /\ Load(c).synth # <<>> => Feeds(Prog(c), SynthLine, Load(c).synth)
    BY <1>1, LoadFacts DEF Load, Prog, AvLine
  <2>2. AvFed(c) /\ SynthFed(c)
    BY DEF LoadInv
  <2>3. /\ av \in Seq(BOOLEAN) /\ shift \in Seq(BOOLEAN) /\ Len(av) <= AvLine(kind).bits
        /\ Len(shift) <= SynthLine.bits
    BY LineFacts DEF BaseInv, ChipsTyped
  <2>4. AvFed(c)'
    <3> SUFFICES ASSUME Load(c).av # <<>>, AvLine(kind).reg \notin crossed'
                 PROVE  Ends(av', Load(c).av, Before(Raises(Prog(c), AvLine(kind).reg, AvLine(kind).clk), pc'[c]))
      BY <1>1, <2>1 DEF AvFed, Ends, Sent, Before, Raises, AvLine
    <3>1. Ends(av, Load(c).av, Sent(c, AvLine(kind)))
      BY <1>1, <2>2 DEF AvFed
    <3> QED BY <1>1, <1>2, <2>1, <2>3, <3>1, StepChips, StepFeeds
  <2>5. SynthFed(c)'
    <3> SUFFICES ASSUME Load(c).synth # <<>>, SynthLine.reg \notin crossed'
                 PROVE  /\ Ends(shift', Load(c).synth, Before(Raises(Prog(c), SynthLine.reg, SynthLine.clk), pc'[c]))
                        /\ \A p \in 1 .. pc'[c] - 1 :
                             LastStrobe(Prog(c), SynthLine, "stb", p) => synth' = Load(c).synth
      BY <1>1, <2>1 DEF SynthFed, Ends, Sent, Before, Raises, SynthLine, LastStrobe
    <3>1. /\ Ends(shift, Load(c).synth, Sent(c, SynthLine))
          /\ \A p \in 1 .. pc[c] - 1 :
               LastStrobe(Prog(c), SynthLine, "stb", p) => synth = Load(c).synth
      BY <1>1, <2>2 DEF SynthFed
    <3>2. Ends(shift', Load(c).synth, Before(Raises(Prog(c), SynthLine.reg, SynthLine.clk), pc'[c]))
      BY <1>1, <1>2, <2>1, <2>3, <3>1, StepChips, StepFeeds
    <3>3. ASSUME NEW p \in 1 .. pc'[c] - 1, LastStrobe(Prog(c), SynthLine, "stb", p)
          PROVE  synth' = Load(c).synth
      BY <1>2, <2>1, <3>1, <3>3, StepStrobes
    <3> QED BY <3>2, <3>3
  <2> QED BY <2>4, <2>5
<1> QED BY <1>1, <1>2, <1>3, <1>4 DEF LoadInv

(* A call that starts has sent nothing yet.                                 *)
LEMMA StartKeepsLoad ==
  ASSUME BaseInv, BaseInv', LoadInv, NEW d \in Callers, NEW n \in DOMAIN Calls[kind], Start(d, n),
         \A k \in Kinds : LoadingOn(k)
  PROVE  LoadInv'
<1>1. /\ Placed /\ Placed' /\ kind' = kind /\ crossed' = crossed /\ pc' = pc /\ pc[d] = 1
      /\ av' = av /\ shift' = shift /\ synth' = synth /\ loaded' = loaded
      /\ Inside' = Inside \cup {d} /\ d \in Inside'
      /\ \A c \in Callers \ {d} : call'[c] = call[c] /\ Prog(c)' = Prog(c)
  BY StartFacts DEF BaseInv, Start
<1>2. DrivenInv'
  BY StartKeepsDriven DEF LoadInv
<1>3. ClockLoaded'
  BY <1>1 DEF LoadInv, ClockLoaded, AvLine, SynthLine
<1>4. ASSUME NEW c \in Inside', c # d PROVE AvFed(c)' /\ SynthFed(c)'
  <2>1. c \in Inside /\ c \in Callers /\ Load(c)' = Load(c) /\ Prog(c)' = Prog(c)
    BY <1>1, <1>4 DEF Inside, Load
  <2>2. AvFed(c) /\ SynthFed(c)
    BY <2>1 DEF LoadInv
  <2>3. AvFed(c)'
    BY <1>1, <2>1, <2>2 DEF AvFed, Sent, AvLine
  <2>4. SynthFed(c)'
    BY <1>1, <2>1, <2>2 DEF SynthFed, Sent
  <2> QED BY <2>3, <2>4
<1>5. AvFed(d)' /\ SynthFed(d)'
  <2> DEFINE prog == Prog(d)'
  <2>1. /\ DOMAIN prog = 1 .. Len(prog) /\ Len(prog) \in Nat /\ \A k \in DOMAIN prog : prog[k] \in Accesses
        /\ prog = Calls[kind][n].prog
    BY <1>1, StartFacts, CallFacts DEF Placed
  <2>2. ASSUME NEW r, NEW b PROVE Before(Raises(prog, r, b), 1) = 0
    <3>1. Raises(prog, r, b) \in SUBSET (1 .. Len(prog))
      BY <2>1, HitFacts DEF Raises
    <3>2. \A k \in Raises(prog, r, b) : 1 <= k
      BY <2>1, <3>1
    <3>3. 1 \in Nat \ {0}
      OBVIOUS
    <3> HIDE DEF prog
    <3> QED BY <2>1, <3>1, <3>2, <3>3, BeforeFacts
  <2>3. \A s \in Seq(BOOLEAN) : \A word : Ends(s, word, 0)
    BY DEF Ends
  <2>4. pc'[d] = 1 /\ av' \in Seq(BOOLEAN) /\ shift' \in Seq(BOOLEAN) /\ 1 .. pc'[d] - 1 = {}
    BY <1>1 DEF BaseInv, ChipsTyped
  <2>5. AvFed(d)'
    BY <2>2, <2>3, <2>4 DEF AvFed, Sent
  <2>6. SynthFed(d)'
    BY <2>2, <2>3, <2>4 DEF SynthFed, Sent
  <2> QED BY <2>5, <2>6
<1> QED BY <1>2, <1>3, <1>4, <1>5 DEF LoadInv

(* A call that returns has sent its whole word.                             *)
LEMMA ReturnKeepsLoad ==
  ASSUME BaseInv, LoadInv, NEW d \in Callers, Return(d), \A k \in Kinds : LoadingOn(k)
  PROVE  LoadInv'
<1>1. /\ Placed /\ kind' = kind /\ crossed' = crossed /\ pc[d] = Len(Prog(d)) + 1
      /\ av' = av /\ shift' = shift /\ synth' = synth
      /\ d \in Inside /\ Inside' = Inside \ {d}
      /\ \A c \in Callers \ {d} : call'[c] = call[c] /\ Prog(c)' = Prog(c) /\ pc'[c] = pc[c]
  BY ReturnFacts DEF BaseInv
<1>2. DrivenInv'
  BY ReturnKeepsDriven DEF LoadInv
<1>3. ASSUME NEW c \in Inside' PROVE AvFed(c)' /\ SynthFed(c)'
  <2>1. c \in Inside /\ c \in Callers /\ Load(c)' = Load(c) /\ Prog(c)' = Prog(c) /\ pc'[c] = pc[c]
    BY <1>1 DEF Inside, Load
  <2>2. AvFed(c) /\ SynthFed(c)
    BY <2>1 DEF LoadInv
  <2>3. AvFed(c)'
    BY <1>1, <2>1, <2>2 DEF AvFed, Sent, AvLine
  <2>4. SynthFed(c)'
    BY <1>1, <2>1, <2>2 DEF SynthFed, Sent
  <2> QED BY <2>3, <2>4
<1>4. ClockLoaded'
  <2> DEFINE prog == Prog(d)
  <2>1. /\ DOMAIN prog = 1 .. Len(prog) /\ Len(prog) \in Nat /\ \A k \in DOMAIN prog : prog[k] \in Accesses
        /\ pc[d] \in Nat \ {0}
    BY <1>1, InsideFacts
  <2>2. /\ Load(d).av \in Seq(BOOLEAN) /\ Load(d).synth \in Seq(BOOLEAN)
        /\ Load(d).av # <<>> => Feeds(prog, AvLine(kind), Load(d).av)
        /\ Load(d).synth # <<>> => Feeds(prog, SynthLine, Load(d).synth)
    BY <1>1, LoadFacts
  <2>3. AvFed(d) /\ SynthFed(d)
    BY <1>1 DEF LoadInv
  <2>4. Load(d).av # <<>> /\ AvLine(kind).reg \notin crossed => av = Load(d).av
    <3> SUFFICES ASSUME Load(d).av # <<>>, AvLine(kind).reg \notin crossed PROVE av = Load(d).av
      OBVIOUS
    <3> DEFINE clocks == Raises(prog, AvLine(kind).reg, AvLine(kind).clk)
    <3>1. clocks \subseteq 1 .. Len(prog) /\ \A k \in clocks : k < pc[d]
      <4>1. clocks \subseteq 1 .. Len(prog)
        BY <2>1, HitFacts DEF Raises
      <4> QED BY <1>1, <2>1, <4>1
    <3>2. Before(clocks, pc[d]) = Cardinality(clocks)
      BY <2>1, <3>1, BeforeFacts
    <3>3. Cardinality(clocks) = 24 /\ Len(Load(d).av) = 24
      BY <2>2, LineFacts DEF Feeds, ClocksIn
    <3>4. Ends(av, Load(d).av, 24)
      BY <2>3, <3>2, <3>3 DEF AvFed, Sent
    <3> QED BY <2>2, <3>3, <3>4, EndsWhole DEF BaseInv, ChipsTyped
  <2>5. Load(d).synth # <<>> /\ SynthLine.reg \notin crossed => synth = Load(d).synth
    <3> SUFFICES ASSUME Load(d).synth # <<>>, SynthLine.reg \notin crossed PROVE synth = Load(d).synth
      OBVIOUS
    <3>1. PICK p \in DOMAIN prog : LastStrobe(prog, SynthLine, "stb", p)
      BY <2>2, LineFacts DEF Feeds
    <3>2. p \in 1 .. pc[d] - 1
      BY <1>1, <2>1
    <3> QED BY <2>3, <3>1, <3>2 DEF SynthFed
  <2>6. loaded' = IF Load(d) = NoLoad THEN loaded
                  ELSE [want |-> Load(d), got |-> [av |-> av, synth |-> synth]]
    BY DEF Return, Finish, Load
  <2>7. CASE Load(d) = NoLoad
    BY <1>1, <2>6, <2>7 DEF LoadInv, ClockLoaded, AvLine, SynthLine
  <2>8. CASE Load(d) # NoLoad
    <3>1. loaded'.want = Load(d) /\ loaded'.got.av = av /\ loaded'.got.synth = synth
      BY <2>6, <2>8
    <3>2. AvLine(kind)' = AvLine(kind) /\ crossed' = crossed
      BY <1>1 DEF AvLine
    <3> QED BY <2>4, <2>5, <3>1, <3>2 DEF ClockLoaded
  <2> QED BY <2>7, <2>8
<1> QED BY <1>2, <1>3, <1>4 DEF LoadInv

(* A clock chip has been loaded with the word asked for when the call       *)
(* returns, if no other call in progress wrote the bits it drives,          *)
(* whatever was done to the other bits of that register: edt_set_out_clk    *)
(* and sse_set_out_clk send the word bit by bit, with a read and a write    *)
(* of the register for each.                                                *)
THEOREM ClockGetsItsWord ==
  ASSUME \A k \in Kinds : CarefulOn(k) /\ LoadingOn(k)
  PROVE  Spec => []ClockLoaded
<1>1. Init => BaseInv /\ LoadInv
  <2> SUFFICES ASSUME Init PROVE LoadInv
    BY BaseInit
  <2>1. Inside = {} /\ loaded.want = NoLoad
    BY DEF Init, Inside
  <2> QED BY <2>1 DEF LoadInv, DrivenInv, ClockLoaded, NoLoad
<1>2. BaseInv /\ LoadInv /\ [Next]_vars => BaseInv' /\ LoadInv'
  <2> SUFFICES ASSUME BaseInv, LoadInv, [Next]_vars PROVE LoadInv'
    BY BaseNext
  <2>1. BaseInv'
    BY BaseNext
  <2>2. ASSUME NEW c \in Callers, NEW n \in DOMAIN Calls[kind], Start(c, n) PROVE LoadInv'
    BY <2>1, <2>2, StartKeepsLoad
  <2>3. ASSUME NEW c \in Callers, Step(c) PROVE LoadInv'
    <3>1. Careful(Prog(c))
      <4>1. c \in Inside /\ Placed
        BY <2>3, StepFrame DEF BaseInv
      <4> QED BY <4>1, InsideFacts DEF CarefulOn, Prog, Placed
    <3> QED BY <2>3, <3>1, StepKeepsLoad
  <2>4. ASSUME NEW c \in Callers, Return(c) PROVE LoadInv'
    BY <2>4, ReturnKeepsLoad
  <2>5. CASE UNCHANGED vars
    BY <2>5 DEF vars, chips, caller, history, LoadInv, DrivenInv, ClockLoaded, AvFed, SynthFed,
       Inside, Prog, Load, Plain, AsDriven, CopyAsDriven, Sent, AvLine, SynthLine
  <2> QED BY <2>2, <2>3, <2>4, <2>5 DEF Next
<1>3. LoadInv => ClockLoaded
  BY DEF LoadInv
<1> QED BY <1>1, <1>2, <1>3, PTL DEF Spec
=============================================================================
