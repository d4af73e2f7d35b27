-------------------------- MODULE SerialToolProofs --------------------------
(***************************************************************************)
(* Theorems about SerialTool, for every way to start the tool, every set   *)
(* of lines and answers, both sizes of the buffers, alone on the serial    *)
(* line or not.                                                            *)
(***************************************************************************)
EXTENDS SerialTool, WellFoundedInduction, SequenceTheorems, TLAPS

(* Facts about natural numbers that no prover finds by itself.              *)

(* A set of natural numbers has a least element.                            *)
LEMMA LeastNumber ==
  ASSUME NEW S \in SUBSET Nat, S # {}
  PROVE  \E x \in S : \A y \in S : x <= y
<1> DEFINE R == {pair \in Nat \X Nat : pair[1] < pair[2]}
<1>1. IsWellFoundedOn(R, Nat)
  BY NatLessThanWellFounded DEF OpToRel
<1>2. \A x, y \in Nat : y < x => <<y, x>> \in R
  <2> SUFFICES ASSUME NEW x \in Nat, NEW y \in Nat, y < x PROVE <<y, x>> \in R
    OBVIOUS
  <2>1. <<y, x>> \in Nat \X Nat /\ <<y, x>>[1] < <<y, x>>[2]
    OBVIOUS
  <2> QED
    BY <2>1, Zenon DEF R
<1> HIDE DEF R
<1>3. PICK x \in S : \A y \in S : <<y, x>> \notin R
  BY <1>1, WFMin
<1>4. \A y \in S : ~ (y < x)
  BY <1>2, <1>3
<1> QED
  BY <1>3, <1>4

(* Induction, for a set of natural numbers in place of a predicate.         *)
LEMMA NatSetInduction ==
  ASSUME NEW S \in SUBSET Nat, 0 \in S, \A n \in S : n + 1 \in S
  PROVE  S = Nat
<1> SUFFICES ASSUME Nat \ S # {} PROVE FALSE
  OBVIOUS
<1>1. PICK x \in Nat \ S : \A y \in Nat \ S : x <= y
  BY LeastNumber
<1>2. x # 0 /\ x - 1 \in Nat
  BY <1>1
<1>3. x - 1 \in S
  BY <1>1, <1>2
<1> QED
  BY <1>1, <1>2, <1>3

-----------------------------------------------------------------------------
command == <<opt, input, hbuf, sent>>

(* A command is begun by TakeLine or Listen and sent by Send; no other step *)
(* touches the line, the buffers it is in, or what was sent, and none gets  *)
(* back to Send.                                                            *)
LEMMA CommandSteps ==
  ASSUME [Next]_vars
  PROVE  TakeLine \/ Listen \/ Send \/ (UNCHANGED command /\ (pc' = "send" => pc = "send"))
<1>1. CASE OpenFails \/ EndOfInput \/ Open \/ Count \/ Flush \/ Enable
  BY <1>1 DEF OpenFails, EndOfInput, Open, Count, Flush, Enable, command
<1>2. CASE ReadFrame \/ Wait \/ PressReturn \/ Read \/ More
  BY <1>2 DEF ReadFrame, Wait, PressReturn, Read, More, command
<1>3. CASE Speak \/ Arrive \/ Steal \/ UNCHANGED vars
  BY <1>3, Zenon DEF Speak, Arrive, Steal, vars, command
<1> QED
  BY <1>1, <1>2, <1>3, Zenon DEF Next, Tool

(* Types of the variables of a command.                                     *)
CommandType ==
  /\ opt \in Options /\ cmd \in 0 .. MaxCommands /\ line \in Lines \cup {NoLine}
  /\ pc = "send" => line \in Lines
  /\ at \in Nat /\ typed \in Nat /\ hbuf \in [1 .. LineSize -> 0 .. MaxCommands]

(* A line typed has at least a byte, fits the buffer of fgets, and its bad  *)
(* byte is one of its bytes.                                                *)
LEMMA LineType ==
  ASSUME NEW l \in Lines
  PROVE  l.n \in Nat /\ l.n <= LineSize /\ l.bad \in Nat /\ l.bad <= l.n
         /\ Decoded(l) \in Nat /\ Decoded(l) <= l.n
BY SerialToolAssumption DEF Decoded

(* No step gives these variables a value of another type.                   *)
LEMMA CommandTypeKept == CommandType /\ [Next]_vars => CommandType'
<1> SUFFICES ASSUME CommandType, [Next]_vars PROVE CommandType'
  OBVIOUS
<1>1. CASE TakeLine \/ Listen
  <2>1. PICK l \in Lines \cup {NoLine}, next \in {"send", "wait"} :
          Begin(l, next) /\ (next = "send" => l \in Lines) /\ UNCHANGED <<opt, at, hbuf>>
    BY <1>1 DEF TakeLine, Listen
  <2>2. l.n \in Nat
    BY LineType DEF NoLine
  <2>3. cmd' \in 0 .. MaxCommands /\ typed' \in Nat /\ line' = l /\ pc' = next
    BY <2>1, <2>2, SerialToolAssumption DEF Begin, CommandType
  <2> QED
    BY <2>1, <2>3 DEF CommandType
<1>2. CASE Send
  <2>1. line \in Lines /\ at' \in Nat
    BY <1>2, LineType DEF Send, Advance, CommandType
  <2>2. hbuf' \in [1 .. LineSize -> 0 .. MaxCommands]
    BY <1>2 DEF Send, Filled, CommandType
  <2>3. UNCHANGED <<opt, cmd, line, typed>> /\ pc' # "send"
    BY <1>2 DEF Send
  <2> QED
    BY <2>1, <2>2, <2>3 DEF CommandType
<1>3. CASE UNCHANGED command /\ (pc' = "send" => pc = "send")
  BY <1>3 DEF CommandType, command, input
<1> QED
  BY <1>1, <1>2, <1>3, CommandSteps

(* The tool keeps count of its commands, and of its place in the line read. *)
THEOREM CommandTypeCorrect == Spec => []CommandType
<1>1. Init => CommandType
  BY SerialToolAssumption DEF Init, CommandType
<1> QED
  BY <1>1, CommandTypeKept, PTL DEF Spec

-----------------------------------------------------------------------------
(* ibuf_p has walked over the lines of the session and no further, and only *)
(* in an interactive session in hexadecimal.                                *)
AtWithinTyped ==
  IF opt.hexin /\ Inter THEN at + (IF pc = "send" THEN line.n ELSE 0) <= typed ELSE at = 0

(* A line read fits behind ibuf_p, but in an interactive session in         *)
(* hexadecimal whose lines together are longer than the buffer.             *)
THEOREM LineFitsBuffer == Spec => []LineFits
<1>1. Init => AtWithinTyped
  BY DEF Init, AtWithinTyped
<1>2. CommandType /\ AtWithinTyped /\ [Next]_vars => AtWithinTyped'
  <2> SUFFICES ASSUME CommandType, AtWithinTyped, [Next]_vars PROVE AtWithinTyped'
    OBVIOUS
  <2>1. CASE TakeLine
    <3>1. PICK l \in Lines : Begin(l, "send") /\ UNCHANGED <<opt, at>>
      BY <2>1 DEF TakeLine
    <3>2. pc # "send" /\ line' = l /\ typed' = IF Inter THEN typed + l.n ELSE typed
      BY <3>1 DEF Begin
    <3>3. l.n \in Nat /\ at \in Nat /\ typed \in Nat
      BY LineType DEF CommandType
    <3> QED
      BY <3>1, <3>2, <3>3 DEF AtWithinTyped, Inter
  <2>2. CASE Listen
    BY <2>2 DEF Listen, Begin, AtWithinTyped, Inter
  <2>3. CASE Send
    <3>1. /\ pc = "send" /\ pc' # "send" /\ UNCHANGED <<opt, line, typed>>
          /\ at' = IF opt.hexin /\ Inter THEN at + Decoded(line) ELSE at
      BY <2>3 DEF Send, Advance
    <3>2. /\ at \in Nat /\ typed \in Nat /\ line.n \in Nat
          /\ Decoded(line) \in Nat /\ Decoded(line) <= line.n
      BY <3>1, LineType DEF CommandType
    <3> QED
      BY <3>1, <3>2 DEF AtWithinTyped, Inter
  <2>4. CASE UNCHANGED command /\ (pc' = "send" => pc = "send")
    <3>1. at \in Nat /\ typed \in Nat /\ (line \in Lines => line.n \in Nat)
      BY LineType DEF CommandType
    <3> QED
      BY <2>4, <3>1 DEF AtWithinTyped, command, input, Inter, CommandType
  <2> QED
    BY <2>1, <2>2, <2>3, <2>4, CommandSteps
<1>3. CommandType /\ AtWithinTyped => LineFits
  <2> SUFFICES ASSUME CommandType, AtWithinTyped, pc = "send"
               PROVE  at + line.n <= LineSize \/ (opt.hexin /\ Inter /\ typed > LineSize)
    BY DEF LineFits
  <2>1. at \in Nat /\ typed \in Nat /\ line.n \in Nat /\ line.n <= LineSize /\ LineSize \in Nat
    BY LineType, SerialToolAssumption DEF CommandType
  <2> QED
    BY <2>1 DEF AtWithinTyped
<1> QED
  BY <1>1, <1>2, <1>3, CommandTypeCorrect, PTL DEF Spec

-----------------------------------------------------------------------------
(* The frame of a line without a bad byte, or of one sent as it is, has all *)
(* its bytes; in hexadecimal a bad byte makes it empty.                     *)
LEMMA FrameOfLine ==
  ASSUME CommandType, NEW l \in Lines, Frame(l) # <<>>, Framed => l.bad = 0
  PROVE  Frame(l) = [i \in 1 .. l.n |-> cmd]
<1>1. CASE ~opt.hexin /\ ~Framed
  BY <1>1 DEF Frame
<1>2. CASE opt.hexin \/ Framed
  <2>1. l.bad = 0
    BY <1>2, LineType DEF Frame
  <2>2. Filled(l) = [i \in 1 .. LineSize |-> IF i <= l.n THEN cmd ELSE hbuf[i]]
    BY <2>1 DEF Filled, Decoded
  <2>3. Frame(l) = SubSeq(Filled(l), 1, l.n)
    BY <1>2, <2>1 DEF Frame
  <2>4. Filled(l) \in Seq(0 .. MaxCommands) /\ Len(Filled(l)) = LineSize
    BY <2>2, SerialToolAssumption DEF CommandType
  <2>5. l.n \in Nat /\ l.n <= LineSize
    BY LineType
  <2>6. SubSeq(Filled(l), 1, l.n) = [i \in 1 .. l.n |-> Filled(l)[i]]
    BY <2>4, <2>5
  <2>7. \A i \in 1 .. l.n : Filled(l)[i] = cmd
    BY <2>2, <2>5, SerialToolAssumption
  <2> QED
    BY <2>3, <2>6, <2>7
<1> QED
  BY <1>1, <1>2

(* The camera is sent all bytes of the line typed or, in hexadecimal, none, *)
(* but for a framed command with a bad byte.                                *)
THEOREM SendsTheLine == Spec => []SendsWhatWasTyped
<1>1. Init => SendsWhatWasTyped
  BY DEF Init, SendsWhatWasTyped
<1>2. CommandType /\ SendsWhatWasTyped /\ [Next]_vars => SendsWhatWasTyped'
  <2> SUFFICES ASSUME CommandType, SendsWhatWasTyped, [Next]_vars PROVE SendsWhatWasTyped'
    OBVIOUS
  <2>1. CASE TakeLine \/ Listen
    BY <2>1 DEF TakeLine, Listen, Begin, SendsWhatWasTyped
  <2>2. CASE Send
    <3>1. sent' = Frame(line) /\ line \in Lines /\ UNCHANGED <<opt, line, cmd>>
      BY <2>2 DEF Send, CommandType
    <3> QED
      BY <3>1, FrameOfLine DEF SendsWhatWasTyped, Framed
  <2>3. CASE UNCHANGED command
    BY <2>3 DEF command, input, SendsWhatWasTyped, Framed
  <2> QED
    BY <2>1, <2>2, <2>3, CommandSteps
<1> QED
  BY <1>1, <1>2, CommandTypeCorrect, PTL DEF Spec

-----------------------------------------------------------------------------
(* A function on an initial segment of the numbers is a sequence.           *)
LEMMA FunctionSeq ==
  ASSUME NEW S, NEW n \in Nat, NEW f \in [1 .. n -> S] PROVE f \in Seq(S) /\ Len(f) = n
<1>1. f \in Seq(S)
  OBVIOUS
<1> QED
  BY <1>1

(* Induction over sequences, for a set of them in place of a predicate.     *)
LEMMA SeqSetInduction ==
  ASSUME NEW S, NEW P \in SUBSET Seq(S), <<>> \in P, \A s \in P, e \in S : Append(s, e) \in P
  PROVE  P = Seq(S)
<1> DEFINE N == {n \in Nat : \A s \in Seq(S) : Len(s) = n => s \in P}
<1>1. 0 \in N
  <2>1. \A s \in Seq(S) : Len(s) = 0 => s = <<>>
    BY EmptySeq
  <2> QED
    BY <2>1
<1>2. \A n \in N : n + 1 \in N
  <2> SUFFICES ASSUME NEW n \in N PROVE n + 1 \in N
    OBVIOUS
  <2>1. n \in Nat /\ \A s \in Seq(S) : Len(s) = n => s \in P
    OBVIOUS
  <2> HIDE DEF N
  <2>2. ASSUME NEW s \in Seq(S), Len(s) = n + 1 PROVE s \in P
    <3>1. s # <<>>
      BY <2>1, <2>2, EmptySeq
    <3>2. PICK t \in Seq(S), e \in S : s = Append(t, e)
      BY <3>1, SequenceEmptyOrAppend
    <3>3. Len(t) = n
      BY <2>1, <2>2, <3>2, AppendProperties
    <3> QED
      BY <2>1, <3>2, <3>3
  <2> QED
    BY <2>1, <2>2 DEF N
<1> HIDE DEF N
<1>3. N = Nat
  <2>1. N \in SUBSET Nat
    BY DEF N
  <2> QED
    BY <1>1, <1>2, <2>1, NatSetInduction
<1>4. \A s \in Seq(S) : s \in P
  BY <1>3, LenProperties DEF N
<1> QED
  BY <1>4

(* The function that Without is the last value of.                          *)
IsKept(f, kinds, text) ==
  f = [n \in 0 .. Len(text) |->
         IF n = 0 THEN <<>>
         ELSE IF text[n].is \in kinds THEN f[n - 1] ELSE Append(f[n - 1], text[n])]

(* There is one, *)
LEMMA KeptExists ==
  ASSUME NEW S, NEW kinds, NEW text \in Seq(S)
  PROVE  \E f : IsKept(f, kinds, text)
<1> DEFINE Upto(f, m) ==
             f = [n \in 0 .. m |->
                    IF n = 0 THEN <<>>
                    ELSE IF text[n].is \in kinds THEN f[n - 1] ELSE Append(f[n - 1], text[n])]
           N == {m \in Nat : \E f : Upto(f, m)}
<1>1. 0 \in N
  <2> DEFINE f == [n \in 0 .. 0 |-> <<>>]
  <2>1. Upto(f, 0)
    OBVIOUS
  <2> QED
    BY <2>1
<1>2. \A m \in N : m + 1 \in N
  <2> SUFFICES ASSUME NEW m \in Nat, NEW f, Upto(f, m) PROVE \E g : Upto(g, m + 1)
    <3> HIDE DEF Upto
    <3> QED
      OBVIOUS
  <2> DEFINE g == [n \in 0 .. m + 1 |->
                     IF n = m + 1
                     THEN IF text[n].is \in kinds THEN f[m] ELSE Append(f[m], text[n])
                     ELSE f[n]]
  <2>2. \A n \in 0 .. m + 1 :
          g[n] = IF n = 0 THEN <<>>
                 ELSE IF text[n].is \in kinds THEN g[n - 1] ELSE Append(g[n - 1], text[n])
    <3> SUFFICES ASSUME NEW n \in 0 .. m + 1
                 PROVE  g[n] = IF n = 0 THEN <<>>
                               ELSE IF text[n].is \in kinds THEN g[n - 1]
                               ELSE Append(g[n - 1], text[n])
      OBVIOUS
    <3>1. CASE n = m + 1
      BY <3>1
    <3>2. CASE n \in 0 .. m
      <4>1. g[n] = f[n] /\ (n # 0 => g[n - 1] = f[n - 1])
        BY <3>2
      <4>2. f[n] = IF n = 0 THEN <<>>
                   ELSE IF text[n].is \in kinds THEN f[n - 1] ELSE Append(f[n - 1], text[n])
        BY <3>2, Zenon
      <4> QED
        BY <4>1, <4>2
    <3> QED
      BY <3>1, <3>2
  <2>3. Upto(g, m + 1)
    <3> DEFINE h == [n \in 0 .. m + 1 |->
                       IF n = 0 THEN <<>>
                       ELSE IF text[n].is \in kinds THEN g[n - 1] ELSE Append(g[n - 1], text[n])]
    <3>1. \A n \in 0 .. m + 1 : g[n] = h[n]
      BY <2>2
    <3>2. g = [n \in 0 .. m + 1 |-> g[n]]
      OBVIOUS
    <3> HIDE DEF g
    <3>3. g = h
      BY <3>1, <3>2
    <3> QED
      BY <3>3
  <2> HIDE DEF g, Upto
  <2> QED
    BY <2>3
<1> HIDE DEF N
<1>3. N = Nat
  <2>1. N \in SUBSET Nat
    BY DEF N
  <2> QED
    BY <1>1, <1>2, <2>1, NatSetInduction
<1>4. Len(text) \in N
  BY <1>3, LenProperties
<1> QED
  BY <1>4 DEF N, IsKept

(* and Without is its last value.                                           *)
LEMMA WithoutIsKept ==
  ASSUME NEW S, NEW kinds, NEW text \in Seq(S)
  PROVE  \E f : IsKept(f, kinds, text) /\ Without(kinds, text) = f[Len(text)]
<1> DEFINE kept == CHOOSE f : IsKept(f, kinds, text)
<1>1. IsKept(kept, kinds, text)
  BY KeptExists
<1>2. Without(kinds, text) = kept[Len(text)]
  BY DEF Without, IsKept
<1> HIDE DEF kept
<1> QED
  BY <1>1, <1>2

(* Nothing is kept of nothing.                                              *)
LEMMA WithoutOfNone == ASSUME NEW kinds PROVE Without(kinds, <<>>) = <<>>
<1>1. <<>> \in Seq({}) /\ Len(<<>>) = 0
  BY EmptySeq
<1>2. PICK f : IsKept(f, kinds, <<>>) /\ Without(kinds, <<>>) = f[Len(<<>>)]
  BY <1>1, WithoutIsKept
<1>3. f[0] = <<>>
  BY <1>1, <1>2 DEF IsKept
<1> QED
  BY <1>1, <1>2, <1>3

(* A byte more is kept or not.                                              *)
LEMMA WithoutOfAppend ==
  ASSUME NEW S, NEW kinds, NEW text \in Seq(S), NEW b \in S
  PROVE  Without(kinds, Append(text, b)) =
           IF b.is \in kinds THEN Without(kinds, text) ELSE Append(Without(kinds, text), b)
<1> DEFINE more == Append(text, b)
<1>1. /\ Len(text) \in Nat /\ more \in Seq(S) /\ Len(more) = Len(text) + 1
      /\ \A i \in 1 .. Len(text) : more[i] = text[i]
      /\ more[Len(text) + 1] = b
  BY AppendProperties, LenProperties
<1> HIDE DEF more
<1>2. PICK f : IsKept(f, kinds, text) /\ Without(kinds, text) = f[Len(text)]
  BY WithoutIsKept
<1>3. PICK g : IsKept(g, kinds, more) /\ Without(kinds, more) = g[Len(more)]
  BY <1>1, WithoutIsKept
<1>4. \A n \in 0 .. Len(text) :
        f[n] = IF n = 0 THEN <<>>
               ELSE IF text[n].is \in kinds THEN f[n - 1] ELSE Append(f[n - 1], text[n])
  BY <1>2, Zenon DEF IsKept
<1>5. \A n \in 0 .. Len(text) + 1 :
        g[n] = IF n = 0 THEN <<>>
               ELSE IF more[n].is \in kinds THEN g[n - 1] ELSE Append(g[n - 1], more[n])
  BY <1>1, <1>3, Zenon DEF IsKept
<1> DEFINE N == {n \in Nat : n <= Len(text) => f[n] = g[n]}
<1>6. 0 \in N
  BY <1>1, <1>4, <1>5
<1>7. ASSUME NEW n \in Nat, n <= Len(text) => f[n] = g[n], n + 1 <= Len(text)
      PROVE  f[n + 1] = g[n + 1]
  <2>1. f[n] = g[n] /\ more[n + 1] = text[n + 1]
    BY <1>1, <1>7
  <2>2. /\ n + 1 \in 0 .. Len(text) /\ n + 1 \in 0 .. Len(text) + 1 /\ n + 1 # 0
        /\ (n + 1) - 1 = n
    BY <1>1, <1>7
  <2>3. f[n + 1] = IF text[n + 1].is \in kinds THEN f[n] ELSE Append(f[n], text[n + 1])
    BY <1>4, <2>2
  <2>4. g[n + 1] = IF more[n + 1].is \in kinds THEN g[n] ELSE Append(g[n], more[n + 1])
    BY <1>5, <2>2
  <2> QED
    BY <2>1, <2>3, <2>4
<1>8. \A n \in N : n + 1 \in N
  <2> SUFFICES ASSUME NEW n \in N PROVE n + 1 \in N
    OBVIOUS
  <2>1. n \in Nat /\ n + 1 \in Nat /\ (n + 1 <= Len(text) => n <= Len(text))
    BY <1>1
  <2>2. n + 1 <= Len(text) => f[n + 1] = g[n + 1]
    BY <1>7, <2>1
  <2> QED
    BY <2>1, <2>2
<1> HIDE DEF N
<1>9. N = Nat
  <2>1. N \in SUBSET Nat
    BY DEF N
  <2> QED
    BY <1>6, <1>8, <2>1, NatSetInduction
<1>10. f[Len(text)] = g[Len(text)]
  BY <1>1, <1>9 DEF N
<1>11. g[Len(text) + 1] = IF b.is \in kinds THEN g[Len(text)] ELSE Append(g[Len(text)], b)
  BY <1>1, <1>5
<1> QED
  BY <1>1, <1>2, <1>3, <1>10, <1>11 DEF more

(* What is kept is of the text, so of every set the text is of.             *)
LEMMA WithoutType ==
  ASSUME NEW S, NEW kinds, NEW text \in Seq(S)
  PROVE  Without(kinds, text) \in Seq(S)
<1> DEFINE P == {s \in Seq(S) : Without(kinds, s) \in Seq(S)}
<1>1. <<>> \in P
  BY WithoutOfNone, EmptySeq
<1>2. \A s \in P, e \in S : Append(s, e) \in P
  <2> SUFFICES ASSUME NEW s \in Seq(S), NEW e \in S, Without(kinds, s) \in Seq(S)
               PROVE  Append(s, e) \in Seq(S) /\ Without(kinds, Append(s, e)) \in Seq(S)
    OBVIOUS
  <2>1. /\ Append(s, e) \in Seq(S) /\ Append(Without(kinds, s), e) \in Seq(S)
        /\ Without(kinds, Append(s, e))
             = IF e.is \in kinds THEN Without(kinds, s) ELSE Append(Without(kinds, s), e)
    BY WithoutOfAppend, AppendProperties
  <2> QED
    BY <2>1, Zenon
<1> HIDE DEF P
<1>3. P = Seq(S)
  <2>1. P \in SUBSET Seq(S)
    BY DEF P
  <2> QED
    BY <1>1, <1>2, <2>1, SeqSetInduction
<1> QED
  BY <1>3 DEF P

(* Appending to the second of two sequences appends to both.                *)
LEMMA AppendOfConcat ==
  ASSUME NEW S, NEW s \in Seq(S), NEW t \in Seq(S), NEW e \in S
  PROVE  s \o Append(t, e) = Append(s \o t, e)
<1>1. <<e>> \in Seq(S) /\ s \o t \in Seq(S)
  BY ConcatProperties
<1>2. Append(t, e) = t \o <<e>> /\ Append(s \o t, e) = (s \o t) \o <<e>>
  BY <1>1, AppendIsConcat
<1> QED
  BY <1>1, <1>2, ConcatAssociative

(* What is kept of two texts in a row.                                      *)
LEMMA WithoutOfConcat ==
  ASSUME NEW S, NEW kinds, NEW text \in Seq(S), NEW more \in Seq(S)
  PROVE  Without(kinds, text \o more) = Without(kinds, text) \o Without(kinds, more)
<1> DEFINE P == {s \in Seq(S) : Without(kinds, text \o s) = Without(kinds, text) \o Without(kinds, s)}
<1>0. Without(kinds, text) \in Seq(S)
  BY WithoutType
<1>1. <<>> \in P
  BY <1>0, WithoutOfNone, EmptySeq, ConcatEmptySeq
<1>2. \A t \in Seq(S), b \in S :
        Without(kinds, Append(t, b))
          = IF b.is \in kinds THEN Without(kinds, t) ELSE Append(Without(kinds, t), b)
  BY WithoutOfAppend
<1>3. \A s \in P, e \in S : Append(s, e) \in P
  <2> SUFFICES ASSUME NEW s \in Seq(S), NEW e \in S,
                      Without(kinds, text \o s) = Without(kinds, text) \o Without(kinds, s)
               PROVE  Without(kinds, text \o Append(s, e))
                        = Without(kinds, text) \o Without(kinds, Append(s, e))
    BY AppendProperties
  <2>1. Without(kinds, s) \in Seq(S) /\ text \o s \in Seq(S)
    BY WithoutType, ConcatProperties
  <2>2. text \o Append(s, e) = Append(text \o s, e)
    BY AppendOfConcat
  <2>3. Without(kinds, text) \o Append(Without(kinds, s), e)
          = Append(Without(kinds, text) \o Without(kinds, s), e)
    BY <1>0, <2>1, AppendOfConcat
  <2>4. Without(kinds, Append(text \o s, e))
          = IF e.is \in kinds THEN Without(kinds, text \o s)
            ELSE Append(Without(kinds, text \o s), e)
    BY <2>1, <1>2, Zenon
  <2>5. Without(kinds, Append(s, e))
          = IF e.is \in kinds THEN Without(kinds, s) ELSE Append(Without(kinds, s), e)
    BY <1>2, Zenon
  <2> QED
    BY <2>2, <2>3, <2>4, <2>5, Zenon
<1> HIDE DEF P
<1>4. P = Seq(S)
  <2>1. P \in SUBSET Seq(S)
    BY DEF P
  <2> QED
    BY <1>1, <1>3, <2>1, SeqSetInduction
<1> QED
  BY <1>4 DEF P

(* The least and the greatest of two numbers.                               *)
LEMMA MinMaxOfTwo ==
  ASSUME NEW a \in Int, NEW b \in Int
  PROVE  /\ Min({a, b}) = IF a <= b THEN a ELSE b
         /\ Max({a, b}) = IF a >= b THEN a ELSE b
<1>1. Min({a, b}) = CHOOSE x \in {a, b} : \A y \in {a, b} : x <= y
  BY DEF Min
<1>2. Max({a, b}) = CHOOSE x \in {a, b} : \A y \in {a, b} : x >= y
  BY DEF Max
<1> QED
  BY <1>1, <1>2

(* Cutting a sequence in two.                                               *)
LEMMA Cut ==
  ASSUME NEW S, NEW s \in Seq(S), NEW k \in 0 .. Len(s)
  PROVE  /\ SubSeq(s, 1, k) \in Seq(S) /\ Len(SubSeq(s, 1, k)) = k
         /\ \A i \in 1 .. k : SubSeq(s, 1, k)[i] = s[i]
         /\ SubSeq(s, k + 1, Len(s)) \in Seq(S) /\ Len(SubSeq(s, k + 1, Len(s))) = Len(s) - k
         /\ \A i \in 1 .. Len(s) - k : SubSeq(s, k + 1, Len(s))[i] = s[k + i]
         /\ SubSeq(s, 1, k) \o SubSeq(s, k + 1, Len(s)) = s
<1>1. Len(s) \in Nat /\ k \in Nat /\ k <= Len(s) /\ k + 1 \in Int
  BY LenProperties
<1>2. (\A i \in 1 .. k : s[i] \in S) /\ (\A i \in k + 1 .. Len(s) : s[i] \in S)
  BY <1>1
<1>3. /\ SubSeq(s, 1, k) \in Seq(S) /\ Len(SubSeq(s, 1, k)) = IF 1 <= k THEN k - 1 + 1 ELSE 0
      /\ \A i \in 1 .. k - 1 + 1 : SubSeq(s, 1, k)[i] = s[1 + i - 1]
  BY <1>1, <1>2, SubSeqProperties
<1>4. /\ SubSeq(s, k + 1, Len(s)) \in Seq(S)
      /\ Len(SubSeq(s, k + 1, Len(s))) = IF k + 1 <= Len(s) THEN Len(s) - (k + 1) + 1 ELSE 0
      /\ \A i \in 1 .. Len(s) - (k + 1) + 1 : SubSeq(s, k + 1, Len(s))[i] = s[(k + 1) + i - 1]
  BY <1>1, <1>2, SubSeqProperties
<1>5. SubSeq(s, 1, k) \o SubSeq(s, k + 1, Len(s)) = SubSeq(s, 1, Len(s))
  <2>1. 1 \in 1 .. Len(s) + 1 /\ k \in 1 - 1 .. Len(s) /\ Len(s) \in k .. Len(s)
    BY <1>1
  <2> QED
    BY <2>1, ConcatAdjacentSubSeq
<1>6. SubSeq(s, 1, Len(s)) = s
  BY SubSeqFull
<1>7. Len(SubSeq(s, 1, k)) = k /\ \A i \in 1 .. k : SubSeq(s, 1, k)[i] = s[i]
  <2>1. k - 1 + 1 = k /\ \A i \in 1 .. k : 1 + i - 1 = i
    BY <1>1
  <2>2. 1 <= k \/ k = 0
    BY <1>1
  <2> QED
    BY <1>1, <1>3, <2>1, <2>2
<1>8. /\ Len(SubSeq(s, k + 1, Len(s))) = Len(s) - k
      /\ \A i \in 1 .. Len(s) - k : SubSeq(s, k + 1, Len(s))[i] = s[k + i]
  <2>1. Len(s) - (k + 1) + 1 = Len(s) - k /\ \A i \in 1 .. Len(s) - k : (k + 1) + i - 1 = k + i
    BY <1>1
  <2>2. k + 1 <= Len(s) \/ Len(s) - k = 0
    BY <1>1
  <2> QED
    BY <1>4, <2>1, <2>2
<1> QED
  BY <1>3, <1>4, <1>5, <1>6, <1>7, <1>8

(* What a read takes and what it leaves.                                    *)
LEMMA ChunkOfRx ==
  ASSUME NEW S, rx \in Seq(S)
  PROVE  /\ Chunk \in Seq(S) /\ After(Chunk) \in Seq(S) /\ Chunk \o After(Chunk) = rx
         /\ Len(Chunk) \in 0 .. Len(rx) /\ Len(Chunk) <= BufSize
         /\ Len(After(Chunk)) = Len(rx) - Len(Chunk)
         /\ \A i \in 1 .. Len(After(Chunk)) : After(Chunk)[i] = rx[Len(Chunk) + i]
         /\ rx # <<>> => Chunk # <<>>
<1> DEFINE k == Min({BufSize, Len(rx)})
<1>1. Len(rx) \in Nat /\ BufSize \in Nat \ {0}
  BY LenProperties, SerialToolAssumption
<1>2. k \in 0 .. Len(rx) /\ k <= BufSize /\ (Len(rx) > 0 => k > 0)
  BY <1>1, MinMaxOfTwo
<1>3. rx # <<>> => Len(rx) > 0
  BY <1>1, EmptySeq
<1>4. Chunk = SubSeq(rx, 1, k)
  BY DEF Chunk
<1> HIDE DEF k
<1>5. Chunk \in Seq(S) /\ Len(Chunk) = k
  BY <1>2, <1>4, Cut
<1>6. After(Chunk) = SubSeq(rx, k + 1, Len(rx))
  BY <1>5 DEF After
<1>7. /\ After(Chunk) \in Seq(S) /\ Len(After(Chunk)) = Len(rx) - k
      /\ \A i \in 1 .. Len(rx) - k : After(Chunk)[i] = rx[k + i]
      /\ Chunk \o After(Chunk) = rx
  <2>1. /\ SubSeq(rx, k + 1, Len(rx)) \in Seq(S) /\ Len(SubSeq(rx, k + 1, Len(rx))) = Len(rx) - k
        /\ \A i \in 1 .. Len(rx) - k : SubSeq(rx, k + 1, Len(rx))[i] = rx[k + i]
        /\ SubSeq(rx, 1, k) \o SubSeq(rx, k + 1, Len(rx)) = rx
    BY <1>2, Cut
  <2> QED
    BY <1>4, <1>6, <2>1, Zenon
<1>8. rx # <<>> => Chunk # <<>>
  BY <1>2, <1>3, <1>5, EmptySeq
<1> QED
  BY <1>2, <1>5, <1>7, <1>8

(* What the camera says is a sequence of bytes of that command.             *)
LEMMA BytesType ==
  ASSUME NEW c \in 0 .. MaxCommands, NEW m \in Seq(Kinds)
  PROVE  /\ Bytes(c, m) \in Seq(Byte) /\ Len(Bytes(c, m)) = Len(m)
         /\ \A i \in 1 .. Len(m) : Bytes(c, m)[i] = [of |-> c, nth |-> i, is |-> m[i]]
<1>1. Len(m) \in Nat /\ \A i \in 1 .. Len(m) : m[i] \in Kinds
  BY LenProperties
<1>2. \A i \in 1 .. Len(m) : [of |-> c, nth |-> i, is |-> m[i]] \in Byte
  BY <1>1 DEF Byte
<1>3. Bytes(c, m) \in [1 .. Len(m) -> Byte]
  BY <1>2 DEF Bytes
<1>4. Bytes(c, m) \in Seq(Byte) /\ Len(Bytes(c, m)) = Len(m)
  BY <1>1, <1>3, FunctionSeq
<1> QED
  BY <1>4 DEF Bytes

(* A text up to its first NUL is bytes of that text.                        *)
LEMMA UpToNulType ==
  ASSUME NEW S, NEW text \in Seq(S)
  PROVE  /\ UpToNul(text) \in Seq(S)
         /\ ~HasNul(text) => UpToNul(text) = text
<1> DEFINE nuls == {i \in DOMAIN text : text[i].is = "nul"}
<1>1. Len(text) \in Nat /\ DOMAIN text = 1 .. Len(text)
  BY LenProperties
<1>2. UpToNul(text) = IF nuls = {} THEN text ELSE SubSeq(text, 1, Min(nuls) - 1)
  BY DEF UpToNul
<1>3. ~HasNul(text) => nuls = {}
  BY DEF HasNul
<1>4. ASSUME nuls # {} PROVE Min(nuls) \in 1 .. Len(text)
  <2>1. nuls \in SUBSET Nat
    BY <1>1
  <2> HIDE DEF nuls
  <2>2. \E x \in nuls : \A y \in nuls : x <= y
    BY <1>4, <2>1, LeastNumber
  <2>3. Min(nuls) = CHOOSE x \in nuls : \A y \in nuls : x <= y
    BY DEF Min
  <2>4. Min(nuls) \in nuls
    BY <2>2, <2>3
  <2> QED
    BY <1>1, <2>4 DEF nuls
<1> HIDE DEF nuls
<1>5. ASSUME nuls # {} PROVE SubSeq(text, 1, Min(nuls) - 1) \in Seq(S)
  <2>1. Min(nuls) - 1 \in 0 .. Len(text)
    BY <1>1, <1>4, <1>5
  <2> QED
    BY <2>1, Cut
<1> QED
  BY <1>2, <1>3, <1>5

(* What is read as a string is bytes that were read, and one that nobody    *)
(* wrote; it is just what was read if that has no NUL and does not fill the *)
(* buffer.                                                                  *)
LEMMA TextsType ==
  ASSUME NEW S, NEW chunk \in Seq(S), Stray \subseteq S, NEW text \in Texts(chunk)
  PROVE  /\ text \in Seq(S)
         /\ ~HasNul(chunk) /\ Len(chunk) < BufSize => text = chunk
<1>1. CASE HasNul(chunk) \/ Len(chunk) < BufSize
  <2>1. text = UpToNul(chunk)
    BY <1>1 DEF Texts
  <2> QED
    BY <2>1, UpToNulType
<1>2. CASE ~(HasNul(chunk) \/ Len(chunk) < BufSize)
  <2>1. text = chunk \/ \E b \in Stray : text = Append(chunk, b)
    BY <1>2 DEF Texts
  <2> QED
    BY <1>2, <2>1, AppendProperties
<1> QED
  BY <1>1, <1>2

-----------------------------------------------------------------------------
(* A byte made a line end is no other word.                                 *)
LEMMA WordsCrToLf ==
  ASSUME NEW S, NEW text \in Seq(S), \A b \in S : CrToLf(b) \in S
  PROVE  /\ [i \in DOMAIN text |-> CrToLf(text[i])] \in Seq(S)
         /\ S \subseteq Byte => Words([i \in DOMAIN text |-> CrToLf(text[i])]) = Words(text)
<1> DEFINE F(s) == [i \in DOMAIN s |-> CrToLf(s[i])]
<1>1. \A s \in Seq(S) : F(s) \in Seq(S) /\ Len(F(s)) = Len(s)
  <2> SUFFICES ASSUME NEW s \in Seq(S) PROVE F(s) \in Seq(S) /\ Len(F(s)) = Len(s)
    OBVIOUS
  <2>1. Len(s) \in Nat /\ DOMAIN s = 1 .. Len(s) /\ \A i \in 1 .. Len(s) : s[i] \in S
    BY LenProperties
  <2>2. \A i \in 1 .. Len(s) : CrToLf(s[i]) \in S
    BY <2>1
  <2>3. F(s) \in [1 .. Len(s) -> S]
    BY <2>1, <2>2
  <2> HIDE DEF F
  <2> QED
    BY <2>1, <2>3, FunctionSeq
<1>2. ASSUME S \subseteq Byte PROVE Words(F(text)) = Words(text)
  <2> DEFINE P == {s \in Seq(S) : Words(F(s)) = Words(s)}
  <2>1. <<>> \in P
    <3>1. F(<<>>) = <<>>
      OBVIOUS
    <3> QED
      BY <3>1, EmptySeq
  <2>2. \A s \in P, e \in S : Append(s, e) \in P
    <3> SUFFICES ASSUME NEW s \in Seq(S), NEW e \in S, Words(F(s)) = Words(s)
                 PROVE  Words(F(Append(s, e))) = Words(Append(s, e))
      BY AppendProperties
    <3>1. F(Append(s, e)) = Append(F(s), CrToLf(e))
      <4>1. /\ Append(s, e) \in Seq(S) /\ Len(Append(s, e)) = Len(s) + 1
            /\ \A i \in 1 .. Len(s) : Append(s, e)[i] = s[i]
            /\ Append(s, e)[Len(s) + 1] = e /\ DOMAIN s = 1 .. Len(s) /\ Len(s) \in Nat
            /\ DOMAIN Append(s, e) = 1 .. Len(s) + 1
        BY AppendProperties, LenProperties
      <4>2. /\ F(s) \in Seq(S) /\ Len(F(s)) = Len(s)
            /\ F(Append(s, e)) \in Seq(S) /\ Len(F(Append(s, e))) = Len(s) + 1
        <5> HIDE DEF F
        <5> QED
          BY <1>1, <4>1
      <4>3. /\ \A i \in 1 .. Len(s) : F(s)[i] = CrToLf(s[i])
            /\ \A i \in 1 .. Len(s) + 1 : F(Append(s, e))[i] = CrToLf(Append(s, e)[i])
        BY <4>1
      <4> HIDE DEF F
      <4>4. CrToLf(e) \in S
        OBVIOUS
      <4>5. /\ Append(F(s), CrToLf(e)) \in Seq(S) /\ Len(Append(F(s), CrToLf(e))) = Len(s) + 1
            /\ \A i \in 1 .. Len(s) : Append(F(s), CrToLf(e))[i] = F(s)[i]
            /\ Append(F(s), CrToLf(e))[Len(s) + 1] = CrToLf(e)
        BY <4>2, <4>4, AppendProperties
      <4>6. \A i \in 1 .. Len(s) + 1 : F(Append(s, e))[i] = Append(F(s), CrToLf(e))[i]
        BY <4>1, <4>3, <4>5
      <4> QED
        BY <4>2, <4>5, <4>6, SeqEqual
    <3> DEFINE ends == {"cr", "lf"}
    <3>2. /\ Without(ends, Append(s, e))
              = IF e.is \in ends THEN Without(ends, s) ELSE Append(Without(ends, s), e)
          /\ Without(ends, Append(F(s), CrToLf(e)))
              = IF CrToLf(e).is \in ends THEN Without(ends, F(s))
                ELSE Append(Without(ends, F(s)), CrToLf(e))
      <4>1. F(s) \in Seq(S) /\ CrToLf(e) \in S
        <5> HIDE DEF F
        <5> QED
          BY <1>1
      <4> HIDE DEF F, ends
      <4> QED
        BY <4>1, WithoutOfAppend
    <3>3. e.is \in ends => CrToLf(e).is \in ends
      BY <1>2 DEF CrToLf, Byte
    <3>4. e.is \notin ends => CrToLf(e) = e
      BY DEF CrToLf
    <3>5. Words(s) = Without(ends, s) /\ Words(F(s)) = Without(ends, F(s))
          /\ Words(Append(s, e)) = Without(ends, Append(s, e))
          /\ Words(F(Append(s, e))) = Without(ends, Append(F(s), CrToLf(e)))
      BY <3>1 DEF Words
    <3> HIDE DEF F, ends
    <3>6. CASE e.is \in ends
      BY <3>2, <3>3, <3>5, <3>6
    <3>7. CASE e.is \notin ends
      BY <3>2, <3>4, <3>5, <3>7
    <3> QED
      BY <3>6, <3>7
  <2> HIDE DEF P
  <2>3. P = Seq(S)
    <3>1. P \in SUBSET Seq(S)
      BY DEF P
    <3> QED
      BY <2>1, <2>2, <3>1, SeqSetInduction
  <2> QED
    BY <2>3 DEF P
<1> QED
  BY <1>1, <1>2

(* Nor is one left out.                                                     *)
LEMMA WordsWithoutCr ==
  ASSUME NEW S, NEW text \in Seq(S)
  PROVE  Words(Without({"cr"}, text)) = Words(text)
<1> DEFINE P == {s \in Seq(S) : Words(Without({"cr"}, s)) = Words(s)}
<1>1. <<>> \in P
  BY WithoutOfNone, EmptySeq
<1>2. \A s \in P, e \in S : Append(s, e) \in P
  <2> SUFFICES ASSUME NEW s \in Seq(S), NEW e \in S, Words(Without({"cr"}, s)) = Words(s)
               PROVE  Words(Without({"cr"}, Append(s, e))) = Words(Append(s, e))
    BY AppendProperties
  <2> DEFINE t == Without({"cr"}, s)
  <2>1. t \in Seq(S)
    BY WithoutType
  <2>2. Without({"cr"}, Append(s, e)) = IF e.is = "cr" THEN t ELSE Append(t, e)
    BY WithoutOfAppend
  <2> HIDE DEF t
  <2>3. /\ Words(Append(s, e)) = IF e.is \in {"cr", "lf"} THEN Words(s) ELSE Append(Words(s), e)
        /\ Words(Append(t, e)) = IF e.is \in {"cr", "lf"} THEN Words(t) ELSE Append(Words(t), e)
    BY <2>1, WithoutOfAppend DEF Words
  <2> QED
    BY <2>2, <2>3 DEF t
<1> HIDE DEF P
<1>3. P = Seq(S)
  <2>1. P \in SUBSET Seq(S)
    BY DEF P
  <2> QED
    BY <1>1, <1>2, <2>1, SeqSetInduction
<1> QED
  BY <1>3 DEF P

(* So what is printed of a text has the words of the text, and bytes of no  *)
(* other place in an answer.                                                *)
LEMMA PrintifiedText ==
  ASSUME NEW S \in SUBSET Byte, NEW text \in Seq(S), \A b \in S : CrToLf(b) \in S
  PROVE  Printified(text) \in Seq(S) /\ Words(Printified(text)) = Words(text)
<1>1. CASE \E i \in DOMAIN text : text[i].is = "lf"
  BY <1>1, WithoutType, WordsWithoutCr DEF Printified
<1>2. CASE ~\E i \in DOMAIN text : text[i].is = "lf"
  BY <1>2, WordsCrToLf DEF Printified
<1> QED
  BY <1>1, <1>2

(* What the camera has said before the tool starts is in the driver but for *)
(* its last byte, perhaps.                                                  *)
LEMMA JunkIsBytes ==
  ASSUME Init
  PROVE  /\ out \in Seq(Byte) /\ rx \in Seq(Byte)
         /\ \E m \in Seq(Byte) :
              /\ \A i \in 1 .. Len(m) : m[i].of = 0 /\ m[i].nth = i
              /\ \A i \in 1 .. Len(rx) : i <= Len(m) /\ rx[i] = m[i]
              /\ \A i \in 1 .. Len(out) : Len(rx) + i <= Len(m) /\ out[i] = m[Len(rx) + i]
<1>0. PICK m \in Junk : \E k \in {0, Min({1, Len(m)})} :
        /\ rx = SubSeq(Bytes(0, m), 1, Len(m) - k)
        /\ out = SubSeq(Bytes(0, m), Len(m) - k + 1, Len(m))
  BY DEF Init
<1>1. PICK k \in {0, Min({1, Len(m)})} :
        /\ rx = SubSeq(Bytes(0, m), 1, Len(m) - k)
        /\ out = SubSeq(Bytes(0, m), Len(m) - k + 1, Len(m))
  BY <1>0
<1> DEFINE all == Bytes(0, m)
           j == Len(m) - k
<1>2. m \in Seq(Kinds) /\ Len(m) \in Nat
  BY WaitCharEnds, LenProperties
<1>3. j \in 0 .. Len(m)
  BY <1>2, MinMaxOfTwo
<1>4. /\ all \in Seq(Byte) /\ Len(all) = Len(m)
      /\ \A i \in 1 .. Len(m) : all[i].of = 0 /\ all[i].nth = i
  <2>1. 0 \in 0 .. MaxCommands
    BY SerialToolAssumption
  <2>2. /\ all \in Seq(Byte) /\ Len(all) = Len(m)
        /\ \A i \in 1 .. Len(m) : all[i] = [of |-> 0, nth |-> i, is |-> m[i]]
    BY <1>2, <2>1, BytesType
  <2> HIDE DEF all
  <2>3. ASSUME NEW i \in 1 .. Len(m) PROVE all[i].of = 0 /\ all[i].nth = i
    <3>1. all[i] = [of |-> 0, nth |-> i, is |-> m[i]]
      BY <2>2
    <3> QED
      BY <3>1
  <2> QED
    BY <2>2, <2>3
<1>5. rx = SubSeq(all, 1, j) /\ out = SubSeq(all, j + 1, Len(all))
  BY <1>1, <1>4
<1> HIDE DEF all, j
<1>6. /\ rx \in Seq(Byte) /\ Len(rx) = j /\ \A i \in 1 .. j : rx[i] = all[i]
      /\ out \in Seq(Byte) /\ Len(out) = Len(all) - j
      /\ \A i \in 1 .. Len(all) - j : out[i] = all[j + i]
  <2>1. j \in 0 .. Len(all)
    BY <1>3, <1>4
  <2> QED
    BY <1>4, <1>5, <2>1, Cut
<1> QED
  BY <1>2, <1>3, <1>4, <1>6

(* What is sent is bytes of commands.                                       *)
LEMMA FrameType ==
  ASSUME CommandType, NEW l \in Lines
  PROVE  Frame(l) \in Seq(0 .. MaxCommands)
<1>1. l.n \in Nat /\ l.n <= LineSize /\ LineSize \in Nat /\ cmd \in 0 .. MaxCommands
  BY LineType, SerialToolAssumption DEF CommandType
<1>2. [i \in 1 .. l.n |-> cmd] \in Seq(0 .. MaxCommands)
  BY <1>1, FunctionSeq
<1>3. SubSeq(Filled(l), 1, l.n) \in Seq(0 .. MaxCommands)
  <2>1. Filled(l) \in [1 .. LineSize -> 0 .. MaxCommands]
    BY <1>1 DEF Filled, CommandType
  <2>2. Filled(l) \in Seq(0 .. MaxCommands) /\ Len(Filled(l)) = LineSize
    BY <1>1, <2>1, FunctionSeq
  <2>3. l.n \in 0 .. Len(Filled(l))
    BY <1>1, <2>2
  <2> QED
    BY <2>2, <2>3, Cut
<1> QED
  BY <1>2, <1>3, EmptySeq DEF Frame

-----------------------------------------------------------------------------
(* A step of the tool's reading.                                            *)
LEMMA StreamsRead ==
  ASSUME NEW S \in SUBSET Byte, \A b \in S : CrToLf(b) \in S, Stray \subseteq S,
         rx \in Seq(S), printed \in Seq(S), lastbyte \in S, Read
  PROVE  rx' \in Seq(S) /\ printed' \in Seq(S) /\ lastbyte' \in S
<1>1. PICK text \in Texts(Chunk) :
        /\ lastbyte' = IF text = <<>> THEN lastbyte ELSE Last(text)
        /\ printed' = printed \o IF opt.hexin \/ opt.basler THEN Chunk ELSE Printified(text)
  BY DEF Read
<1>2. Chunk \in Seq(S) /\ After(Chunk) \in Seq(S)
  BY ChunkOfRx
<1>3. text \in Seq(S)
  BY <1>2, TextsType
<1>4. Printified(text) \in Seq(S)
  BY <1>3, PrintifiedText
<1>5. printed' \in Seq(S)
  BY <1>1, <1>2, <1>4, ConcatProperties
<1>6. lastbyte' \in S
  <2>1. text # <<>> => Len(text) \in 1 .. Len(text)
    BY <1>3, EmptySeq, LenProperties
  <2>2. text # <<>> => Last(text) \in S
    BY <1>3, <2>1, ElementOfSeq DEF Last
  <2> QED
    BY <1>1, <2>2
<1> QED
  BY <1>2, <1>5, <1>6 DEF Read

(* The bytes under way, printed and remembered stay in any set that holds   *)
(* what the camera says and what follows a full buffer.                     *)
LEMMA StreamsKept ==
  ASSUME NEW S \in SUBSET Byte, \A b \in S : CrToLf(b) \in S, Stray \subseteq S,
         rx \in Seq(S), out \in Seq(S), printed \in Seq(S), lastbyte \in S,
         [Next]_vars, Speak => answer' \in Seq(S)
  PROVE  rx' \in Seq(S) /\ out' \in Seq(S) /\ printed' \in Seq(S) /\ lastbyte' \in S
<1>1. CASE OpenFails \/ EndOfInput \/ Open \/ Count \/ Enable \/ Send
  BY <1>1 DEF OpenFails, EndOfInput, Open, Count, Enable, Send, link, history
<1>2. CASE Wait \/ PressReturn \/ More
  BY <1>2 DEF Wait, PressReturn, More, link, history
<1>3. CASE UNCHANGED vars
  BY <1>3 DEF vars, link, history
<1>4. CASE Flush \/ Steal
  <2>1. After(Chunk) \in Seq(S)
    BY ChunkOfRx
  <2> QED
    BY <1>4, <2>1 DEF Flush, Steal, history
<1>5. CASE ReadFrame
  <2>1. PICK k \in 0 .. Len(rx) :
          rx' = SubSeq(rx, k + 1, Len(rx)) /\ printed' = printed \o SubSeq(rx, 1, k)
    BY <1>5 DEF ReadFrame
  <2>2. SubSeq(rx, 1, k) \in Seq(S) /\ SubSeq(rx, k + 1, Len(rx)) \in Seq(S)
    BY Cut
  <2>3. UNCHANGED <<out, lastbyte>>
    BY <1>5 DEF ReadFrame
  <2> QED
    BY <2>1, <2>2, <2>3, ConcatProperties
<1>6. CASE Read
  BY <1>6, StreamsRead DEF Read
<1>7. CASE TakeLine \/ Listen
  BY <1>7, EmptySeq DEF TakeLine, Listen, Begin, link
<1>8. CASE Speak
  <2>1. out' = out \o answer' /\ UNCHANGED <<rx, printed, lastbyte>>
    BY <1>8 DEF Speak
  <2> QED
    BY <1>8, <2>1, ConcatProperties
<1>9. CASE Arrive
  <2>1. Head(out) \in S /\ Tail(out) \in Seq(S)
    BY <1>9, HeadTailProperties DEF Arrive
  <2>2. Append(rx, Head(out)) \in Seq(S)
    BY <2>1, AppendProperties
  <2> QED
    BY <1>9, <2>1, <2>2 DEF Arrive, history
<1> QED
  BY <1>1, <1>2, <1>3, <1>4, <1>5, <1>6, <1>7, <1>8, <1>9, Zenon DEF Next, Tool

(* What the camera says is an answer to the command in progress; it says it *)
(* when it has said nothing yet.                                            *)
LEMMA CameraSpeaks ==
  ASSUME TypeOK, Speak
  PROVE  \E m \in Messages :
           /\ m \in Seq(Kinds) /\ m # <<>> /\ answer' = Bytes(cmd, m) /\ answer' \in Seq(Byte)
           /\ Len(answer') = Len(m) /\ answer' # <<>> /\ out' = out \o answer'
           /\ \A i \in 1 .. Len(m) : answer'[i] = [of |-> cmd, nth |-> i, is |-> m[i]]
<1>1. PICK m \in Messages : m # <<>> /\ answer' = Bytes(cmd, m) /\ out' = out \o answer'
  BY DEF Speak
<1>2. m \in Seq(Kinds) /\ cmd \in 0 .. MaxCommands
  BY WaitCharEnds DEF TypeOK
<1>3. /\ answer' \in Seq(Byte) /\ Len(answer') = Len(m)
      /\ \A i \in 1 .. Len(m) : answer'[i] = [of |-> cmd, nth |-> i, is |-> m[i]]
  BY <1>1, <1>2, BytesType
<1>4. answer' # <<>>
  BY <1>1, <1>2, <1>3, EmptySeq
<1> QED
  BY <1>1, <1>2, <1>3, <1>4

(* The types of the streams, for any byte.                                  *)
LEMMA ByteClosed == (\A b \in Byte : CrToLf(b) \in Byte) /\ Stray \subseteq Byte /\ NoByte \in Stray
BY SerialToolAssumption DEF Byte, CrToLf, Stray, Kinds, NoByte

(* No step gives a variable a value of another type.                        *)
LEMMA TypeKept == TypeOK /\ CommandType /\ [Next]_vars => TypeOK'
<1> SUFFICES ASSUME TypeOK, CommandType, [Next]_vars PROVE TypeOK'
  OBVIOUS
<1>1. CommandType'
  BY CommandTypeKept
<1>2. rx' \in Seq(Byte) /\ out' \in Seq(Byte) /\ printed' \in Seq(Byte) /\ lastbyte' \in Byte
  BY StreamsKept, CameraSpeaks, ByteClosed DEF TypeOK
<1>3. answer' \in Seq(Byte)
  <2>1. CASE TakeLine \/ Listen
    BY <2>1, EmptySeq DEF TakeLine, Listen, Begin
  <2>2. CASE Speak
    BY <2>2, CameraSpeaks
  <2>3. CASE UNCHANGED answer
    BY <2>3 DEF TypeOK
  <2>4. CASE ~TakeLine /\ ~Listen /\ ~Speak
    <3>1. CASE OpenFails \/ EndOfInput \/ Open \/ Count \/ Flush \/ Enable \/ Send
      BY <2>3, <3>1 DEF OpenFails, EndOfInput, Open, Count, Flush, Enable, Send, history
    <3>2. CASE ReadFrame \/ Wait \/ PressReturn \/ Read \/ More \/ Arrive \/ Steal
      BY <2>3, <3>2 DEF ReadFrame, Wait, PressReturn, Read, More, Arrive, Steal, history
    <3>3. CASE UNCHANGED vars
      BY <2>3, <3>3 DEF vars, history
    <3> QED
      BY <2>4, <3>1, <3>2, <3>3, Zenon DEF Next, Tool
  <2> QED
    BY <2>1, <2>2, <2>4
<1>4. left' \in Nat /\ enabled' \in BOOLEAN /\ junk' \subseteq Byte
  <2>1. CASE Count
    <3>1. Len(rx) \in Nat /\ ToSet(rx) \subseteq Byte
      BY LenProperties DEF TypeOK, ToSet
    <3> QED
      BY <2>1, <3>1 DEF Count, link, TypeOK
  <2>2. CASE Flush
    <3>1. Len(Chunk) \in Nat
      BY ChunkOfRx, LenProperties DEF TypeOK
    <3>2. Max({0, left - Len(Chunk)}) \in Nat
      <4> DEFINE d == left - Len(Chunk)
      <4>1. d \in Int
        BY <3>1 DEF TypeOK
      <4> HIDE DEF d
      <4>2. Max({0, d}) = IF 0 >= d THEN 0 ELSE d
        BY <4>1, MinMaxOfTwo
      <4>3. Max({0, d}) \in Nat
        BY <4>1, <4>2
      <4> QED
        BY <4>3 DEF d
    <3> QED
      BY <2>2, <3>2 DEF Flush, history, TypeOK
  <2>3. CASE OpenFails \/ EndOfInput \/ Open \/ Enable \/ Send \/ ReadFrame \/ Wait \/ PressReturn
    BY <2>3 DEF OpenFails, EndOfInput, Open, Enable, Send, ReadFrame, Wait, PressReturn,
                link, history, TypeOK
  <2>4. CASE Read \/ More \/ Speak \/ Arrive \/ Steal \/ TakeLine \/ Listen
    BY <2>4 DEF Read, More, Speak, Arrive, Steal, TakeLine, Listen, link, history, TypeOK
  <2>5. CASE UNCHANGED vars
    BY <2>5 DEF vars, link, history, TypeOK
  <2> QED
    BY <2>1, <2>2, <2>3, <2>4, <2>5, Zenon DEF Next, Tool
<1>5. spoiled' \subseteq Reasons
  <2>1. CASE ReadFrame \/ Read \/ More \/ Speak \/ Steal
    BY <2>1 DEF ReadFrame, Read, More, Speak, Steal, TypeOK, Reasons
  <2>2. CASE TakeLine \/ Listen
    BY <2>2 DEF TakeLine, Listen, Begin, Reasons
  <2>3. CASE OpenFails \/ EndOfInput \/ Open \/ Count \/ Flush \/ Enable \/ Send
    BY <2>3 DEF OpenFails, EndOfInput, Open, Count, Flush, Enable, Send, history, TypeOK
  <2>4. CASE Wait \/ PressReturn \/ Arrive \/ UNCHANGED vars
    BY <2>4 DEF Wait, PressReturn, Arrive, vars, history, TypeOK
  <2> QED
    BY <2>1, <2>2, <2>3, <2>4, Zenon DEF Next, Tool
<1>6. sent' \in Seq(0 .. MaxCommands)
  <2>1. CASE TakeLine \/ Listen
    BY <2>1, EmptySeq DEF TakeLine, Listen, Begin
  <2>2. CASE Send
    <3>1. line \in Lines /\ sent' = Frame(line)
      BY <2>2 DEF Send, CommandType
    <3> QED
      BY <3>1, FrameType
  <2>3. CASE UNCHANGED command
    BY <2>3 DEF command, TypeOK
  <2> QED
    BY <2>1, <2>2, <2>3, CommandSteps
<1>7. pc' \in AtRest \cup {"count", "flush", "enable", "send", "frame", "wait", "pause",
                            "read", "more"}
  <2>1. CASE OpenFails \/ EndOfInput \/ Open \/ Count \/ Flush \/ Enable \/ Send \/ ReadFrame
    BY <2>1 DEF OpenFails, EndOfInput, Open, Count, Flush, Enable, Send, ReadFrame, AtRest
  <2>2. CASE Wait \/ PressReturn \/ Read \/ More \/ TakeLine \/ Listen
    BY <2>2 DEF Wait, PressReturn, Read, More, TakeLine, Listen, Begin, AtRest
  <2>3. CASE Speak \/ Arrive \/ Steal \/ UNCHANGED vars
    BY <2>3 DEF Speak, Arrive, Steal, vars, TypeOK
  <2> QED
    BY <2>1, <2>2, <2>3, Zenon DEF Next, Tool
<1> QED
  BY <1>1, <1>2, <1>3, <1>4, <1>5, <1>6, <1>7 DEF TypeOK, CommandType

(* Type correctness of every variable.                                      *)
THEOREM SerialTypeCorrect == Spec => []TypeOK
<1>1. Init => TypeOK
  <2> SUFFICES ASSUME Init PROVE TypeOK
    OBVIOUS
  <2>1. out \in Seq(Byte) /\ rx \in Seq(Byte)
    BY JunkIsBytes
  <2>2. NoByte \in Byte
    BY ByteClosed
  <2>3. hbuf \in [1 .. LineSize -> 0 .. MaxCommands]
    BY SerialToolAssumption DEF Init
  <2> QED
    BY <2>1, <2>2, <2>3, EmptySeq, SerialToolAssumption DEF Init, TypeOK, AtRest
<1> QED
  BY <1>1, TypeKept, CommandTypeCorrect, PTL DEF Spec

-----------------------------------------------------------------------------
(* Bytes that are none of those to be thrown away, line end or not.         *)
NotJunk == {b \in Byte : \A j \in junk : b.of # j.of \/ b.nth # j.nth}

(* Before the count nothing is junk, every byte is one the camera said      *)
(* unasked, and no two have the same place.                                 *)
SaidUnasked ==
  pc \in {"start", "count"} =>
    /\ junk = {} /\ printed = <<>> /\ lastbyte = NoByte
    /\ \A i \in 1 .. Len(rx) : rx[i].of = 0 /\ rx[i].nth > 0
    /\ \A i \in 1 .. Len(out) : out[i].of = 0 /\ out[i].nth > 0
    /\ \A i \in 1 .. Len(rx), j \in 1 .. Len(out) : rx[i].nth # out[j].nth
    /\ \A i, j \in 1 .. Len(out) : i # j => out[i].nth # out[j].nth

(* The junk the flush has not thrown away is among the bytes it still       *)
(* counts; there is none anywhere else.                                     *)
JunkInv ==
  /\ SaidUnasked
  /\ \A j \in junk : j.of = 0 /\ j.nth > 0
  /\ out \in Seq(NotJunk) /\ printed \in Seq(NotJunk) /\ lastbyte \in NotJunk
  /\ pc # "flush" => rx \in Seq(NotJunk)
  /\ pc = "flush" => \A i \in 1 .. Len(rx) : i > left => rx[i] \in NotJunk

(* The junk is chosen by Count; the flush begins there and ends in Flush.   *)
LEMMA FlushSteps ==
  ASSUME [Next]_vars
  PROVE  \/ Open \/ Count \/ Flush \/ Arrive \/ Steal
         \/ UNCHANGED vars
         \/ UNCHANGED junk /\ pc # "flush" /\ pc' \notin {"start", "count", "flush"}
<1>1. CASE OpenFails \/ EndOfInput \/ Enable \/ Send \/ ReadFrame \/ Wait \/ PressReturn
  BY <1>1 DEF OpenFails, EndOfInput, Enable, Send, ReadFrame, Wait, PressReturn, history
<1>2. CASE Read \/ More \/ TakeLine \/ Listen
  BY <1>2 DEF Read, More, TakeLine, Listen, Begin
<1>3. CASE Speak
  BY <1>3 DEF Speak
<1> QED
  BY <1>1, <1>2, <1>3, Zenon DEF Next, Tool

(* Bytes are not junk whatever their kind, nor is one nobody sent.          *)
LEMMA NotJunkClosed ==
  ASSUME \A j \in junk : j.of = 0 /\ j.nth > 0
  PROVE  /\ NotJunk \in SUBSET Byte /\ (\A b \in NotJunk : CrToLf(b) \in NotJunk)
         /\ Stray \subseteq NotJunk
<1>1. \A b \in NotJunk : CrToLf(b) \in NotJunk
  <2> SUFFICES ASSUME NEW b \in NotJunk PROVE CrToLf(b) \in NotJunk
    OBVIOUS
  <2>1. b \in Byte /\ CrToLf(b) \in Byte
    BY ByteClosed DEF NotJunk
  <2>2. CrToLf(b).of = b.of /\ CrToLf(b).nth = b.nth
    BY <2>1 DEF CrToLf, Byte
  <2> QED
    BY <2>1, <2>2 DEF NotJunk
<1>2. Stray \subseteq NotJunk
  <2> SUFFICES ASSUME NEW b \in Stray PROVE b \in NotJunk
    OBVIOUS
  <2>1. b \in Byte /\ b.nth = 0
    BY ByteClosed DEF Stray
  <2> QED
    BY <2>1 DEF NotJunk
<1> QED
  BY <1>1, <1>2 DEF NotJunk

(* At first nothing is junk.                                                *)
LEMMA JunkInit == Init => JunkInv
<1> SUFFICES ASSUME Init PROVE JunkInv
  OBVIOUS
<1>1. junk = {} /\ NotJunk = Byte /\ pc = "start" /\ printed = <<>> /\ lastbyte = NoByte
  BY DEF Init, NotJunk
<1>2. PICK m \in Seq(Byte) :
        /\ \A i \in 1 .. Len(m) : m[i].of = 0 /\ m[i].nth = i
        /\ \A i \in 1 .. Len(rx) : i <= Len(m) /\ rx[i] = m[i]
        /\ \A i \in 1 .. Len(out) : Len(rx) + i <= Len(m) /\ out[i] = m[Len(rx) + i]
  BY JunkIsBytes
<1>3. out \in Seq(Byte) /\ rx \in Seq(Byte)
  BY JunkIsBytes
<1>4. Len(rx) \in Nat /\ Len(out) \in Nat /\ Len(m) \in Nat
  BY <1>3, LenProperties
<1>5. \A i \in 1 .. Len(rx) : rx[i].of = 0 /\ rx[i].nth = i
  BY <1>2, <1>4
<1>6. \A i \in 1 .. Len(out) : out[i].of = 0 /\ out[i].nth = Len(rx) + i
  BY <1>2, <1>4
<1>7. SaidUnasked
  BY <1>1, <1>4, <1>5, <1>6 DEF SaidUnasked
<1> QED
  BY <1>1, <1>3, <1>7, ByteClosed, EmptySeq DEF JunkInv

(* Count makes junk of what has arrived: all of it is to be read, and none  *)
(* of it is still to come.                                                  *)
LEMMA CountMakesJunk == TypeOK /\ JunkInv /\ Count => JunkInv'
<1> SUFFICES ASSUME TypeOK, JunkInv, Count PROVE JunkInv'
  OBVIOUS
<1>1. /\ pc = "count" /\ junk' = ToSet(rx) /\ left' = Len(rx)
      /\ rx' = rx /\ out' = out /\ printed' = printed /\ lastbyte' = lastbyte
      /\ pc' = IF rx = <<>> THEN "enable" ELSE "flush"
  BY DEF Count, link
<1>2. /\ rx \in Seq(Byte) /\ out \in Seq(Byte) /\ printed \in Seq(Byte) /\ lastbyte \in Byte
      /\ Len(rx) \in Nat /\ Len(out) \in Nat
  BY LenProperties DEF TypeOK
<1>3. \A j \in junk' : \E i \in 1 .. Len(rx) : j = rx[i]
  BY <1>1, <1>2, LenProperties DEF ToSet
<1>4. \A j \in junk' : j.of = 0 /\ j.nth > 0
  BY <1>1, <1>3 DEF JunkInv, SaidUnasked
<1>5. \A i \in 1 .. Len(out) : out[i] \in NotJunk'
  BY <1>1, <1>2, <1>3 DEF JunkInv, SaidUnasked, NotJunk
<1>6. out \in Seq(NotJunk')
  BY <1>2, <1>5
<1>7. lastbyte \in NotJunk'
  <2>1. lastbyte \in Byte /\ lastbyte.nth = 0
    BY <1>1, <1>2 DEF JunkInv, SaidUnasked, NoByte
  <2> QED
    BY <1>1, <1>4, <2>1 DEF NotJunk
<1>8. printed = <<>> /\ <<>> \in Seq(NotJunk')
  BY <1>1, EmptySeq DEF JunkInv, SaidUnasked
<1>9. SaidUnasked'
  BY <1>1 DEF SaidUnasked
<1>10. /\ pc' # "flush" => rx' \in Seq(NotJunk')
       /\ pc' = "flush" => \A i \in 1 .. Len(rx') : i > left' => rx'[i] \in NotJunk'
  BY <1>1, <1>2, <1>8
<1> QED
  BY <1>1, <1>4, <1>6, <1>7, <1>8, <1>9, <1>10 DEF JunkInv

(* The flush takes as much off its count as it reads, and an end of the     *)
(* count leaves no junk.                                                    *)
LEMMA FlushTakesJunk == TypeOK /\ JunkInv /\ (Flush \/ Steal) => JunkInv'
<1> SUFFICES ASSUME TypeOK, JunkInv, Flush \/ Steal PROVE JunkInv'
  OBVIOUS
<1> DEFINE n == Len(Chunk)
<1>1. /\ rx' = After(Chunk) /\ UNCHANGED <<out, printed, lastbyte, junk>>
      /\ pc \in {"flush", "read"}
  BY DEF Flush, Steal, history
<1>2. NotJunk' = NotJunk
  BY <1>1 DEF NotJunk
<1>3. Len(rx) \in Nat /\ n \in 0 .. Len(rx) /\ rx' \in Seq(Byte) /\ Len(rx') = Len(rx) - n
      /\ \A i \in 1 .. Len(rx') : rx'[i] = rx[n + i]
  BY <1>1, ChunkOfRx, LenProperties DEF TypeOK
<1> HIDE DEF n
<1>4. CASE pc = "read"
  <2>1. pc' = "read"
    BY <1>4 DEF Flush, Steal
  <2>2. rx' \in Seq(NotJunk)
    BY <1>1, <1>4, ChunkOfRx DEF JunkInv
  <2> QED
    BY <1>1, <1>2, <1>4, <2>1, <2>2 DEF JunkInv, SaidUnasked
<1>5. CASE pc = "flush"
  <2>1. /\ pc' \in {"flush", "enable"} /\ left' \in Nat /\ left \in Nat
        /\ left' >= left - n /\ (pc' = "enable" => left' = 0)
    <3>1. CASE Flush
      <4>1. left' = Max({0, left - n}) /\ pc' = IF left' > 0 THEN "flush" ELSE "enable"
        BY <3>1 DEF Flush, n
      <4>2. left \in Nat /\ left - n \in Int
        BY <1>3 DEF TypeOK
      <4>3. Max({0, left - n}) = IF 0 >= left - n THEN 0 ELSE left - n
        BY <4>2, MinMaxOfTwo
      <4> QED
        BY <4>1, <4>2, <4>3
    <3>2. CASE Steal
      BY <1>3, <1>5, <3>2 DEF Steal, TypeOK
    <3> QED
      BY <3>1, <3>2
  <2>2. \A i \in 1 .. Len(rx') : i > left' => rx'[i] \in NotJunk
    <3> SUFFICES ASSUME NEW i \in 1 .. Len(rx'), i > left' PROVE rx'[i] \in NotJunk
      OBVIOUS
    <3>1. n + i \in 1 .. Len(rx) /\ n + i > left
      BY <1>3, <2>1
    <3> QED
      BY <1>3, <1>5, <3>1 DEF JunkInv
  <2>3. pc' = "enable" => rx' \in Seq(NotJunk)
    <3> SUFFICES ASSUME pc' = "enable" PROVE rx' \in Seq(NotJunk)
      OBVIOUS
    <3>1. \A i \in 1 .. Len(rx') : rx'[i] \in NotJunk
      BY <1>3, <2>1, <2>2
    <3> QED
      BY <1>3, <3>1
  <2> QED
    BY <1>1, <1>2, <1>5, <2>1, <2>2, <2>3 DEF JunkInv, SaidUnasked
<1> QED
  BY <1>1, <1>4, <1>5

(* A byte that arrives is not junk: junk is what had arrived.               *)
LEMMA ArrivesNoJunk == TypeOK /\ JunkInv /\ Arrive => JunkInv'
<1> SUFFICES ASSUME TypeOK, JunkInv, Arrive PROVE JunkInv'
  OBVIOUS
<1>1. /\ out # <<>> /\ out' = Tail(out) /\ (rx' = Append(rx, Head(out)) \/ rx' = rx)
      /\ UNCHANGED <<pc, left, printed, lastbyte, junk>>
  BY DEF Arrive, history
<1>2. NotJunk' = NotJunk
  BY <1>1 DEF NotJunk
<1>3. /\ Len(rx) \in Nat /\ Len(out) \in Nat \ {0}
      /\ Len(Tail(out)) = Len(out) - 1 /\ \A i \in 1 .. Len(Tail(out)) : Tail(out)[i] = out[i + 1]
      /\ Head(out) = out[1]
  BY <1>1, HeadTailProperties, EmptySeq, LenProperties DEF TypeOK
<1>4. Head(out) \in NotJunk /\ Tail(out) \in Seq(NotJunk)
  BY <1>1, HeadTailProperties DEF JunkInv
<1>5. /\ Len(Append(rx, Head(out))) = Len(rx) + 1
      /\ \A i \in 1 .. Len(rx) : Append(rx, Head(out))[i] = rx[i]
      /\ Append(rx, Head(out))[Len(rx) + 1] = Head(out)
  <2>1. rx \in Seq(Byte) /\ Head(out) \in Byte
    BY <1>4 DEF TypeOK, NotJunk
  <2> QED
    BY <2>1, AppendProperties
<1>6. SaidUnasked'
  <2> SUFFICES ASSUME pc \in {"start", "count"}
               PROVE  /\ \A i \in 1 .. Len(rx') : rx'[i].of = 0 /\ rx'[i].nth > 0
                      /\ \A i \in 1 .. Len(out') : out'[i].of = 0 /\ out'[i].nth > 0
                      /\ \A i \in 1 .. Len(rx'), j \in 1 .. Len(out') : rx'[i].nth # out'[j].nth
                      /\ \A i, j \in 1 .. Len(out') : i # j => out'[i].nth # out'[j].nth
    BY <1>1 DEF JunkInv, SaidUnasked
  <2>1. /\ \A i \in 1 .. Len(rx) : rx[i].of = 0 /\ rx[i].nth > 0
        /\ \A i \in 1 .. Len(out) : out[i].of = 0 /\ out[i].nth > 0
        /\ \A i \in 1 .. Len(rx), j \in 1 .. Len(out) : rx[i].nth # out[j].nth
        /\ \A i, j \in 1 .. Len(out) : i # j => out[i].nth # out[j].nth
    BY DEF JunkInv, SaidUnasked
  <2>2. /\ Len(out') = Len(out) - 1 /\ \A j \in 1 .. Len(out') : out'[j] = out[j + 1]
        /\ \A j \in 1 .. Len(out') : j + 1 \in 1 .. Len(out) /\ j + 1 # 1
    BY <1>1, <1>3
  <2>3. \A i \in 1 .. Len(rx') : (i \in 1 .. Len(rx) /\ rx'[i] = rx[i]) \/ rx'[i] = out[1]
    BY <1>1, <1>3, <1>5
  <2>4. 1 \in 1 .. Len(out)
    BY <1>3
  <2>5. \A i \in 1 .. Len(rx') : rx'[i].of = 0 /\ rx'[i].nth > 0
    BY <2>1, <2>3, <2>4
  <2>6. \A i \in 1 .. Len(rx'), j \in 1 .. Len(out') : rx'[i].nth # out'[j].nth
    BY <2>1, <2>2, <2>3, <2>4
  <2>7. \A i, j \in 1 .. Len(out') : i # j => i + 1 # j + 1
    BY <2>2, <1>3
  <2>8. \A i \in 1 .. Len(out') : out'[i].of = 0 /\ out'[i].nth > 0
    BY <2>1, <2>2
  <2>9. \A i, j \in 1 .. Len(out') : i # j => out'[i].nth # out'[j].nth
    <3> SUFFICES ASSUME NEW i \in 1 .. Len(out'), NEW j \in 1 .. Len(out'), i # j
                 PROVE  out'[i].nth # out'[j].nth
      OBVIOUS
    <3>1. /\ i + 1 \in 1 .. Len(out) /\ j + 1 \in 1 .. Len(out) /\ i + 1 # j + 1
          /\ out'[i] = out[i + 1] /\ out'[j] = out[j + 1]
      BY <2>2, <2>7
    <3>2. out[i + 1].nth # out[j + 1].nth
      BY <2>1, <3>1
    <3> QED
      BY <3>1, <3>2
  <2> QED
    BY <2>5, <2>6, <2>8, <2>9
<1>7. pc # "flush" => rx' \in Seq(NotJunk)
  <2>1. pc # "flush" => rx \in Seq(NotJunk) /\ Append(rx, Head(out)) \in Seq(NotJunk)
    BY <1>4, AppendProperties DEF JunkInv
  <2> QED
    BY <1>1, <2>1
<1>8. pc = "flush" => \A i \in 1 .. Len(rx') : i > left => rx'[i] \in NotJunk
  <2> SUFFICES ASSUME pc = "flush", NEW i \in 1 .. Len(rx'), i > left PROVE rx'[i] \in NotJunk
    OBVIOUS
  <2>1. \A k \in 1 .. Len(rx) : k > left => rx[k] \in NotJunk
    BY DEF JunkInv
  <2>2. (i \in 1 .. Len(rx) /\ rx'[i] = rx[i]) \/ rx'[i] = Head(out)
    BY <1>1, <1>3, <1>5
  <2> QED
    BY <1>4, <2>1, <2>2
<1> QED
  BY <1>1, <1>2, <1>4, <1>6, <1>7, <1>8 DEF JunkInv

(* Whatever had arrived before the flush began is never taken for an        *)
(* answer, however many reads it takes and whoever else reads.              *)
THEOREM JunkThrownAway == Spec => []JunkIsFlushed
<1>1. TypeOK /\ JunkInv /\ [Next]_vars => JunkInv'
  <2> SUFFICES ASSUME TypeOK, JunkInv, [Next]_vars PROVE JunkInv'
    OBVIOUS
  <2>1. CASE Open
    <3>1. /\ pc' = "count" /\ pc = "start" /\ UNCHANGED <<rx, out, printed, lastbyte, junk>>
      BY <2>1 DEF Open, history
    <3> QED
      BY <3>1 DEF JunkInv, SaidUnasked, NotJunk
  <2>2. CASE UNCHANGED junk /\ pc # "flush"
             /\ pc' \notin {"start", "count", "flush"}
    <3>1. PICK S : S = NotJunk
      OBVIOUS
    <3>2. S = NotJunk' /\ \A j \in junk' : j.of = 0 /\ j.nth > 0
      BY <2>2, <3>1 DEF NotJunk, JunkInv
    <3>3. S \in SUBSET Byte /\ (\A b \in S : CrToLf(b) \in S) /\ Stray \subseteq S
      BY <3>1, NotJunkClosed DEF JunkInv
    <3>4. rx \in Seq(S) /\ out \in Seq(S) /\ printed \in Seq(S) /\ lastbyte \in S
      BY <2>2, <3>1 DEF JunkInv
    <3>5. Speak => answer' \in Seq(S)
      <4> SUFFICES ASSUME Speak PROVE answer' \in Seq(S)
        OBVIOUS
      <4>1. PICK m \in Messages :
              /\ answer' \in Seq(Byte) /\ Len(answer') = Len(m)
              /\ \A i \in 1 .. Len(m) : answer'[i] = [of |-> cmd, nth |-> i, is |-> m[i]]
        BY CameraSpeaks
      <4>2. cmd # 0
        BY DEF Speak, TypeOK
      <4>3. ASSUME NEW i \in 1 .. Len(answer')
            PROVE  answer'[i] \in Byte /\ answer'[i].of # 0
        <5>1. answer'[i] = [of |-> cmd, nth |-> i, is |-> m[i]] /\ answer'[i] \in Byte
          BY <4>1, ElementOfSeq
        <5>2. answer'[i].of = cmd
          BY <5>1
        <5> QED
          BY <4>2, <5>1, <5>2
      <4>4. \A i \in 1 .. Len(answer') : answer'[i] \in S
        BY <3>1, <4>3 DEF NotJunk, JunkInv
      <4> QED
        BY <4>1, <4>4
    <3>6. rx' \in Seq(S) /\ out' \in Seq(S) /\ printed' \in Seq(S) /\ lastbyte' \in S
      BY <3>3, <3>4, <3>5, StreamsKept
    <3> QED
      BY <2>2, <3>2, <3>6 DEF JunkInv, SaidUnasked
  <2>3. CASE UNCHANGED vars
    BY <2>3 DEF vars, link, history, JunkInv, SaidUnasked, NotJunk
  <2> QED
    BY <2>1, <2>2, <2>3, FlushSteps, CountMakesJunk, FlushTakesJunk, ArrivesNoJunk
<1>2. JunkInv => JunkIsFlushed
  BY DEF JunkInv, JunkIsFlushed, ToSet, NotJunk
<1> QED
  BY <1>1, <1>2, JunkInit, SerialTypeCorrect, PTL DEF Spec

-----------------------------------------------------------------------------
(* Bytes of no later command than c.                                        *)
UpTo(c) == {b \in Byte : b.of <= c}

(* Every byte under way, printed or remembered is of a command there was.   *)
Numbered ==
  rx \in Seq(UpTo(cmd)) /\ out \in Seq(UpTo(cmd)) /\ printed \in Seq(UpTo(cmd))
  /\ lastbyte \in UpTo(cmd)

(* The first command comes after the flush, with reception enabled.         *)
Phases ==
  /\ pc \in {"start", "count", "flush", "enable"} => cmd = 0
  /\ pc \in {"send", "frame", "wait", "pause", "read", "more"} => cmd > 0
  /\ pc \notin {"count", "flush", "enable"} => enabled
  /\ cmd = 0 => answer = <<>> /\ printed = <<>>

(* What is printed is the beginning of the answer, the rest is under way.   *)
InOrder ==
  \E said \in Seq(Byte) : answer = said \o (rx \o out) /\ Words(printed) = Words(said)

(* A wait character ends an answer.                                         *)
WaitIsLast == \A i \in 1 .. Len(answer) : answer[i].is = "wait" => i = Len(answer)

(* Back from a command, nothing is under way;                               *)
BackWhenQuiet == pc \in {"prompt", "done"} => Quiet

(* nor is there when this answer's wait character was the last byte read.   *)
EndedByWait == lastbyte.of = cmd /\ lastbyte.is = "wait" => Quiet /\ answer # <<>>

(* All that, but for a command that something disturbed.                    *)
Undisturbed == cmd > 0 /\ spoiled = {} => InOrder /\ WaitIsLast /\ BackWhenQuiet /\ EndedByWait

(* The inductive invariant.                                                 *)
AnswerInv == TypeOK /\ CommandType /\ Numbered /\ Phases /\ Undisturbed

(* Bytes are numbered whatever their kind, and one nobody sent is of none.  *)
LEMMA UpToClosed ==
  ASSUME NEW c \in Nat
  PROVE  /\ UpTo(c) \in SUBSET Byte /\ (\A b \in UpTo(c) : CrToLf(b) \in UpTo(c))
         /\ Stray \subseteq UpTo(c)
<1>1. \A b \in UpTo(c) : CrToLf(b) \in UpTo(c)
  <2> SUFFICES ASSUME NEW b \in UpTo(c) PROVE CrToLf(b) \in UpTo(c)
    OBVIOUS
  <2>1. b \in Byte /\ CrToLf(b) \in Byte
    BY ByteClosed DEF UpTo
  <2>2. CrToLf(b).of = b.of
    BY <2>1 DEF CrToLf, Byte
  <2> QED
    BY <2>1, <2>2 DEF UpTo
<1>2. Stray \subseteq UpTo(c)
  <2> SUFFICES ASSUME NEW b \in Stray PROVE b \in UpTo(c)
    OBVIOUS
  <2>1. b \in Byte /\ b.of = 0
    BY ByteClosed DEF Stray
  <2> QED
    BY <2>1 DEF UpTo
<1> QED
  BY <1>1, <1>2 DEF UpTo

(* A command begins with nothing said, and is one more.                     *)
LEMMA CommandBegins ==
  ASSUME TakeLine \/ Listen
  PROVE  /\ cmd' = cmd + 1 /\ pc = "prompt" /\ pc' \in {"send", "wait"}
         /\ answer' = <<>> /\ printed' = <<>> /\ spoiled' = IF Quiet THEN {} ELSE {"leftover"}
         /\ UNCHANGED <<rx, out, enabled, lastbyte, opt>>
BY DEF TakeLine, Listen, Begin, link

(* Every other step leaves the command its number.                          *)
LEMMA CommandGoesOn ==
  ASSUME [Next]_vars, ~TakeLine, ~Listen PROVE UNCHANGED <<cmd, opt>>
BY CommandSteps DEF Send, command, input

(* Numbered is kept.                                                        *)
LEMMA NumberedKept == TypeOK /\ Numbered /\ [Next]_vars => Numbered'
<1> SUFFICES ASSUME TypeOK, Numbered, [Next]_vars PROVE Numbered'
  OBVIOUS
<1>1. cmd \in 0 .. MaxCommands /\ cmd \in Nat /\ cmd \in Int
  BY DEF TypeOK
<1>2. CASE TakeLine \/ Listen
  <2>1. UpTo(cmd) \subseteq UpTo(cmd + 1)
    BY <1>1 DEF UpTo, Byte
  <2>2. /\ rx \in Seq(UpTo(cmd + 1)) /\ out \in Seq(UpTo(cmd + 1))
        /\ <<>> \in Seq(UpTo(cmd + 1)) /\ lastbyte \in UpTo(cmd + 1)
    BY <2>1, SeqMonotonic, EmptySeq DEF Numbered
  <2> QED
    BY <1>2, <2>2, CommandBegins DEF Numbered
<1>3. CASE ~TakeLine /\ ~Listen
  <2>1. PICK S : S = UpTo(cmd)
    OBVIOUS
  <2>2. S = UpTo(cmd')
    BY <1>3, <2>1, CommandGoesOn
  <2>3. S \in SUBSET Byte /\ (\A b \in S : CrToLf(b) \in S) /\ Stray \subseteq S
    BY <1>1, <2>1, UpToClosed
  <2>4. rx \in Seq(S) /\ out \in Seq(S) /\ printed \in Seq(S) /\ lastbyte \in S
    BY <2>1 DEF Numbered
  <2>5. Speak => answer' \in Seq(S)
    <3> SUFFICES ASSUME Speak PROVE answer' \in Seq(S)
      OBVIOUS
    <3>1. PICK m \in Messages :
            /\ answer' \in Seq(Byte) /\ Len(answer') = Len(m)
            /\ \A i \in 1 .. Len(m) : answer'[i] = [of |-> cmd, nth |-> i, is |-> m[i]]
      BY CameraSpeaks
    <3>2. ASSUME NEW i \in 1 .. Len(answer') PROVE answer'[i] \in S
      <4>1. answer'[i] = [of |-> cmd, nth |-> i, is |-> m[i]] /\ answer'[i] \in Byte
        BY <3>1, ElementOfSeq
      <4>2. answer'[i].of = cmd
        BY <4>1
      <4> QED
        BY <1>1, <2>1, <4>1, <4>2 DEF UpTo
    <3> QED
      BY <3>1, <3>2
  <2>6. rx' \in Seq(S) /\ out' \in Seq(S) /\ printed' \in Seq(S) /\ lastbyte' \in S
    BY <2>3, <2>4, <2>5, StreamsKept
  <2> QED
    BY <2>2, <2>6 DEF Numbered
<1> QED
  BY <1>2, <1>3

(* Phases is kept.                                                          *)
LEMMA PhasesKept == TypeOK /\ Phases /\ [Next]_vars => Phases'
<1> SUFFICES ASSUME TypeOK, Phases, [Next]_vars PROVE Phases'
  OBVIOUS
<1>0. cmd \in Nat
  BY DEF TypeOK
<1>1. CASE TakeLine \/ Listen
  BY <1>0, <1>1, CommandBegins DEF Phases
<1>2. CASE OpenFails \/ Open \/ Count \/ Flush \/ Enable \/ EndOfInput
  BY <1>2 DEF OpenFails, Open, Count, Flush, Enable, EndOfInput, link, input, history, Phases
<1>3. CASE Send \/ Wait \/ PressReturn
  BY <1>3 DEF Send, Wait, PressReturn, link, input, history, Phases
<1>4. CASE ReadFrame \/ Read \/ More
  BY <1>4 DEF ReadFrame, Read, More, link, input, Phases
<1>5. CASE Speak
  BY <1>0, <1>5 DEF Speak, input, Phases
<1>6. CASE Arrive \/ Steal
  BY <1>6 DEF Arrive, Steal, input, history, Phases
<1>7. CASE UNCHANGED vars
  BY <1>7 DEF vars, link, input, history, Phases
<1> QED
  BY <1>1, <1>2, <1>3, <1>4, <1>5, <1>6, <1>7, Zenon DEF Next, Tool

-----------------------------------------------------------------------------
(* Laws of concatenation and of words, for bytes.                           *)
LEMMA ByteConcat == \A s, t, u \in Seq(Byte) : (s \o t) \o u = s \o (t \o u)
BY ConcatAssociative

(* Words are counted on their own in each of two texts.                     *)
LEMMA WordsOfConcat == \A s, t \in Seq(Byte) : Words(s \o t) = Words(s) \o Words(t)
<1> SUFFICES ASSUME NEW s \in Seq(Byte), NEW t \in Seq(Byte)
             PROVE  Words(s \o t) = Words(s) \o Words(t)
  OBVIOUS
<1> DEFINE ends == {"cr", "lf"}
<1>1. Words(s) = Without(ends, s) /\ Words(t) = Without(ends, t)
      /\ Words(s \o t) = Without(ends, s \o t)
  BY DEF Words
<1> HIDE DEF ends
<1>2. Without(ends, s \o t) = Without(ends, s) \o Without(ends, t)
  BY WithoutOfConcat
<1> QED
  BY <1>1, <1>2

(* What is read of the bytes under way is next in the answer.               *)
LEMMA ReadInOrder ==
  ASSUME TypeOK, InOrder, NEW part \in Seq(Byte), NEW rest \in Seq(Byte), rx = part \o rest,
         NEW shown \in Seq(Byte), Words(shown) = Words(part),
         rx' = rest, out' = out, answer' = answer, printed' = printed \o shown
  PROVE  /\ InOrder'
         /\ \E said \in Seq(Byte) : answer = said \o (part \o (rest \o out))
<1>1. PICK said \in Seq(Byte) : answer = said \o (rx \o out) /\ Words(printed) = Words(said)
  BY DEF InOrder
<1>2. out \in Seq(Byte) /\ printed \in Seq(Byte)
  BY DEF TypeOK
<1>3. rest \o out \in Seq(Byte) /\ said \o part \in Seq(Byte)
  BY <1>2, ConcatProperties
<1>4. rx \o out = part \o (rest \o out)
  <2>1. (part \o rest) \o out = part \o (rest \o out)
    BY <1>2, ByteConcat, Zenon
  <2> QED
    BY <2>1
<1>5. answer = (said \o part) \o (rest \o out)
  <2>1. said \o (part \o (rest \o out)) = (said \o part) \o (rest \o out)
    BY <1>3, ByteConcat, Zenon
  <2> QED
    BY <1>1, <1>4, <2>1, Zenon
<1>6. Words(printed \o shown) = Words(said \o part)
  <2>1. Words(printed \o shown) = Words(printed) \o Words(shown)
        /\ Words(said \o part) = Words(said) \o Words(part)
    BY <1>2, WordsOfConcat, Zenon
  <2> QED
    BY <1>1, <2>1, Zenon
<1>7. InOrder'
  BY <1>3, <1>5, <1>6 DEF InOrder
<1> QED
  BY <1>1, <1>4, <1>7

(* The last byte of a part of the answer, when it is a wait character, has  *)
(* nothing behind it.                                                       *)
LEMMA NothingBehindWait ==
  ASSUME WaitIsLast, NEW said \in Seq(Byte), NEW part \in Seq(Byte), NEW rest \in Seq(Byte),
         answer = said \o (part \o rest), part # <<>>, Last(part).is = "wait"
  PROVE  rest = <<>> /\ answer # <<>>
<1>1. Len(said) \in Nat /\ Len(part) \in Nat \ {0} /\ Len(rest) \in Nat
  BY EmptySeq, LenProperties
<1>2. /\ part \o rest \in Seq(Byte) /\ Len(part \o rest) = Len(part) + Len(rest)
      /\ (part \o rest)[Len(part)] = part[Len(part)]
  <2>1. /\ part \o rest \in Seq(Byte) /\ Len(part \o rest) = Len(part) + Len(rest)
        /\ \A i \in 1 .. Len(part) + Len(rest) :
             (part \o rest)[i] = IF i <= Len(part) THEN part[i] ELSE rest[i - Len(part)]
    BY ConcatProperties
  <2>2. Len(part) \in 1 .. Len(part) + Len(rest)
    BY <1>1
  <2> QED
    BY <1>1, <2>1, <2>2
<1>3. /\ Len(answer) = Len(said) + (Len(part) + Len(rest))
      /\ answer[Len(said) + Len(part)] = part[Len(part)]
  <2>1. /\ Len(answer) = Len(said) + Len(part \o rest)
        /\ \A i \in 1 .. Len(said) + Len(part \o rest) :
             answer[i] = IF i <= Len(said) THEN said[i] ELSE (part \o rest)[i - Len(said)]
    BY <1>2, ConcatProperties
  <2>2. /\ Len(said) + Len(part) \in 1 .. Len(said) + Len(part \o rest)
        /\ ~(Len(said) + Len(part) <= Len(said))
        /\ (Len(said) + Len(part)) - Len(said) = Len(part)
    BY <1>1, <1>2
  <2>3. answer[Len(said) + Len(part)] = (part \o rest)[(Len(said) + Len(part)) - Len(said)]
    BY <2>1, <2>2
  <2> QED
    BY <1>2, <2>1, <2>2, <2>3
<1>4. answer[Len(said) + Len(part)].is = "wait"
  BY <1>3 DEF Last
<1>5. Len(said) + Len(part) = Len(answer)
  <2>1. Len(said) + Len(part) \in 1 .. Len(answer)
    BY <1>1, <1>3
  <2> QED
    BY <1>4, <2>1 DEF WaitIsLast
<1>6. Len(rest) = 0 /\ Len(answer) # 0
  BY <1>1, <1>3, <1>5
<1> QED
  BY <1>6, EmptySeq

(* A command just begun.                                                    *)
LEMMA UndisturbedAtFirst == AnswerInv /\ (TakeLine \/ Listen) => Undisturbed'
<1> SUFFICES ASSUME AnswerInv, TakeLine \/ Listen, spoiled' = {}
             PROVE  InOrder' /\ WaitIsLast' /\ BackWhenQuiet' /\ EndedByWait'
  BY DEF Undisturbed
<1>1. rx' = <<>> /\ out' = <<>> /\ answer' = <<>> /\ printed' = <<>>
  BY CommandBegins DEF Quiet
<1>2. InOrder'
  <2>1. <<>> \in Seq(Byte) /\ <<>> \o (<<>> \o <<>>) = <<>>
    BY EmptySeq, ConcatEmptySeq
  <2> QED
    BY <1>1, <2>1 DEF InOrder
<1>3. WaitIsLast' /\ BackWhenQuiet'
  BY <1>1, EmptySeq, CommandBegins DEF WaitIsLast, BackWhenQuiet
<1>4. lastbyte'.of # cmd'
  <2>1. lastbyte' = lastbyte /\ cmd' = cmd + 1 /\ cmd \in Nat
    BY CommandBegins DEF AnswerInv, TypeOK
  <2>2. lastbyte.of \in Nat /\ lastbyte.of <= cmd
    BY DEF AnswerInv, Numbered, UpTo, Byte
  <2> QED
    BY <2>1, <2>2
<1> QED
  BY <1>2, <1>3, <1>4 DEF EndedByWait

(* The tool reads what there is, and prints it.                             *)
LEMMA UndisturbedByRead ==
  ASSUME AnswerInv, Read, cmd > 0, spoiled' = {}
  PROVE  InOrder' /\ WaitIsLast' /\ BackWhenQuiet' /\ EndedByWait'
<1>1. spoiled = {} /\ ~HasNul(Chunk) /\ Len(Chunk) # BufSize
  BY DEF Read
<1>2. InOrder /\ WaitIsLast /\ EndedByWait
  BY <1>1 DEF AnswerInv, Undisturbed
<1>3. /\ Chunk \in Seq(Byte) /\ After(Chunk) \in Seq(Byte) /\ Chunk \o After(Chunk) = rx
      /\ Len(Chunk) \in Nat /\ Len(Chunk) <= BufSize /\ (rx # <<>> => Chunk # <<>>)
  BY ChunkOfRx, LenProperties DEF AnswerInv, TypeOK
<1>4. Len(Chunk) < BufSize
  BY <1>1, <1>3, SerialToolAssumption
<1>5. PICK shown \in Seq(Byte) :
        /\ Words(shown) = Words(Chunk) /\ printed' = printed \o shown
        /\ lastbyte' = IF Chunk = <<>> THEN lastbyte ELSE Last(Chunk)
  <2>1. PICK text \in Texts(Chunk) :
          /\ lastbyte' = IF text = <<>> THEN lastbyte ELSE Last(text)
          /\ printed' = printed \o IF opt.hexin \/ opt.basler THEN Chunk ELSE Printified(text)
    BY DEF Read
  <2>2. text = Chunk
    BY <1>1, <1>3, <1>4, <2>1, ByteClosed, TextsType
  <2>3. Printified(Chunk) \in Seq(Byte) /\ Words(Printified(Chunk)) = Words(Chunk)
    BY <1>3, ByteClosed, PrintifiedText
  <2> QED
    BY <1>3, <2>1, <2>2, <2>3
<1>6. rx' = After(Chunk) /\ UNCHANGED <<out, answer, cmd>> /\ pc' = "more"
  BY DEF Read, input
<1>7. /\ InOrder'
      /\ \E said \in Seq(Byte) : answer = said \o (Chunk \o (After(Chunk) \o out))
  BY <1>2, <1>3, <1>5, <1>6, ReadInOrder DEF AnswerInv
<1>8. EndedByWait'
  <2>1. CASE Chunk = <<>>
    <3>1. rx = <<>> /\ rx' = <<>>
      BY <1>3, <1>6, <2>1, EmptySeq, ConcatEmptySeq
    <3> QED
      BY <1>2, <1>5, <1>6, <2>1, <3>1 DEF EndedByWait, Quiet
  <2>2. CASE Chunk # <<>> /\ Last(Chunk).is = "wait"
    <3>1. PICK said \in Seq(Byte) : answer = said \o (Chunk \o (After(Chunk) \o out))
      BY <1>7
    <3>2. out \in Seq(Byte) /\ After(Chunk) \o out \in Seq(Byte)
      BY <1>3, ConcatProperties DEF AnswerInv, TypeOK
    <3>3. After(Chunk) \o out = <<>> /\ answer # <<>>
      BY <1>2, <1>3, <2>2, <3>1, <3>2, NothingBehindWait
    <3>4. After(Chunk) = <<>> /\ out = <<>>
      BY <1>3, <3>2, <3>3, ConcatEqualIffEmpty
    <3> QED
      BY <1>6, <3>3, <3>4 DEF EndedByWait, Quiet
  <2>3. CASE Chunk # <<>> /\ Last(Chunk).is # "wait"
    BY <1>5, <2>3 DEF EndedByWait
  <2> QED
    BY <2>1, <2>2, <2>3
<1> QED
  BY <1>2, <1>6, <1>7, <1>8 DEF WaitIsLast, BackWhenQuiet

(* In framed mode some of it, as it is.                                     *)
LEMMA UndisturbedByReadFrame ==
  ASSUME AnswerInv, ReadFrame, cmd > 0, spoiled' = {}
  PROVE  InOrder' /\ WaitIsLast' /\ BackWhenQuiet' /\ EndedByWait'
<1>1. PICK k \in 0 .. Len(rx) :
        /\ rx' = SubSeq(rx, k + 1, Len(rx)) /\ printed' = printed \o SubSeq(rx, 1, k)
        /\ spoiled' = spoiled \cup IF rx' = <<>> /\ out = <<>> THEN {} ELSE {"timeout"}
  BY DEF ReadFrame
<1>2. spoiled = {} /\ rx' = <<>> /\ out = <<>> /\ UNCHANGED <<out, answer, cmd, lastbyte>>
  BY <1>1 DEF ReadFrame, input
<1>3. InOrder /\ WaitIsLast /\ EndedByWait
  BY <1>2 DEF AnswerInv, Undisturbed
<1>4. /\ SubSeq(rx, 1, k) \in Seq(Byte) /\ SubSeq(rx, k + 1, Len(rx)) \in Seq(Byte)
      /\ rx = SubSeq(rx, 1, k) \o SubSeq(rx, k + 1, Len(rx))
  BY Cut DEF AnswerInv, TypeOK
<1>5. InOrder'
  BY <1>1, <1>2, <1>3, <1>4, ReadInOrder DEF AnswerInv
<1> QED
  BY <1>2, <1>3, <1>5 DEF WaitIsLast, BackWhenQuiet, EndedByWait, Quiet

(* The loop ends at a wait character with nothing behind it, or after a     *)
(* wait that the answer does not outlast.                                   *)
LEMMA UndisturbedByMore ==
  ASSUME AnswerInv, More, cmd > 0, spoiled' = {}
  PROVE  InOrder' /\ WaitIsLast' /\ BackWhenQuiet' /\ EndedByWait'
<1>1. spoiled = {} /\ UNCHANGED <<rx, out, answer, printed, cmd, lastbyte>>
  BY DEF More, link, input
<1>2. InOrder /\ WaitIsLast /\ EndedByWait
  BY <1>1 DEF AnswerInv, Undisturbed
<1>3. pc' = "read" \/ Quiet
  <2>1. CASE ~(~WaitCharSeen /\ rx # <<>>)
    <3>1. spoiled' = spoiled \cup
               IF Quiet THEN {}
               ELSE IF ~WaitCharSeen THEN {"timeout"}
               ELSE IF lastbyte.of # cmd THEN {"stale"} ELSE {}
      BY <2>1 DEF More
    <3>2. Quiet \/ (lastbyte.of = cmd /\ lastbyte.is = "wait")
      BY <3>1 DEF WaitCharSeen
    <3> QED
      BY <1>2, <3>2 DEF EndedByWait
  <2>2. CASE ~WaitCharSeen /\ rx # <<>>
    BY <2>2 DEF More
  <2> QED
    BY <2>1, <2>2
<1> QED
  BY <1>1, <1>2, <1>3 DEF InOrder, WaitIsLast, BackWhenQuiet, EndedByWait, Quiet

(* The camera answers, once, before the tool is back.                       *)
LEMMA UndisturbedBySpeak ==
  ASSUME AnswerInv, Speak, cmd > 0, spoiled' = {}
  PROVE  InOrder' /\ WaitIsLast' /\ BackWhenQuiet' /\ EndedByWait'
<1>1. /\ spoiled = {} /\ pc # "prompt" /\ pc # "done" /\ answer = <<>>
      /\ UNCHANGED <<pc, rx, cmd, lastbyte, printed>>
  BY DEF Speak, input
<1>2. InOrder /\ EndedByWait
  BY <1>1 DEF AnswerInv, Undisturbed
<1>3. PICK m \in Messages :
        /\ m \in Seq(Kinds) /\ answer' \in Seq(Byte) /\ answer' # <<>>
        /\ Len(answer') = Len(m) /\ out' = out \o answer'
        /\ \A i \in 1 .. Len(m) : answer'[i] = [of |-> cmd, nth |-> i, is |-> m[i]]
  BY CameraSpeaks DEF AnswerInv
<1>4. PICK said \in Seq(Byte) : answer = said \o (rx \o out) /\ Words(printed) = Words(said)
  BY <1>2 DEF InOrder
<1>5. rx \in Seq(Byte) /\ out \in Seq(Byte) /\ rx \o out \in Seq(Byte)
  BY ConcatProperties DEF AnswerInv, TypeOK
<1>6. said = <<>> /\ rx \o out = <<>>
  BY <1>1, <1>4, <1>5, ConcatEqualIffEmpty
<1>7. rx = <<>> /\ out = <<>>
  BY <1>5, <1>6, ConcatEqualIffEmpty
<1>8. InOrder'
  <2>1. <<>> \o (<<>> \o (<<>> \o answer')) = answer'
    BY <1>3, ConcatEmptySeq
  <2> QED
    BY <1>1, <1>3, <1>4, <1>6, <1>7, <2>1 DEF InOrder
<1>9. WaitIsLast'
  <2> SUFFICES ASSUME NEW i \in 1 .. Len(answer'), answer'[i].is = "wait"
               PROVE  i = Len(answer')
    BY DEF WaitIsLast
  <2>1. m[i] = "wait"
    <3>1. answer'[i] = [of |-> cmd, nth |-> i, is |-> m[i]]
      BY <1>3
    <3> QED
      BY <3>1
  <2>2. Len(m) \in Nat /\ \A j \in 1 .. Len(m) - 1 : m[j] # "wait"
    BY <1>3, WaitCharEnds, LenProperties
  <2> QED
    BY <1>3, <2>1, <2>2
<1>10. BackWhenQuiet' /\ EndedByWait'
  BY <1>1, <1>2 DEF BackWhenQuiet, EndedByWait
<1> QED
  BY <1>8, <1>9, <1>10

(* With reception enabled every byte arrives.                               *)
LEMMA UndisturbedByArrive ==
  ASSUME AnswerInv, Arrive, cmd > 0, spoiled' = {}
  PROVE  InOrder' /\ WaitIsLast' /\ BackWhenQuiet' /\ EndedByWait'
<1>1. enabled
  BY DEF AnswerInv, Phases, TypeOK
<1>2. /\ out # <<>> /\ out' = Tail(out) /\ rx' = Append(rx, Head(out))
      /\ UNCHANGED <<pc, cmd, lastbyte, answer, printed, spoiled>>
  BY <1>1 DEF Arrive, input, history
<1>3. InOrder /\ WaitIsLast /\ BackWhenQuiet /\ EndedByWait
  BY <1>2 DEF AnswerInv, Undisturbed
<1>4. rx' \o out' = rx \o out
  <2>1. rx \in Seq(Byte) /\ out \in Seq(Byte)
    BY DEF AnswerInv, TypeOK
  <2>2. Head(out) \in Byte /\ Tail(out) \in Seq(Byte) /\ <<Head(out)>> \in Seq(Byte)
    BY <1>2, <2>1, HeadTailProperties
  <2>3. out = <<Head(out)>> \o Tail(out)
    BY <1>2, <2>1
  <2>4. Append(rx, Head(out)) = rx \o <<Head(out)>>
    BY <2>1, <2>2, AppendIsConcat
  <2> QED
    BY <1>2, <2>1, <2>2, <2>3, <2>4, ConcatAssociative
<1>5. InOrder' /\ WaitIsLast'
  BY <1>2, <1>3, <1>4 DEF InOrder, WaitIsLast
<1> QED
  BY <1>2, <1>3, <1>5 DEF BackWhenQuiet, EndedByWait, Quiet

(* When the tool comes back from a command, what it has printed is that     *)
(* command's answer, whole and in order, line ends apart, unless something  *)
(* disturbed it.                                                            *)
THEOREM PrintsTheAnswer == Spec => []AnswerPrinted
<1>1. Init => Numbered /\ Phases /\ Undisturbed
  <2> SUFFICES ASSUME Init PROVE Numbered /\ Phases /\ Undisturbed
    OBVIOUS
  <2>1. out \in Seq(Byte) /\ rx \in Seq(Byte)
    BY JunkIsBytes
  <2>2. PICK m \in Seq(Byte) :
          /\ \A i \in 1 .. Len(m) : m[i].of = 0 /\ m[i].nth = i
          /\ \A i \in 1 .. Len(rx) : i <= Len(m) /\ rx[i] = m[i]
          /\ \A i \in 1 .. Len(out) : Len(rx) + i <= Len(m) /\ out[i] = m[Len(rx) + i]
    BY JunkIsBytes
  <2>3. Len(rx) \in Nat /\ Len(out) \in Nat /\ Len(m) \in Nat
    BY <2>1, LenProperties
  <2>4. \A i \in 1 .. Len(rx) : rx[i] \in UpTo(0)
    <3>1. \A i \in 1 .. Len(rx) : rx[i] \in Byte /\ rx[i].of = 0
      BY <2>1, <2>2, <2>3, ElementOfSeq
    <3> QED
      BY <3>1 DEF UpTo
  <2>5. \A i \in 1 .. Len(out) : out[i] \in UpTo(0)
    <3>1. \A i \in 1 .. Len(out) : out[i] \in Byte /\ out[i].of = 0
      BY <2>1, <2>2, <2>3, ElementOfSeq
    <3> QED
      BY <3>1 DEF UpTo
  <2>6. rx \in Seq(UpTo(0)) /\ out \in Seq(UpTo(0))
    BY <2>1, <2>4, <2>5
  <2>7. lastbyte \in UpTo(0) /\ printed \in Seq(UpTo(0)) /\ cmd = 0
    BY UpToClosed, ByteClosed, EmptySeq DEF Init
  <2> QED
    BY <2>6, <2>7 DEF Init, Numbered, Phases, Undisturbed
<1>2. AnswerInv /\ [Next]_vars => Undisturbed'
  <2> SUFFICES ASSUME AnswerInv, [Next]_vars, ~TakeLine, ~Listen, cmd' > 0, spoiled' = {}
               PROVE  InOrder' /\ WaitIsLast' /\ BackWhenQuiet' /\ EndedByWait'
    BY UndisturbedAtFirst DEF Undisturbed
  <2>1. cmd' = cmd /\ cmd > 0 /\ pc \notin {"start", "count", "flush", "enable"}
    BY CommandGoesOn DEF AnswerInv, Phases
  <2>2. CASE Send \/ Wait \/ PressReturn \/ EndOfInput
    <3>1. /\ UNCHANGED <<rx, out, answer, printed, cmd, lastbyte, spoiled>>
          /\ pc' \notin {"prompt", "done"}
      BY <2>2 DEF Send, Wait, PressReturn, EndOfInput, link, input, history
    <3> QED
      BY <2>1, <3>1 DEF AnswerInv, Undisturbed, InOrder, WaitIsLast, BackWhenQuiet, EndedByWait, Quiet
  <2>3. CASE UNCHANGED vars
    BY <2>1, <2>3 DEF vars, link, input, history, AnswerInv, Undisturbed, InOrder, WaitIsLast,
                      BackWhenQuiet, EndedByWait, Quiet
  <2>4. ~OpenFails /\ ~Open /\ ~Count /\ ~Flush /\ ~Enable
    BY <2>1 DEF OpenFails, Open, Count, Flush, Enable
  <2>5. ~Steal
    BY DEF Steal
  <2> QED
    BY <2>1, <2>2, <2>3, <2>4, <2>5, UndisturbedByRead, UndisturbedByReadFrame, UndisturbedByMore,
       UndisturbedBySpeak, UndisturbedByArrive DEF Next, Tool
<1>3. AnswerInv => AnswerPrinted
  <2> SUFFICES ASSUME AnswerInv, pc \in {"prompt", "done"}, spoiled = {}
               PROVE  Words(printed) = Words(answer)
    BY DEF AnswerPrinted
  <2>1. CASE cmd = 0
    BY <2>1 DEF AnswerInv, Phases
  <2>2. CASE cmd > 0
    <3>1. PICK said \in Seq(Byte) : answer = said \o (rx \o out) /\ Words(printed) = Words(said)
      BY <2>2 DEF AnswerInv, Undisturbed, InOrder
    <3>2. rx = <<>> /\ out = <<>>
      BY <2>2 DEF AnswerInv, Undisturbed, BackWhenQuiet, Quiet
    <3>3. said \o (<<>> \o <<>>) = said
      BY EmptySeq, ConcatEmptySeq
    <3> QED
      BY <3>1, <3>2, <3>3
  <2>3. cmd \in Nat
    BY DEF AnswerInv, TypeOK
  <2> QED
    BY <2>1, <2>2, <2>3
<1> QED
  BY <1>1, <1>2, <1>3, NumberedKept, PhasesKept, SerialTypeCorrect, CommandTypeCorrect, PTL
     DEF Spec, AnswerInv
=============================================================================
