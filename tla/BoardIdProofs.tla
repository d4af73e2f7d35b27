---------------------------- MODULE BoardIdProofs ----------------------------
(***************************************************************************)
(* What the lookup of the mezzanine's identity keeps: the type of its      *)
(* variables, however often it is killed or disturbed, and, as long as no   *)
(* other program gets in between, that the answer is the board's and the    *)
(* driver never holds another.                                              *)
(***************************************************************************)
EXTENDS BoardId, WellFoundedInduction, SequenceTheorems, TLAPS

(* Facts about natural numbers that no prover finds by itself.              *)

(* A set of natural numbers has a least element.                            *)
LEMMA LeastNumber ==
  ASSUME NEW S \in SUBSET Nat, S # {}
  PROVE  \E x \in S : \A y \in S : x <= y
<1> DEFINE R == {pair \in Nat \X Nat : pair[1] < pair[2]}
<1>1. IsWellFoundedOn(R, Nat)
  BY NatLessThanWellFounded DEF OpToRel
<1>2. \A x, y \in Nat : y < x => <<y, x>> \in R
  <2> SUFFICES ASSUME NEW x \in Nat, NEW y \in Nat, y < x PROVE <<y, x>> \in R
    OBVIOUS
  <2>1. <<y, x>> \in Nat \X Nat /\ <<y, x>>[1] < <<y, x>>[2]
    OBVIOUS
  <2> QED
    BY <2>1, Zenon DEF R
<1> HIDE DEF R
<1>3. PICK x \in S : \A y \in S : <<y, x>> \notin R
  BY <1>1, WFMin
<1>4. \A y \in S : ~ (y < x)
  BY <1>2, <1>3
<1> QED
  BY <1>3, <1>4

(* Induction, for a set of natural numbers in place of a predicate.         *)
LEMMA NatSetInduction ==
  ASSUME NEW S \in SUBSET Nat, 0 \in S, \A n \in S : n + 1 \in S
  PROVE  S = Nat
<1> SUFFICES ASSUME Nat \ S # {} PROVE FALSE
  OBVIOUS
<1>1. PICK x \in Nat \ S : \A y \in Nat \ S : x <= y
  BY LeastNumber
<1>2. x # 0 /\ x - 1 \in Nat
  BY <1>1
<1>3. x - 1 \in S
  BY <1>1, <1>2
<1> QED
  BY <1>1, <1>2, <1>3

(* The remainder of a number written as a multiple and a rest.              *)
LEMMA Remainder ==
  ASSUME NEW n \in Nat \ {0}, NEW q \in Int, NEW r \in 0 .. n - 1
  PROVE  (n * q + r) % n = r
BY SMT

-----------------------------------------------------------------------------
Bit == {0, 1}

(* The function that Number is the last value of.                           *)
IsValue(f, s) == f = [n \in 0 .. Len(s) |-> IF n = 0 THEN 0 ELSE 2 * f[n - 1] + s[n]]

(* There is one,                                                            *)
LEMMA ValueExists ==
  ASSUME NEW s \in Seq(Bit)
  PROVE  \E f : IsValue(f, s)
<1> DEFINE Upto(f, m) == f = [n \in 0 .. m |-> IF n = 0 THEN 0 ELSE 2 * f[n - 1] + s[n]]
           N == {m \in Nat : \E f : Upto(f, m)}
<1>1. 0 \in N
  <2> DEFINE f == [n \in 0 .. 0 |-> 0]
  <2>1. Upto(f, 0)
    OBVIOUS
  <2> QED
    BY <2>1
<1>2. ASSUME NEW m \in Nat, NEW f, Upto(f, m) PROVE \E g : Upto(g, m + 1)
  <2> DEFINE g == [n \in 0 .. m + 1 |-> IF n = m + 1 THEN 2 * f[m] + s[n] ELSE f[n]]
  <2>1. \A n \in 0 .. m + 1 : g[n] = IF n = 0 THEN 0 ELSE 2 * g[n - 1] + s[n]
    <3> SUFFICES ASSUME NEW n \in 0 .. m + 1
                 PROVE  g[n] = IF n = 0 THEN 0 ELSE 2 * g[n - 1] + s[n]
      OBVIOUS
    <3>1. CASE n = m + 1
      BY <3>1
    <3>2. CASE n \in 0 .. m
      <4>1. g[n] = f[n] /\ (n # 0 => g[n - 1] = f[n - 1])
        BY <3>2
      <4>2. f[n] = IF n = 0 THEN 0 ELSE 2 * f[n - 1] + s[n]
        BY <1>2, <3>2, Zenon
      <4> QED
        BY <4>1, <4>2
    <3> QED
      BY <3>1, <3>2
  <2>2. Upto(g, m + 1)
    <3> DEFINE h == [n \in 0 .. m + 1 |-> IF n = 0 THEN 0 ELSE 2 * g[n - 1] + s[n]]
    <3>1. \A n \in 0 .. m + 1 : g[n] = h[n]
      BY <2>1
    <3>2. g = [n \in 0 .. m + 1 |-> g[n]]
      OBVIOUS
    <3> HIDE DEF g
    <3>3. g = h
      BY <3>1, <3>2
    <3> QED
      BY <3>3
  <2> HIDE DEF g, Upto
  <2> QED
    BY <2>2
<1>3. \A m \in N : m + 1 \in N
  <2> HIDE DEF Upto
  <2> QED
    BY <1>2
<1> HIDE DEF N
<1>4. N = Nat
  <2>1. N \in SUBSET Nat
    BY DEF N
  <2> QED
    BY <1>1, <1>3, <2>1, NatSetInduction
<1>5. Len(s) \in N
  BY <1>4, LenProperties
<1> QED
  BY <1>5 DEF N, IsValue

(* and it is of numbers,                                                    *)
LEMMA ValueType == ASSUME NEW s \in Seq(Bit), NEW f, IsValue(f, s) PROVE f[Len(s)] \in Nat
<1>1. \A n \in 0 .. Len(s) : f[n] = IF n = 0 THEN 0 ELSE 2 * f[n - 1] + s[n]
  BY Zenon DEF IsValue
<1>2. Len(s) \in Nat
  BY LenProperties
<1> DEFINE N == {n \in Nat : n <= Len(s) => f[n] \in Nat}
<1>3. 0 \in N
  BY <1>1, <1>2
<1>4. ASSUME NEW n \in Nat, n <= Len(s) => f[n] \in Nat, n + 1 <= Len(s) PROVE f[n + 1] \in Nat
  <2>1. n + 1 \in 0 .. Len(s) /\ n + 1 \in 1 .. Len(s) /\ n + 1 # 0 /\ (n + 1) - 1 = n
    BY <1>2, <1>4
  <2>2. f[n + 1] = 2 * f[n] + s[n + 1]
    BY <1>1, <2>1
  <2>3. s[n + 1] \in Nat
    BY <2>1, ElementOfSeq DEF Bit
  <2> QED
    BY <1>2, <1>4, <2>2, <2>3
<1>5. \A n \in N : n + 1 \in N
  <2> SUFFICES ASSUME NEW n \in N PROVE n + 1 \in N
    OBVIOUS
  <2>1. n \in Nat /\ n + 1 \in Nat /\ (n + 1 <= Len(s) => n <= Len(s))
    BY <1>2
  <2>2. n + 1 <= Len(s) => f[n + 1] \in Nat
    BY <1>4, <2>1
  <2> QED
    BY <2>1, <2>2
<1> HIDE DEF N
<1>6. N = Nat
  <2>1. N \in SUBSET Nat
    BY DEF N
  <2> QED
    BY <1>3, <1>5, <2>1, NatSetInduction
<1> QED
  BY <1>2, <1>6 DEF N

(* so bits read as a number are one.                                        *)
LEMMA NumberType == ASSUME NEW s \in Seq(Bit) PROVE Number(s) \in Nat
<1> DEFINE value == CHOOSE f : IsValue(f, s)
<1>1. IsValue(value, s)
  BY ValueExists
<1>2. Number(s) = value[Len(s)]
  BY DEF Number, IsValue
<1> HIDE DEF value
<1> QED
  BY <1>1, <1>2, ValueType

(* A word has bits; its fields are numbers.                                 *)
LEMMA WordFields ==
  /\ WordBits \in Nat \ {0}
  /\ \A w \in Seq(Bit) : Len(w) = WordBits => Blocks(w) \in Nat /\ Id(w) \in Nat /\ Rev(w) \in Nat
<1>1. Fields[1] \in Nat \ {0} /\ Fields[2] \in Nat \ {0} /\ Fields[3] \in Nat \ {0}
  <2>1. Len(Fields) = 3 /\ Fields \in Seq(Nat \ {0})
    BY BoardIdAssumption, Zenon
  <2>2. 1 \in 1 .. Len(Fields) /\ 2 \in 1 .. Len(Fields) /\ 3 \in 1 .. Len(Fields)
    BY <2>1
  <2> QED
    BY <2>1, <2>2, ElementOfSeq, Zenon
<1>2. WordBits \in Nat \ {0} /\ Fields[1] + Fields[2] <= WordBits /\ Fields[1] <= WordBits
  BY <1>1 DEF WordBits
<1> SUFFICES ASSUME NEW w \in Seq(Bit), Len(w) = WordBits
             PROVE  Blocks(w) \in Nat /\ Id(w) \in Nat /\ Rev(w) \in Nat
  BY <1>2
<1>3. ASSUME NEW m \in Nat \ {0}, NEW n \in Nat, n <= WordBits PROVE SubSeq(w, m, n) \in Seq(Bit)
  <2>1. \A i \in m .. n : i \in 1 .. Len(w)
    BY <1>2, <1>3
  <2>2. \A i \in m .. n : w[i] \in Bit
    BY <2>1, ElementOfSeq
  <2> QED
    BY <2>2, SubSeqProperties
<1>4. /\ SubSeq(w, 1, Fields[1]) \in Seq(Bit)
      /\ SubSeq(w, Fields[1] + 1, Fields[1] + Fields[2]) \in Seq(Bit)
      /\ SubSeq(w, Fields[1] + Fields[2] + 1, WordBits) \in Seq(Bit)
  BY <1>1, <1>2, <1>3
<1> QED
  BY <1>4, NumberType DEF Blocks, Id, Rev

(* The words of a board, and how many bits they have in all.                *)
Words == board.words
Bits == Len(Words) * WordBits

(* What the assumption says of one board.                                   *)
LEMMA BoardShape ==
  ASSUME board \in Boards
  PROVE  /\ Words \in Seq(Seq(Bit)) /\ Len(Words) \in Nat /\ Bits \in Nat
         /\ \A i \in 1 .. Len(Words) : Words[i] \in Seq(Bit) /\ Len(Words[i]) = WordBits
         /\ Clocks \in Nat /\ Clocks > Bits /\ ~Legal(Undriven)
         /\ Words # <<>> => Len(Words) \in Nat \ {0}
         /\ Words # <<>> /\ Legal(Words[1]) => Blocks(Words[1]) = Len(Words)
         /\ board.id \in Nat /\ board.pins \in {"standard", "3x3g"}
<1>1. /\ Words \in Seq(Seq(Bit)) /\ \A i \in 1 .. Len(Words) : Len(Words[i]) = WordBits
      /\ Clocks > Bits
      /\ Words # <<>> /\ Legal(Words[1]) => Blocks(Words[1]) = Len(Words)
      /\ board.id \in Nat /\ board.pins \in {"standard", "3x3g"}
  BY BoardIdAssumption, Zenon DEF Words, Bits, Bit
<1>2. Clocks \in Nat /\ ~Legal(Undriven)
  BY BoardIdAssumption, Zenon
<1>3. /\ Len(Words) \in Nat /\ \A i \in 1 .. Len(Words) : Words[i] \in Seq(Bit)
      /\ Words # <<>> => Len(Words) \in Nat \ {0}
  BY <1>1, LenProperties, ElementOfSeq, EmptySeq
<1>4. Bits \in Nat
  BY <1>3, WordFields DEF Bits
<1> QED
  BY <1>1, <1>2, <1>3, <1>4

(* Where the bits of a word lie among those of all words.                   *)
LEMMA PlaceOfBit ==
  ASSUME NEW W \in Nat \ {0}, NEW n \in Nat, NEW m \in 0 .. n - 1, NEW j \in 1 .. W
  PROVE  /\ m * W + j \in 1 .. n * W
         /\ (m * W + j - 1) \div W = m /\ (m * W + j - 1) % W = j - 1
<1>1. m * W \in Nat /\ n * W \in Nat
  OBVIOUS
<1>2. m * W + W <= n * W
  <2>1. PICK d \in Nat : n = m + 1 + d
    <3>1. n - m - 1 \in Nat /\ n = m + 1 + (n - m - 1)
      OBVIOUS
    <3> QED
      BY <3>1
  <2>2. n * W = m * W + W + d * W
    BY <2>1
  <2>3. d * W \in Nat
    BY <2>1
  <2> QED
    BY <1>1, <2>2, <2>3
<1>3. m * W + j - 1 = W * m + (j - 1) /\ j - 1 \in 0 .. W - 1
  OBVIOUS
<1>4. (W * m + (j - 1)) % W = j - 1
  BY <1>3, Remainder
<1>5. (W * m + (j - 1)) \div W = m
  BY <1>3
<1> QED
  BY <1>1, <1>2, <1>3, <1>4, <1>5

(* The CPLD's bits are those of its words, one after the other.             *)
LEMMA StoredBits ==
  ASSUME board \in Boards
  PROVE  /\ Len(Stored) = Bits
         /\ \A m \in 0 .. Len(Words) - 1, j \in 1 .. WordBits :
              m * WordBits + j \in 1 .. Bits /\ Stored[m * WordBits + j] = Words[m + 1][j]
<1>1. Len(Words) \in Nat /\ Bits \in Nat /\ WordBits \in Nat \ {0}
  BY BoardShape, WordFields
<1>2. Len(Stored) = Bits
  BY <1>1 DEF Stored, Words, Bits
<1> SUFFICES ASSUME NEW m \in 0 .. Len(Words) - 1, NEW j \in 1 .. WordBits
             PROVE  m * WordBits + j \in 1 .. Bits /\ Stored[m * WordBits + j] = Words[m + 1][j]
  BY <1>2
<1> DEFINE k == m * WordBits + j
<1>3. k \in 1 .. Bits /\ (k - 1) \div WordBits = m /\ (k - 1) % WordBits = j - 1
  BY <1>1, PlaceOfBit DEF Bits
<1> HIDE DEF k
<1>4. Stored[k] = Words[((k - 1) \div WordBits) + 1][((k - 1) % WordBits) + 1]
  BY <1>3 DEF Stored, Words, Bits
<1>5. (j - 1) + 1 = j
  OBVIOUS
<1>6. Stored[k] = Words[m + 1][j]
  BY <1>3, <1>4, <1>5
<1> QED
  BY <1>3, <1>6 DEF k

-----------------------------------------------------------------------------
(* What the register can be told to drive.                                  *)
LEMMA BusesOf == \A ts, clk, data \in BOOLEAN : Bus(ts, clk, data) \in Buses
BY DEF Bus, Buses

(* The same of writes with the clock low and high.                          *)
LEMMA LowHigh == \A ts, data \in BOOLEAN : Low(ts, data) \in Buses /\ High(ts, data) \in Buses
BY BusesOf DEF Low, High

(* A function on 1 .. n is a sequence.                                      *)
LEMMA FunctionIsSeq ==
  ASSUME NEW S, NEW n \in Nat, NEW f \in [1 .. n -> S] PROVE f \in Seq(S) /\ Len(f) = n
OBVIOUS

Pulse(up) == IF up THEN High(TRUE, FALSE) ELSE Low(TRUE, FALSE)

(* Clocks: up and down again.                                               *)
LEMMA PulseWrites ==
  ASSUME NEW n \in Nat
  PROVE  /\ Pulses(n) \in Seq(Buses) /\ Len(Pulses(n)) = 2 * n
         /\ \A i \in 1 .. 2 * n : Pulses(n)[i] = Pulse(i % 2 = 1)
<1>1. \A i \in 1 .. 2 * n : Pulse(i % 2 = 1) \in Buses
  BY LowHigh DEF Pulse
<1>2. 2 * n \in Nat
  OBVIOUS
<1>3. Pulses(n) \in [1 .. 2 * n -> Buses]
  BY <1>1, Zenon DEF Pulses, Pulse
<1>4. \A i \in 1 .. 2 * n : Pulses(n)[i] = Pulse(i % 2 = 1)
  BY Zenon DEF Pulses, Pulse
<1> QED
  BY <1>2, <1>3, <1>4, FunctionIsSeq, Zenon

(* Seven writes, and below five and one, as a sequence.                     *)
LEMMA SevenWrites ==
  ASSUME NEW S, NEW a \in S, NEW b \in S, NEW c \in S, NEW d \in S, NEW e \in S, NEW f \in S,
         NEW g \in S
  PROVE  LET t == <<a, b, c, d, e, f, g>>
         IN /\ t \in Seq(S) /\ Len(t) = 7
            /\ t[1] = a /\ t[2] = b /\ t[3] = c /\ t[4] = d /\ t[5] = e /\ t[6] = f /\ t[7] = g
OBVIOUS

(* The writes of a start.                                                   *)
LEMMA StartSequence ==
  /\ StartWrites \in Seq(Buses) /\ Len(StartWrites) = 7
  /\ StartWrites[1] = Low(TRUE, TRUE) /\ StartWrites[2] = Low(FALSE, TRUE)
  /\ StartWrites[3] = High(FALSE, TRUE) /\ StartWrites[4] = High(FALSE, FALSE)
  /\ StartWrites[5] = Low(FALSE, FALSE) /\ StartWrites[6] = Low(FALSE, TRUE)
  /\ StartWrites[7] = Low(TRUE, TRUE)
<1>1. /\ Low(TRUE, TRUE) \in Buses /\ Low(FALSE, TRUE) \in Buses /\ Low(FALSE, FALSE) \in Buses
      /\ High(FALSE, TRUE) \in Buses /\ High(FALSE, FALSE) \in Buses
  BY LowHigh
<1> QED
  BY <1>1, SevenWrites, Zenon DEF StartWrites

(* Two sequences of writes, one behind the other.                           *)
Joins(u, s, m, t, n) ==
  /\ u \in Seq(Buses) /\ Len(u) = m + n
  /\ \A i \in 1 .. m : u[i] = s[i]
  /\ \A i \in 1 .. n : u[m + i] = t[i]

(* That is what \o does.                                                    *)
LEMMA Joined ==
  ASSUME NEW s \in Seq(Buses), NEW t \in Seq(Buses), NEW m \in Nat, NEW n \in Nat,
         Len(s) = m, Len(t) = n
  PROVE  Joins(s \o t, s, m, t, n)
<1>1. /\ s \o t \in Seq(Buses) /\ Len(s \o t) = m + n
      /\ \A i \in 1 .. m + n : (s \o t)[i] = IF i <= m THEN s[i] ELSE t[i - m]
  BY ConcatProperties
<1>2. \A i \in 1 .. n : m + i \in 1 .. m + n /\ ~(m + i <= m) /\ (m + i) - m = i
  OBVIOUS
<1>3. \A i \in 1 .. m : i \in 1 .. m + n
  OBVIOUS
<1> QED
  BY <1>1, <1>2, <1>3 DEF Joins

(* The clocks of a read end here.                                           *)
ClocksEnd == 7 + 2 * Clocks

(* The writes of a reset: start, clocks, stop and start, two clocks, start. *)
LEMMA ResetSequence ==
  /\ edt_extbdid_reset \in Seq(Buses) /\ Len(edt_extbdid_reset) = ClocksEnd + 18
  /\ \A i \in 1 .. 7 : edt_extbdid_reset[i] = StartWrites[i]
  /\ \A i \in 8 .. ClocksEnd : edt_extbdid_reset[i] = Pulse(i % 2 # 1)
  /\ edt_extbdid_reset[ClocksEnd + 1] = Low(FALSE, FALSE)
  /\ edt_extbdid_reset[ClocksEnd + 2] = High(FALSE, FALSE)
  /\ edt_extbdid_reset[ClocksEnd + 3] = High(FALSE, TRUE)
  /\ edt_extbdid_reset[ClocksEnd + 4] = High(FALSE, FALSE)
  /\ edt_extbdid_reset[ClocksEnd + 5] = Low(FALSE, FALSE)
  /\ edt_extbdid_reset[ClocksEnd + 6] = Low(FALSE, TRUE)
  /\ edt_extbdid_reset[ClocksEnd + 7] = Low(TRUE, TRUE)
  /\ \A i \in 1 .. 4 : edt_extbdid_reset[ClocksEnd + 7 + i] = Pulse(i % 2 = 1)
  /\ \A i \in 1 .. 7 : edt_extbdid_reset[ClocksEnd + 11 + i] = StartWrites[i]
<1> DEFINE S == StartWrites
           P == Pulses(Clocks)
           T == <<Low(FALSE, FALSE), High(FALSE, FALSE), High(FALSE, TRUE), High(FALSE, FALSE),
                  Low(FALSE, FALSE), Low(FALSE, TRUE), Low(TRUE, TRUE)>>
           Q == Pulses(2)
           A == S \o P
           B == A \o T
           C == B \o Q
           D == C \o S
<1>1. D = edt_extbdid_reset
  BY DEF edt_extbdid_reset
<1>2. Clocks \in Nat
  BY BoardIdAssumption, Zenon
<1>3. S \in Seq(Buses) /\ Len(S) = 7
  BY StartSequence
<1>4. P \in Seq(Buses) /\ Len(P) = 2 * Clocks
      /\ \A i \in 1 .. 2 * Clocks : P[i] = Pulse(i % 2 = 1)
  BY <1>2, PulseWrites, Zenon
<1>5. /\ T \in Seq(Buses) /\ Len(T) = 7
      /\ T[1] = Low(FALSE, FALSE) /\ T[2] = High(FALSE, FALSE) /\ T[3] = High(FALSE, TRUE)
      /\ T[4] = High(FALSE, FALSE) /\ T[5] = Low(FALSE, FALSE) /\ T[6] = Low(FALSE, TRUE)
      /\ T[7] = Low(TRUE, TRUE)
  <2>1. /\ Low(TRUE, TRUE) \in Buses /\ Low(FALSE, TRUE) \in Buses /\ Low(FALSE, FALSE) \in Buses
        /\ High(FALSE, TRUE) \in Buses /\ High(FALSE, FALSE) \in Buses
    BY LowHigh
  <2> QED
    BY <2>1, SevenWrites, Zenon
<1>6. Q \in Seq(Buses) /\ Len(Q) = 4 /\ \A i \in 1 .. 4 : Q[i] = Pulse(i % 2 = 1)
  <2>1. 2 \in Nat /\ 2 * 2 = 4
    OBVIOUS
  <2>2. /\ Q \in Seq(Buses) /\ Len(Q) = 2 * 2
        /\ \A i \in 1 .. 2 * 2 : Q[i] = Pulse(i % 2 = 1)
    BY <2>1, PulseWrites, Zenon
  <2> QED
    BY <2>1, <2>2, Zenon
<1> HIDE DEF S, P, T, Q
<1> DEFINE c == 2 * Clocks
<1>7. /\ c \in Nat /\ 7 + c \in Nat /\ 7 + c + 7 \in Nat /\ 7 + c + 7 + 4 \in Nat
      /\ 7 \in Nat /\ 4 \in Nat
  BY <1>2
<1> HIDE DEF c
<1>8. Joins(A, S, 7, P, c)
  <2>1. Len(P) = c
    BY <1>4 DEF c
  <2> QED
    BY <1>3, <1>4, <1>7, <2>1, Joined, Zenon
<1> HIDE DEF A
<1>9. Joins(B, A, 7 + c, T, 7)
  <2>1. A \in Seq(Buses) /\ Len(A) = 7 + c
    BY <1>8 DEF Joins
  <2> QED
    BY <1>5, <1>7, <2>1, Joined, Zenon
<1> HIDE DEF B
<1>10. Joins(C, B, 7 + c + 7, Q, 4)
  <2>1. B \in Seq(Buses) /\ Len(B) = 7 + c + 7
    BY <1>9 DEF Joins
  <2> QED
    BY <1>6, <1>7, <2>1, Joined, Zenon
<1> HIDE DEF C
<1>11. Joins(D, C, 7 + c + 7 + 4, S, 7)
  <2>1. C \in Seq(Buses) /\ Len(C) = 7 + c + 7 + 4
    BY <1>10 DEF Joins
  <2> QED
    BY <1>3, <1>7, <2>1, Joined, Zenon
<1> HIDE DEF D
<1>12. ClocksEnd = 7 + c
  BY DEF c, ClocksEnd
<1>13. \A i \in 1 .. 7 : D[i] = S[i]
  <2> SUFFICES ASSUME NEW i \in 1 .. 7 PROVE D[i] = S[i]
    OBVIOUS
  <2>1. i \in 1 .. 7 + c /\ i \in 1 .. 7 + c + 7 /\ i \in 1 .. 7 + c + 7 + 4
    BY <1>7
  <2> QED
    BY <1>8, <1>9, <1>10, <1>11, <2>1 DEF Joins
<1>14. \A i \in 8 .. ClocksEnd : D[i] = Pulse(i % 2 # 1)
  <2> SUFFICES ASSUME NEW i \in 8 .. 7 + c PROVE D[i] = Pulse(i % 2 # 1)
    BY <1>12
  <2>1. i - 7 \in 1 .. c /\ i = 7 + (i - 7)
    BY <1>7
  <2>2. i \in 1 .. 7 + c /\ i \in 1 .. 7 + c + 7 /\ i \in 1 .. 7 + c + 7 + 4
    BY <1>7
  <2>3. D[i] = A[7 + (i - 7)]
    BY <1>9, <1>10, <1>11, <2>1, <2>2 DEF Joins
  <2>4. A[7 + (i - 7)] = P[i - 7]
    BY <1>8, <2>1 DEF Joins
  <2>5. ((i - 7) % 2 = 1) = (i % 2 # 1)
    BY <1>7
  <2>6. P[i - 7] = Pulse((i - 7) % 2 = 1)
    BY <1>4, <2>1, Zenon DEF c
  <2> QED
    BY <2>3, <2>4, <2>5, <2>6, Zenon
<1>15. \A i \in 1 .. 7 : D[ClocksEnd + i] = T[i]
  <2> SUFFICES ASSUME NEW i \in 1 .. 7 PROVE D[7 + c + i] = T[i]
    BY <1>12
  <2>1. 7 + c + i \in 1 .. 7 + c + 7 /\ 7 + c + i \in 1 .. 7 + c + 7 + 4
    BY <1>7
  <2> QED
    BY <1>9, <1>10, <1>11, <2>1 DEF Joins
<1>16. \A i \in 1 .. 4 : D[ClocksEnd + 7 + i] = Pulse(i % 2 = 1)
  <2> SUFFICES ASSUME NEW i \in 1 .. 4 PROVE D[7 + c + 7 + i] = Pulse(i % 2 = 1)
    BY <1>12
  <2>1. 7 + c + 7 + i \in 1 .. 7 + c + 7 + 4
    BY <1>7
  <2>2. D[7 + c + 7 + i] = Q[i]
    BY <1>10, <1>11, <2>1 DEF Joins
  <2> QED
    BY <1>6, <2>2, Zenon
<1>17. \A i \in 1 .. 7 : D[ClocksEnd + 11 + i] = S[i]
  <2> SUFFICES ASSUME NEW i \in 1 .. 7 PROVE D[7 + c + 11 + i] = S[i]
    BY <1>12
  <2>1. 7 + c + 11 + i = 7 + c + 7 + 4 + i
    BY <1>7
  <2> QED
    BY <1>11, <2>1 DEF Joins
<1>18. Len(D) = ClocksEnd + 18
  BY <1>7, <1>11, <1>12 DEF Joins
<1>19. /\ D[ClocksEnd + 1] = T[1] /\ D[ClocksEnd + 2] = T[2] /\ D[ClocksEnd + 3] = T[3]
       /\ D[ClocksEnd + 4] = T[4] /\ D[ClocksEnd + 5] = T[5] /\ D[ClocksEnd + 6] = T[6]
       /\ D[ClocksEnd + 7] = T[7]
  BY <1>15
<1> QED
  BY <1>1, <1>5, <1>11, <1>13, <1>14, <1>16, <1>17, <1>18, <1>19, Zenon DEF S, Joins

(* A sequence of five writes                                                *)
LEMMA FiveWrites ==
  ASSUME NEW S, NEW a \in S, NEW b \in S, NEW c \in S, NEW d \in S, NEW e \in S
  PROVE  <<a, b, c, d, e>> \in Seq(S) /\ Len(<<a, b, c, d, e>>) = 5
OBVIOUS

(* and of one.                                                              *)
LEMMA OneWrite == ASSUME NEW S, NEW a \in S PROVE <<a>> \in Seq(S) /\ Len(<<a>>) = 1
OBVIOUS

(* The stop has twelve writes.                                              *)
LEMMA StopSequence == edt_extbdid_stop \in Seq(Buses) /\ Len(edt_extbdid_stop) = 12
<1> DEFINE T == <<Low(FALSE, FALSE), High(FALSE, FALSE), High(FALSE, TRUE), Low(FALSE, TRUE),
                  Low(TRUE, TRUE)>>
           U == <<High(TRUE, TRUE)>>
<1>1. /\ 1 \in Nat /\ 2 \in Nat /\ 5 \in Nat /\ 4 \in Nat /\ 7 \in Nat /\ 11 \in Nat
      /\ 2 * 1 = 2 /\ 2 * 2 = 4 /\ 2 + 5 = 7 /\ 7 + 4 = 11 /\ 11 + 1 = 12
  OBVIOUS
<1>2. /\ Pulses(1) \in Seq(Buses) /\ Len(Pulses(1)) = 2 * 1
      /\ Pulses(2) \in Seq(Buses) /\ Len(Pulses(2)) = 2 * 2
  BY <1>1, PulseWrites, Zenon
<1>3. /\ Low(TRUE, TRUE) \in Buses /\ Low(FALSE, TRUE) \in Buses /\ Low(FALSE, FALSE) \in Buses
      /\ High(TRUE, TRUE) \in Buses /\ High(FALSE, TRUE) \in Buses /\ High(FALSE, FALSE) \in Buses
  BY LowHigh
<1>4. T \in Seq(Buses) /\ Len(T) = 5
  BY <1>3, FiveWrites, Zenon
<1>5. U \in Seq(Buses) /\ Len(U) = 1
  BY <1>3, OneWrite, Zenon
<1> HIDE DEF T, U
<1> DEFINE A == Pulses(1) \o T
           B == A \o Pulses(2)
           C == B \o U
<1>6. Joins(A, Pulses(1), 2, T, 5)
  BY <1>1, <1>2, <1>4, Joined, Zenon
<1>7. A \in Seq(Buses) /\ Len(A) = 7
  BY <1>1, <1>6 DEF Joins
<1> HIDE DEF A
<1>8. Joins(B, A, 7, Pulses(2), 4)
  BY <1>1, <1>2, <1>7, Joined, Zenon
<1>9. B \in Seq(Buses) /\ Len(B) = 11
  BY <1>1, <1>8 DEF Joins
<1> HIDE DEF B
<1>10. Joins(C, B, 11, U, 1)
  BY <1>1, <1>5, <1>9, Joined, Zenon
<1>11. C \in Seq(Buses) /\ Len(C) = 12
  BY <1>1, <1>10 DEF Joins
<1> QED
  BY <1>11 DEF edt_extbdid_stop, A, B, C, T, U

-----------------------------------------------------------------------------
(* What the CPLD does.                                                      *)
At(p, n) == [phase |-> p, at |-> n]

(* The states of the CPLD, one by one.                                      *)
LEMMA PhasesAre ==
  ASSUME board \in Boards
  PROVE  /\ At("idle", 0) \in Phases /\ At("stopped", 0) \in Phases
         /\ \A n \in 1 .. 2 : At("reset", n) \in Phases
         /\ \A n \in 0 .. Bits : At("read", n) \in Phases
         /\ \A x \in Phases :
              \/ x = At("idle", 0) \/ x = At("stopped", 0)
              \/ x = At("reset", 1) \/ x = At("reset", 2)
              \/ \E n \in 0 .. Bits : x = At("read", n)
<1>1. Len(Stored) = Bits
  BY StoredBits
<1>2. At("idle", 0) \in Phases /\ At("stopped", 0) \in Phases
  BY Zenon DEF Phases, At
<1>3. \A n \in 1 .. 2 : At("reset", n) \in Phases
  BY Zenon DEF Phases, At
<1>4. \A n \in 0 .. Bits : At("read", n) \in Phases
  BY <1>1, Zenon DEF Phases, At
<1>5. ASSUME NEW x \in Phases
      PROVE  \/ x = At("idle", 0) \/ x = At("stopped", 0)
             \/ x = At("reset", 1) \/ x = At("reset", 2)
             \/ \E n \in 0 .. Bits : x = At("read", n)
  <2>1. \/ x \in {At(p, 0) : p \in {"idle", "stopped"}}
        \/ x \in {At("reset", n) : n \in 1 .. 2}
        \/ x \in {At("read", n) : n \in 0 .. Bits}
    BY <1>1, Zenon DEF Phases, At
  <2>2. \A n \in 1 .. 2 : n = 1 \/ n = 2
    OBVIOUS
  <2> QED
    BY <2>1, <2>2, Zenon
<1> QED
  BY <1>2, <1>3, <1>4, <1>5, Zenon

(* A clock counts, in a read and in a reset.                                *)
LEMMA ClockedIs ==
  ASSUME board \in Boards, cpld \in Phases
  PROVE  /\ \A n \in 0 .. Bits : cpld = At("read", n) =>
              Clocked = IF n < Bits THEN At("read", n + 1) ELSE Idle
         /\ cpld = At("reset", 2) => Clocked = At("reset", 1)
         /\ cpld = At("reset", 1) => Clocked = Idle
         /\ cpld = At("idle", 0) \/ cpld = At("stopped", 0) => Clocked = Idle
<1>1. Len(Stored) = Bits /\ Bits \in Nat
  BY StoredBits, BoardShape
<1>2. Idle = At("idle", 0)
  BY DEF Idle, At
<1>3. ASSUME NEW n \in 0 .. Bits, cpld = At("read", n)
      PROVE  Clocked = IF n < Bits THEN At("read", n + 1) ELSE Idle
  BY <1>1, <1>3 DEF Clocked, At
<1>4. ASSUME cpld = At("reset", 2) PROVE Clocked = At("reset", 1)
  BY <1>4 DEF Clocked, At
<1>5. ASSUME cpld = At("reset", 1) PROVE Clocked = Idle
  BY <1>5 DEF Clocked, At
<1>6. ASSUME cpld = At("idle", 0) \/ cpld = At("stopped", 0) PROVE Clocked = Idle
  BY <1>6 DEF Clocked, At
<1> QED
  BY <1>3, <1>4, <1>5, <1>6

(* Whatever it hears leaves the CPLD in one of them.                        *)
LEMMA CpldType ==
  ASSUME board \in Boards, cpld \in Phases
  PROVE  /\ Idle \in Phases /\ Clocked \in Phases /\ Started \in Phases
         /\ \A b \in Buses : Hears(b) \in Phases
<1>1. Idle = At("idle", 0) /\ Bits \in Nat
  BY BoardShape DEF Idle, At
<1>2. Clocked \in Phases
  <2>1. CASE \E n \in 0 .. Bits : cpld = At("read", n)
    <3>1. PICK n \in 0 .. Bits : cpld = At("read", n)
      BY <2>1
    <3>2. n < Bits => n + 1 \in 0 .. Bits
      BY <1>1
    <3> QED
      BY <1>1, <3>1, <3>2, ClockedIs, PhasesAre
  <2>2. CASE cpld = At("reset", 1) \/ cpld = At("reset", 2)
    BY <1>1, <2>2, ClockedIs, PhasesAre
  <2>3. CASE cpld = At("idle", 0) \/ cpld = At("stopped", 0)
    BY <1>1, <2>3, ClockedIs, PhasesAre
  <2> QED
    BY <2>1, <2>2, <2>3, PhasesAre
<1>3. Started \in Phases
  <2>1. /\ At("reset", 2) = [phase |-> "reset", at |-> 2]
        /\ At("read", 0) = [phase |-> "read", at |-> 0]
        /\ 2 \in 1 .. 2 /\ 0 \in 0 .. Bits
    BY <1>1 DEF At
  <2>2. /\ [phase |-> "reset", at |-> 2] \in Phases
        /\ [phase |-> "read", at |-> 0] \in Phases
    BY <2>1, PhasesAre
  <2> QED
    BY <2>2 DEF Started
<1>4. [phase |-> "stopped", at |-> 0] \in Phases /\ Idle \in Phases
  BY <1>1, PhasesAre DEF At
<1>5. ASSUME NEW b \in Buses PROVE Hears(b) \in Phases
  BY <1>2, <1>3, <1>4 DEF Hears
<1> QED
  BY <1>2, <1>3, <1>4, <1>5

-----------------------------------------------------------------------------
(* Typing.  Words are counted as they are read, so that those kept for the  *)
(* driver fit, and the tries left are at least one while one is made.       *)
WordsCount ==
  /\ pc \in {"register", "reset", "retry", "again"} => ~Known(mezz)
  /\ pc \in {"reset", "word"} => tries \in 1 .. 2
  /\ pc = "word" => at \in 1 .. 3 /\ Len(bits) <= WordBits /\ (at > 1 => Len(bits) < WordBits)
  /\ pc = "word" /\ Known(mezz) => Len(mezz.data) < mezz.n /\ mezz.n < MaxWords
  /\ pc # "word" => bits = <<>>
  /\ pc = "reset" => at \in 1 .. ClocksEnd + 18
  /\ pc \in {"stop", "retry"} => at \in 1 .. 12
  /\ pc \notin {"reset", "word", "retry", "stop"} => at = 1
  /\ \A c \in Channels : Len(driver[c].data) < MaxWords

TypeInv == TypeOK /\ WordsCount

(* What is found or stored is an identity that fits.                        *)
Fits(m) == m \in Mezz /\ Len(m.data) < MaxWords

(* An identity is its four fields.                                          *)
LEMMA MezzFields ==
  /\ \A i \in Nat \cup {-1, Unknown}, n \in Int, r \in Nat, d \in Seq(Seq(Bit)) :
       [id |-> i, n |-> n, rev |-> r, data |-> d] \in Mezz
  /\ \A m \in Mezz : /\ m.id \in Nat \cup {-1, Unknown} /\ m.n \in Int /\ m.rev \in Nat
                     /\ m.data \in Seq(Seq(Bit)) /\ Len(m.data) \in Nat
                     /\ m = [id |-> m.id, n |-> m.n, rev |-> m.rev, data |-> m.data]
<1>1. \A m \in Mezz : m.data \in Seq(Seq(Bit))
  BY DEF Mezz, Bit
<1>2. \A m \in Mezz : Len(m.data) \in Nat
  BY <1>1, LenProperties
<1> QED
  BY <1>1, <1>2 DEF Mezz, Bit

(* What is not known and what has no words fits.                            *)
LEMMA NoMezzFits ==
  /\ Fits(NoMezz) /\ ~Known(NoMezz)
  /\ \A i \in Nat \cup {-1} : Fits(Simple(i))
<1>1. <<>> \in Seq(Seq(Bit)) /\ Len(<<>>) = 0
  BY EmptySeq
<1>2. MaxWords \in Nat \ {0}
  BY BoardIdAssumption, Zenon
<1>3. ASSUME NEW i \in Nat \cup {-1, Unknown}, NEW n \in Int
      PROVE  Fits([id |-> i, n |-> n, rev |-> 0, data |-> <<>>])
  <2>1. 0 \in Nat
    OBVIOUS
  <2>2. [id |-> i, n |-> n, rev |-> 0, data |-> <<>>] \in Mezz
    BY <1>1, <2>1, MezzFields, Zenon
  <2>3. [id |-> i, n |-> n, rev |-> 0, data |-> <<>>].data = <<>>
    OBVIOUS
  <2>4. 0 < MaxWords
    BY <1>2
  <2> QED
    BY <1>1, <2>2, <2>3, <2>4, Zenon DEF Fits
<1>4. Fits(NoMezz) /\ ~Known(NoMezz)
  <2>1. Unknown \in Nat \cup {-1, Unknown} /\ 0 \in Int
    OBVIOUS
  <2>2. NoMezz.id = Unknown
    BY DEF NoMezz
  <2> QED
    BY <1>3, <2>1, <2>2, Zenon DEF NoMezz, Known
<1>5. ASSUME NEW i \in Nat \cup {-1} PROVE Fits(Simple(i))
  <2>1. i \in Nat \cup {-1, Unknown} /\ -1 \in Int
    OBVIOUS
  <2> QED
    BY <1>3, <2>1, Zenon DEF Simple
<1> QED
  BY <1>4, <1>5, Zenon

(* Bits read, one more.                                                     *)
LEMMA BitsGrow ==
  ASSUME NEW S, NEW s \in Seq(S), NEW e \in S
  PROVE  /\ Append(s, e) \in Seq(S) /\ Len(Append(s, e)) = Len(s) + 1 /\ Len(s) \in Nat
         /\ \A i \in 1 .. Len(s) : Append(s, e)[i] = s[i]
         /\ Append(s, e)[Len(s) + 1] = e
BY AppendProperties, LenProperties

(* Words read, one more.                                                    *)
LEMMA WordsGrow ==
  ASSUME NEW d \in Seq(Seq(Bit)), NEW w \in Seq(Bit)
  PROVE  /\ Append(d, w) \in Seq(Seq(Bit)) /\ Len(Append(d, w)) = Len(d) + 1
         /\ \A i \in 1 .. Len(d) : Append(d, w)[i] = d[i]
         /\ Append(d, w)[Len(d) + 1] = w
<1> DEFINE S == Seq(Bit)
<1>1. w \in S /\ d \in Seq(S)
  OBVIOUS
<1> HIDE DEF S
<1>2. /\ Append(d, w) \in Seq(S) /\ Len(Append(d, w)) = Len(d) + 1
      /\ \A i \in 1 .. Len(d) : Append(d, w)[i] = d[i]
      /\ Append(d, w)[Len(d) + 1] = w
  BY <1>1, BitsGrow
<1> QED
  BY <1>2, Zenon DEF S

(* A legal first word gives no more words than there is room for,           *)
LEMMA FirstWordFits ==
  ASSUME TypeInv, FirstWord
  PROVE  /\ bits \in Seq(Bit) /\ Blocks(bits) \in Nat
         /\ mezz' = [id |-> Id(bits), n |-> Blocks(bits) - 1, rev |-> Rev(bits), data |-> <<>>]
         /\ Fits(mezz') /\ mezz'.n \in 0 .. MaxWords - 1 /\ mezz'.n = Blocks(bits) - 1
         /\ Len(mezz'.data) = 0
<1>1. bits \in Seq(Bit) /\ Len(bits) = WordBits /\ Legal(bits)
  BY DEF TypeInv, TypeOK, FirstWord, Bit
<1>2. Blocks(bits) \in Nat /\ Id(bits) \in Nat /\ Rev(bits) \in Nat
  BY <1>1, WordFields
<1>3. MaxWords \in Nat \ {0}
  BY BoardIdAssumption, Zenon
<1>4. mezz' = [id |-> Id(bits), n |-> Blocks(bits) - 1, rev |-> Rev(bits), data |-> <<>>]
  BY DEF FirstWord, NoMezz
<1>5. Blocks(bits) - 1 \in 0 .. MaxWords - 1
  BY <1>1, <1>2, <1>3 DEF Legal
<1>6. <<>> \in Seq(Seq(Bit)) /\ Len(<<>>) = 0
  BY EmptySeq
<1>7. mezz' \in Mezz
  <2>1. Blocks(bits) - 1 \in Int /\ Id(bits) \in Nat \cup {-1, Unknown}
    BY <1>2
  <2> QED
    BY <1>2, <1>4, <1>6, <2>1, MezzFields, Zenon
<1> QED
  BY <1>1, <1>2, <1>3, <1>4, <1>5, <1>6, <1>7 DEF Fits

(* and as many are kept, not one more.                                      *)
LEMMA MoreWordsFits ==
  ASSUME TypeInv, MoreWords
  PROVE  /\ bits \in Seq(Bit) /\ mezz.data \in Seq(Seq(Bit)) /\ Len(mezz.data) \in Nat
         /\ mezz' = [id |-> mezz.id, n |-> mezz.n, rev |-> mezz.rev,
                      data |-> Append(mezz.data, bits)]
         /\ mezz \in Mezz /\ mezz' \in Mezz
         /\ Len(mezz'.data) = Len(mezz.data) + 1 /\ Len(mezz'.data) <= mezz.n /\ mezz.n < MaxWords
         /\ Fits(mezz')
<1>1. mezz \in Mezz /\ bits \in Seq(Bit) /\ Len(mezz.data) < mezz.n /\ mezz.n < MaxWords
  BY DEF TypeInv, TypeOK, WordsCount, MoreWords, Bit
<1>2. mezz = [id |-> mezz.id, n |-> mezz.n, rev |-> mezz.rev, data |-> mezz.data]
  BY <1>1, MezzFields
<1>3. mezz' = [id |-> mezz.id, n |-> mezz.n, rev |-> mezz.rev, data |-> Append(mezz.data, bits)]
  <2>1. mezz' = [mezz EXCEPT !.data = Append(mezz.data, bits)]
    BY DEF MoreWords
  <2> QED
    BY <1>2, <2>1
<1>4. /\ mezz.data \in Seq(Seq(Bit)) /\ Len(mezz.data) \in Nat /\ mezz.n \in Int
      /\ mezz.id \in Nat \cup {-1, Unknown} /\ mezz.rev \in Nat
  BY <1>1, MezzFields
<1>5. /\ Append(mezz.data, bits) \in Seq(Seq(Bit))
      /\ Len(Append(mezz.data, bits)) = Len(mezz.data) + 1
  <2>1. bits \in Seq(Bit) /\ mezz.data \in Seq(Seq(Bit))
    BY <1>1, <1>4
  <2> QED
    BY <2>1, WordsGrow, Zenon
<1>6. mezz' \in Mezz
  BY <1>3, <1>4, <1>5, MezzFields
<1>7. MaxWords \in Nat
  BY BoardIdAssumption, Zenon
<1> QED
  BY <1>1, <1>3, <1>4, <1>5, <1>6, <1>7 DEF Fits

(* The variables a write of the register leaves alone.                      *)
LEMMA DriveType ==
  ASSUME board \in Boards, cpld \in Phases, NEW b \in Buses, Drive(b), UNCHANGED board
  PROVE  bus' \in Buses /\ cpld' \in Phases' /\ UNCHANGED pins
<1>1. Phases' = Phases
  BY DEF Phases, Stored
<1> QED
  BY <1>1, CpldType DEF Drive

(* Every step keeps the types; the places in a sequence and in a word are   *)
(* those of the code, a word is read to its end and no word too many.       *)
LEMMA TypeStep == TypeInv /\ [Next]_vars => TypeInv'
<1> SUFFICES ASSUME TypeInv, [Next]_vars PROVE TypeInv'
  OBVIOUS
<1> USE DEF TypeInv
<1>1. MaxWords \in Nat \ {0} /\ Clocks \in Nat /\ WordBits \in Nat \ {0}
  BY BoardIdAssumption, WordFields, Zenon
<1>2. ASSUME UNCHANGED board PROVE Phases' = Phases
  BY <1>2 DEF Phases, Stored
<1>3. /\ driver \in [Channels -> Mezz] /\ \A c \in Channels : Fits(driver[c])
      /\ Fits(mezz)
  BY DEF TypeOK, WordsCount, Fits
<1>4. ASSUME UNCHANGED <<board, cpld>> PROVE cpld' \in Phases'
  BY <1>2, <1>4 DEF TypeOK
<1>5. CASE UNCHANGED vars
  <2>1. UNCHANGED <<hardware, wires, driver, pc, chan, reading, mezz, todo, counts>>
    BY <1>5 DEF vars
  <2> QED
    BY <1>4, <2>1 DEF TypeOK, WordsCount, hardware, wires, reading, Known
<1>6. CASE \E c \in Channels : Lookup(c)
  <2>1. PICK c \in Channels : Lookup(c)
    BY <1>6
  <2>2. Fits(mezz') /\ (pc' = "register" => ~Known(mezz'))
    BY <1>3, <2>1 DEF Lookup, Known, hardware
  <2>3. TypeOK'
    BY <1>4, <2>1, <2>2 DEF TypeOK, Lookup, hardware, wires, reading, Fits
  <2>4. WordsCount'
    BY <2>1, <2>2 DEF WordsCount, Lookup, hardware, wires, reading, Known
  <2> QED
    BY <2>3, <2>4
<1>7. CASE Plain
  <2>1. board.id \in Nat \cup {-1}
    BY BoardShape DEF TypeOK
  <2>2. Fits(Simple(board.id))
    BY <2>1, NoMezzFits
  <2>3. Fits(mezz') /\ pc' \in {"store", "done"} /\ todo' \subseteq Channels
    BY <1>3, <1>7, <2>2 DEF Plain, Store, TypeOK
  <2>4. TypeOK'
    BY <1>4, <1>7, <2>3 DEF TypeOK, Plain, hardware, wires, reading, Fits
  <2>5. WordsCount'
    BY <1>7, <2>3 DEF WordsCount, Plain, hardware, wires, reading
  <2> QED
    BY <2>4, <2>5
<1>8. CASE Extended
  <2>1. ~Known(mezz) /\ UNCHANGED <<mezz, errorKept>>
    BY <1>8 DEF Extended, WordsCount, hardware
  <2>2. <<>> \in Seq({0, 1})
    BY EmptySeq
  <2>3. TypeOK'
    BY <1>4, <1>8, <2>2 DEF TypeOK, Extended, hardware
  <2>4. WordsCount'
    <3>1. ~Known(mezz)'
      BY <2>1 DEF Known
    <3>2. at' = 1 /\ 1 \in 1 .. ClocksEnd + 18
      BY <1>1, <1>8 DEF Extended, ClocksEnd
    <3> QED
      BY <1>8, <3>1, <3>2 DEF WordsCount, Extended
  <2> QED
    BY <2>3, <2>4
<1>9. CASE Reset
  <2> DEFINE w == edt_extbdid_reset
  <2>1. /\ w \in Seq(Buses) /\ Len(w) = ClocksEnd + 18 /\ at \in 1 .. Len(w) /\ Len(w) \in Nat
    BY <1>1, <1>9, ResetSequence DEF WordsCount, Reset, Writes, ClocksEnd
  <2>2. Drive(w[at]) /\ w[at] \in Buses
    BY <1>9, <2>1, ElementOfSeq DEF Reset, Writes
  <2> HIDE DEF w
  <2>3. UNCHANGED <<hardware, driver, chan, bits, tries, try3x3g, mezz, todo>>
    BY <1>9 DEF Reset, Writes
  <2>4. bus' \in Buses /\ cpld' \in Phases' /\ UNCHANGED pins
    BY <2>2, <2>3, DriveType DEF TypeOK, hardware
  <2>5. \/ at < Len(w) /\ at' = at + 1 /\ pc' = "reset"
        \/ at' = 1 /\ pc' = "word"
    BY <1>9 DEF Reset, Writes, w
  <2>6. at' \in 1 .. ClocksEnd + 18 /\ (pc' = "word" => at' = 1)
    BY <1>1, <2>1, <2>5 DEF ClocksEnd
  <2>7. bits = <<>> /\ ~Known(mezz) /\ tries \in 1 .. 2
    BY <1>9 DEF Reset, Writes, WordsCount
  <2>8. ~Known(mezz)'
    BY <2>3, <2>7 DEF Known, hardware
  <2>9. TypeOK'
    BY <2>3, <2>4, <2>5, <2>6 DEF TypeOK, hardware
  <2>10. WordsCount'
    <3>1. bits' = <<>> /\ Len(<<>>) = 0 /\ pc' \in {"reset", "word"} /\ tries' \in 1 .. 2
      BY <2>3, <2>5, <2>7, EmptySeq
    <3>2. 0 <= WordBits
      BY <1>1
    <3> QED
      BY <2>3, <2>6, <2>8, <3>1, <3>2 DEF WordsCount
  <2> QED
    BY <2>9, <2>10
<1>10. CASE Clock
  <2>1. Bus(TRUE, at = 1, FALSE) \in Buses
    BY BusesOf, Zenon
  <2>2. bus' \in Buses /\ cpld' \in Phases' /\ UNCHANGED pins
    BY <1>10, <2>1, DriveType DEF Clock, TypeOK, hardware
  <2>3. /\ pc = "word" /\ at < 3 /\ at' = at + 1 /\ Len(bits) < WordBits
        /\ UNCHANGED <<hardware, driver, pc, chan, bits, tries, try3x3g, mezz, todo>>
    BY <1>10 DEF Clock
  <2>4. at \in 1 .. 3 /\ at' \in 1 .. 3
    BY <2>3 DEF WordsCount
  <2>5. TypeOK'
    BY <2>2, <2>3, <2>4 DEF TypeOK, hardware
  <2>6. Known(mezz)' = Known(mezz)
    BY <2>3 DEF Known, hardware
  <2>7. WordsCount'
    BY <2>3, <2>4, <2>6 DEF WordsCount
  <2> QED
    BY <2>5, <2>7
<1>11. CASE Sample
  <2>1. /\ pc = "word" /\ at = 3 /\ at' = 1
        /\ UNCHANGED <<hardware, wires, driver, pc, chan, tries, try3x3g, mezz, todo>>
    BY <1>11 DEF Sample
  <2>2. PICK e \in {0, 1} : bits' = Append(bits, e)
    BY <1>11 DEF Sample
  <2>3. bits' \in Seq({0, 1}) /\ Len(bits') = Len(bits) + 1 /\ Len(bits) \in Nat
    BY <2>2, BitsGrow DEF TypeOK
  <2>4. Len(bits') <= WordBits
    BY <1>1, <2>1, <2>3 DEF WordsCount
  <2>5. TypeOK'
    BY <1>4, <2>1, <2>3 DEF TypeOK, hardware, wires
  <2>6. Known(mezz)' = Known(mezz)
    BY <2>1 DEF Known, hardware
  <2>7. WordsCount'
    BY <2>1, <2>4, <2>6 DEF WordsCount
  <2> QED
    BY <2>5, <2>7
<1>12. CASE FirstWord
  <2>1. /\ Fits(mezz') /\ mezz'.n \in 0 .. MaxWords - 1 /\ mezz'.n = Blocks(bits) - 1
        /\ Len(mezz'.data) = 0 /\ Blocks(bits) \in Nat
    BY <1>12, FirstWordFits
  <2>2. <<>> \in Seq({0, 1}) /\ Len(<<>>) = 0
    BY EmptySeq
  <2>3. /\ pc' \in {"word", "stop"} /\ (pc' = "word" => Blocks(bits) > 1) /\ bits' = <<>>
        /\ UNCHANGED <<hardware, wires, driver, chan, at, tries, try3x3g, todo>>
        /\ pc = "word" /\ Len(bits) = WordBits
    BY <1>12 DEF FirstWord
  <2>4. at = 1 /\ tries \in 1 .. 2
    BY <1>1, <2>3 DEF WordsCount
  <2>5. TypeOK'
    BY <1>4, <2>1, <2>2, <2>3 DEF TypeOK, hardware, wires, Fits
  <2>6. pc' = "word" => Len(mezz'.data) < mezz'.n /\ mezz'.n < MaxWords
    BY <1>1, <2>1, <2>3
  <2>7. WordsCount'
    BY <1>1, <2>2, <2>3, <2>4, <2>6 DEF WordsCount
  <2> QED
    BY <2>5, <2>7
<1>13. CASE BadWord
  <2>1. <<>> \in Seq({0, 1})
    BY EmptySeq
  <2>2. /\ bits' = <<>> /\ tries' = tries - 1 /\ pc' = "retry" /\ ~Known(mezz)
        /\ UNCHANGED <<hardware, wires, driver, chan, at, try3x3g, mezz, todo>>
        /\ pc = "word" /\ Len(bits) = WordBits
    BY <1>13 DEF BadWord
  <2>3. at = 1 /\ tries \in 1 .. 2
    BY <1>1, <2>2 DEF WordsCount
  <2>4. ~Known(mezz)'
    BY <2>2 DEF Known, hardware
  <2>5. TypeOK'
    BY <1>4, <2>1, <2>2, <2>3 DEF TypeOK, hardware, wires
  <2>6. WordsCount'
    BY <2>2, <2>3, <2>4 DEF WordsCount
  <2> QED
    BY <2>5, <2>6
<1>14. CASE MoreWords
  <2>1. mezz' \in Mezz /\ Len(mezz'.data) < MaxWords
    BY <1>14, MoreWordsFits DEF Fits
  <2>2. <<>> \in Seq({0, 1}) /\ Len(<<>>) = 0
    BY EmptySeq
  <2>3. mezz.n = mezz'.n /\ mezz.n < MaxWords
    BY <1>14, MoreWordsFits
  <2>4. /\ pc' = (IF Len(mezz'.data) < mezz.n THEN "word" ELSE "stop") /\ bits' = <<>>
        /\ UNCHANGED <<hardware, wires, driver, chan, at, tries, try3x3g, todo>>
        /\ pc = "word" /\ Len(bits) = WordBits
    BY <1>14 DEF MoreWords
  <2>5. at = 1 /\ tries \in 1 .. 2
    BY <1>1, <2>4 DEF WordsCount
  <2>6. TypeOK'
    BY <1>4, <2>1, <2>2, <2>4 DEF TypeOK, hardware, wires
  <2>7. WordsCount'
    BY <1>1, <2>2, <2>3, <2>4, <2>5 DEF WordsCount
  <2> QED
    BY <2>6, <2>7
<1>15. CASE StopRetry \/ Stop
  <2> DEFINE w == edt_extbdid_stop
  <2>1. w \in Seq(Buses) /\ Len(w) = 12 /\ at \in 1 .. 12
    BY <1>15, StopSequence DEF WordsCount, StopRetry, Stop, Writes
  <2>2. Drive(w[at]) /\ w[at] \in Buses
    BY <1>15, <2>1, ElementOfSeq DEF StopRetry, Stop, Writes
  <2> HIDE DEF w
  <2>3. UNCHANGED <<hardware, driver, chan, bits, tries, try3x3g, mezz, todo>>
    BY <1>15 DEF StopRetry, Stop, Writes
  <2>4. bus' \in Buses /\ cpld' \in Phases' /\ UNCHANGED pins
    BY <2>2, <2>3, DriveType DEF TypeOK, hardware
  <2>5. /\ pc \in {"retry", "stop"}
        /\ \/ at < Len(w) /\ at' = at + 1 /\ pc' = pc
           \/ at' = 1 /\ pc' = IF pc = "retry" THEN "again" ELSE "stopped"
    BY <1>15 DEF StopRetry, Stop, Writes, w
  <2>6. at' \in 1 .. 12 /\ (pc' \in {"again", "stopped"} => at' = 1)
    BY <2>1, <2>5
  <2>7. bits = <<>> /\ (pc = "retry" => ~Known(mezz))
    BY <2>5 DEF WordsCount
  <2>8. pc = "retry" => ~Known(mezz)'
    BY <2>3, <2>7 DEF Known, hardware
  <2>9. TypeOK'
    BY <2>3, <2>4, <2>5, <2>6 DEF TypeOK, hardware
  <2>10. WordsCount'
    BY <2>3, <2>5, <2>6, <2>7, <2>8 DEF WordsCount
  <2> QED
    BY <2>9, <2>10
<1>16. CASE TryAgain
  <2>1. /\ pc = "again" /\ UNCHANGED <<hardware, bus, cpld, driver, chan, at, bits, mezz, todo>>
        /\ pc' \in {"reset", "stop"} /\ pins' \in {"standard", "3x3g"}
        /\ tries' \in 0 .. 2 /\ try3x3g' \in BOOLEAN
        /\ (pc' = "reset" => tries' > 0)
    <3>1. tries \in 0 .. 2 /\ try3x3g \in BOOLEAN /\ pins \in {"standard", "3x3g"}
      BY DEF TypeOK
    <3>2. /\ pc = "again" /\ UNCHANGED <<hardware, bus, cpld, driver, chan, at, bits, mezz, todo>>
          /\ \/ tries > 0 /\ pc' = "reset" /\ pins' = pins /\ tries' = tries /\ try3x3g' = try3x3g
             \/ pc' = "reset" /\ tries' = 2 /\ try3x3g' = FALSE /\ pins' = "3x3g"
             \/ pc' = "stop" /\ pins' = pins /\ tries' = tries /\ try3x3g' = try3x3g
      BY <1>16 DEF TryAgain
    <3>3. tries' \in 0 .. 2 /\ pins' \in {"standard", "3x3g"} /\ (pc' = "reset" => tries' > 0)
      BY <3>1, <3>2
    <3>4. try3x3g' \in BOOLEAN
      BY <3>1, <3>2, Zenon
    <3> QED
      BY <3>2, <3>3, <3>4, Zenon
  <2>2. at = 1 /\ bits = <<>> /\ ~Known(mezz) /\ 1 \in 1 .. ClocksEnd + 18
    BY <1>1, <2>1 DEF WordsCount, ClocksEnd
  <2>3. ~Known(mezz)'
    BY <2>1, <2>2 DEF Known, hardware
  <2>4. TypeOK'
    BY <1>4, <2>1, <2>2 DEF TypeOK, hardware
  <2>5. WordsCount'
    BY <2>1, <2>2, <2>3 DEF WordsCount
  <2> QED
    BY <2>4, <2>5
<1>17. CASE Found
  <2>1. Fits(Simple(-1))
    BY NoMezzFits
  <2>2. /\ Fits(mezz') /\ todo' = Channels /\ pc' = "store" /\ pc = "stopped"
        /\ UNCHANGED <<hardware, wires, driver, chan, reading>>
    BY <1>3, <1>17, <2>1 DEF Found, Store
  <2>3. TypeOK'
    BY <1>4, <2>2 DEF TypeOK, hardware, wires, reading, Fits
  <2>4. WordsCount'
    BY <2>2 DEF WordsCount, reading
  <2> QED
    BY <2>3, <2>4
<1>18. CASE \E c \in Channels : SetMezzId(c)
  <2>1. PICK c \in Channels : SetMezzId(c)
    BY <1>18
  <2>2. /\ pc = "store" /\ driver' = [driver EXCEPT ![c] = mezz] /\ todo' = todo \ {c}
        /\ pc' \in {"store", "done"}
        /\ UNCHANGED <<hardware, wires, chan, reading, mezz>>
    BY <2>1 DEF SetMezzId
  <2>3. driver' \in [Channels -> Mezz] /\ \A d \in Channels : Len(driver'[d].data) < MaxWords
    BY <1>3, <2>2 DEF Fits
  <2>4. TypeOK'
    BY <1>4, <2>2, <2>3 DEF TypeOK, hardware, wires, reading
  <2>5. WordsCount'
    BY <2>2, <2>3 DEF WordsCount, reading
  <2> QED
    BY <2>4, <2>5
<1>19. CASE Return \/ Kill
  <2>1. /\ pc' = "idle" /\ mezz' = NoMezz /\ todo' \subseteq Channels
        /\ UNCHANGED <<hardware, wires, driver, chan, tries, try3x3g>>
        /\ (UNCHANGED <<at, bits>> /\ pc = "done") \/ (at' = 1 /\ bits' = <<>>)
    BY <1>19 DEF Return, Kill, reading, TypeOK
  <2>2. Fits(mezz') /\ <<>> \in Seq({0, 1})
    BY <2>1, NoMezzFits, EmptySeq
  <2>3. at' = 1 /\ bits' = <<>>
    BY <2>1 DEF WordsCount
  <2>4. TypeOK'
    BY <1>4, <2>1, <2>2, <2>3 DEF TypeOK, hardware, wires, Fits
  <2>5. WordsCount'
    BY <2>1, <2>3 DEF WordsCount
  <2> QED
    BY <2>4, <2>5
<1>20. CASE Disturb
  <2>1. /\ bus' \in Buses /\ cpld' \in Phases
        /\ UNCHANGED <<hardware, pins, driver, pc, chan, reading, mezz, todo>>
    BY <1>20 DEF Disturb
  <2>2. Phases' = Phases
    BY <1>2, <2>1 DEF hardware
  <2>3. TypeOK'
    BY <2>1, <2>2 DEF TypeOK, hardware, reading
  <2>4. Known(mezz)' = Known(mezz)
    BY <2>1 DEF Known, hardware
  <2>5. WordsCount'
    BY <2>1, <2>4 DEF WordsCount, reading
  <2> QED
    BY <2>3, <2>5
<1> QED
  BY <1>5, <1>6, <1>7, <1>8, <1>9, <1>10, <1>11, <1>12, <1>13, <1>14, <1>15, <1>16, <1>17,
     <1>18, <1>19, <1>20 DEF Next, Work

(* So do the initial states.                                                *)
LEMMA TypeInit == Init => TypeInv
<1> SUFFICES ASSUME Init PROVE TypeInv
  OBVIOUS
<1>1. /\ Fits(NoMezz) /\ <<>> \in Seq({0, 1}) /\ Len(<<>>) = 0 /\ WordBits \in Nat
      /\ MaxWords \in Nat \ {0}
  BY NoMezzFits, EmptySeq, WordFields, BoardIdAssumption, Zenon
<1>2. Bus(TRUE, TRUE, TRUE) \in Buses
  BY BusesOf
<1>3. TypeOK
  <2>1. driver \in [Channels -> Mezz]
    BY <1>1 DEF Init, Fits
  <2>2. mezz \in Mezz /\ Len(mezz.data) < MaxWords
    BY <1>1 DEF Init, Fits
  <2>3. at \in Nat \ {0} /\ tries \in 0 .. 2 /\ bits \in Seq({0, 1}) /\ todo \subseteq Channels
    BY <1>1 DEF Init
  <2> QED
    BY <1>2, <2>1, <2>2, <2>3, Zenon DEF Init, TypeOK
<1>4. WordsCount
  BY <1>1 DEF Init, WordsCount, Fits
<1> QED
  BY <1>3, <1>4 DEF TypeInv

(* Variables have their types, and what the driver is given never has more  *)
(* words than its array, whoever kills or disturbs a lookup.                *)
THEOREM BoardIdTypeCorrect == Spec => []TypeOK
<1>1. TypeInv => TypeOK
  BY DEF TypeInv
<1> QED
  BY <1>1, TypeInit, TypeStep, PTL DEF Spec

-----------------------------------------------------------------------------
(* How the CPLD takes a write: only one the library's pins reach hears it,  *)
(* a rising clock counts, a falling one ends a stop, and while the clock is *)
(* high the data line starts and stops.                                     *)
LEMMA HearsRules ==
  ASSUME NEW b
  PROVE  /\ ~Reached => Hears(b) = cpld
         /\ Reached /\ ~bus.clk /\ ~b.clk => Hears(b) = cpld
         /\ Reached /\ ~bus.clk /\ b.clk => Hears(b) = Clocked
         /\ Reached /\ bus.clk /\ ~b.clk /\ cpld.phase # "stopped" => Hears(b) = cpld
         /\ Reached /\ bus.clk /\ ~b.clk /\ cpld.phase = "stopped" => Hears(b) = Idle
         /\ Reached /\ bus.clk /\ b.clk /\ Line(bus) /\ ~Line(b) => Hears(b) = Started
         /\ Reached /\ bus.clk /\ b.clk /\ ~Line(bus) /\ Line(b) => Hears(b) = At("stopped", 0)
<1>1. ASSUME ~Reached PROVE Hears(b) = cpld
  BY <1>1 DEF Hears
<1>2. ASSUME Reached, ~bus.clk, ~b.clk PROVE Hears(b) = cpld
  BY <1>2 DEF Hears
<1>3. ASSUME Reached, ~bus.clk, b.clk PROVE Hears(b) = Clocked
  BY <1>3 DEF Hears
<1>5. ASSUME Reached, bus.clk, ~b.clk, cpld.phase # "stopped" PROVE Hears(b) = cpld
  BY <1>5 DEF Hears
<1>4. ASSUME Reached, bus.clk, ~b.clk, cpld.phase = "stopped" PROVE Hears(b) = Idle
  BY <1>4 DEF Hears
<1>6. ASSUME Reached, bus.clk, b.clk, Line(bus), ~Line(b) PROVE Hears(b) = Started
  BY <1>6 DEF Hears
<1>7. ASSUME Reached, bus.clk, b.clk, ~Line(bus), Line(b) PROVE Hears(b) = At("stopped", 0)
  BY <1>7 DEF Hears, At
<1> QED
  BY <1>1, <1>2, <1>3, <1>5, <1>4, <1>6, <1>7

(* The same in terms of what is written: clock low or high, and on a line   *)
(* that no read drives the data.                                            *)
IsLow(b) == \E ts, data \in BOOLEAN : b = Low(ts, data)
IsHigh(b) == \E ts, data \in BOOLEAN : b = High(ts, data)

(* Low and high are what the clock bit says.                                *)
LEMMA Clk ==
  ASSUME NEW b
  PROVE  (IsLow(b) => ~b.clk) /\ (IsHigh(b) => b.clk)
BY DEF IsLow, IsHigh, Low, High, Bus

DataUp == High(FALSE, TRUE)
DataDown == High(FALSE, FALSE)

(* What is written shows on a line that no read drives.                     *)
LEMMA LineDriven ==
  ASSUME cpld.phase # "read" \/ cpld.at = 0
  PROVE  Line(DataUp) /\ ~Line(DataDown)
BY DEF Line, Driven, DataUp, DataDown, High, Bus

(* The rules by clock and data written.                                     *)
LEMMA WriteRules ==
  ASSUME NEW b, Reached
  PROVE  /\ IsLow(bus) /\ IsLow(b) => Hears(b) = cpld
         /\ IsLow(bus) /\ IsHigh(b) => Hears(b) = Clocked
         /\ IsHigh(bus) /\ IsLow(b) /\ cpld.phase # "stopped" => Hears(b) = cpld
         /\ IsHigh(bus) /\ IsLow(b) /\ cpld.phase = "stopped" => Hears(b) = Idle
         /\ (cpld.phase # "read" \/ cpld.at = 0) =>
              /\ bus = DataUp /\ b = DataDown => Hears(b) = Started
              /\ bus = DataDown /\ b = DataUp => Hears(b) = At("stopped", 0)
<1>1. (IsLow(b) => ~b.clk) /\ (IsHigh(b) => b.clk)
  BY Clk
<1>2. (IsLow(bus) => ~bus.clk) /\ (IsHigh(bus) => bus.clk)
  BY Clk
<1>3. IsHigh(DataDown) /\ IsHigh(DataUp)
  BY Zenon DEF IsHigh, DataUp, DataDown
<1> QED
  BY <1>1, <1>2, <1>3, HearsRules, LineDriven, Zenon

(* Where a reset has brought the CPLD before write a.                       *)
Progress(a, c) ==
  /\ a \in 8 .. ClocksEnd + 1 /\ c.phase = "read" => 2 * c.at >= a - 8
  /\ a \in ClocksEnd + 1 .. ClocksEnd + 3 => c.phase # "read"
  /\ a = ClocksEnd + 4 => c = At("stopped", 0)
  /\ a \in ClocksEnd + 5 .. ClocksEnd + 8 => c = At("reset", 2)
  /\ a \in ClocksEnd + 9 .. ClocksEnd + 10 => c = At("reset", 1)
  /\ a \in ClocksEnd + 11 .. ClocksEnd + 15 => c = At("idle", 0)
  /\ a \in ClocksEnd + 16 .. ClocksEnd + 19 => c = At("read", 0)

ResetDone ==
  pc = "reset" => /\ at > 1 => bus = edt_extbdid_reset[at - 1]
                  /\ Reached => Progress(at, cpld)

(* The clocks: each counts in a read, which ends, as there are more clocks  *)
(* than bits.                                                               *)
LEMMA ClocksLeaveRead ==
  ASSUME board \in Boards, cpld \in Phases, Reached, at \in 8 .. ClocksEnd,
         Progress(at, cpld), bus = edt_extbdid_reset[at - 1], NEW c,
         c = Hears(edt_extbdid_reset[at])
  PROVE  Progress(at + 1, c)
<1>1. /\ Clocks \in Nat /\ Bits \in Nat /\ Clocks > Bits
      /\ ClocksEnd = 7 + 2 * Clocks /\ ClocksEnd \in Nat /\ at \in Nat /\ at >= 8
  BY BoardShape DEF ClocksEnd
<1>2. \A i \in 8 .. ClocksEnd : /\ i % 2 # 1 => IsHigh(edt_extbdid_reset[i])
                                /\ i % 2 = 1 => IsLow(edt_extbdid_reset[i])
  <2> SUFFICES ASSUME NEW i \in 8 .. ClocksEnd
               PROVE  /\ i % 2 # 1 => IsHigh(edt_extbdid_reset[i])
                      /\ i % 2 = 1 => IsLow(edt_extbdid_reset[i])
    OBVIOUS
  <2>1. edt_extbdid_reset[i] = Pulse(i % 2 # 1) /\ (i % 2 = 1 => i % 2 # 0)
    BY ResetSequence
  <2> QED
    BY <2>1, Zenon DEF Pulse, IsLow, IsHigh
<1>3. (at % 2 = 1 => IsHigh(bus)) /\ (at % 2 # 1 => IsLow(bus))
  <2>1. CASE at = 8
    <3>1. at - 1 = 7 /\ 7 \in 1 .. 7 /\ ~(at % 2 = 1)
      BY <2>1
    <3>2. bus = Low(TRUE, TRUE)
      BY <3>1, ResetSequence, StartSequence, Zenon
    <3> QED
      BY <3>1, <3>2, Zenon DEF IsLow
  <2>2. CASE at \in 9 .. ClocksEnd
    <3>1. at - 1 \in 8 .. ClocksEnd
      BY <1>1, <2>2
    <3>2. (at % 2 = 1 => (at - 1) % 2 # 1) /\ (at % 2 # 1 => (at - 1) % 2 = 1)
      BY <1>1
    <3>3. /\ at % 2 = 1 => IsHigh(edt_extbdid_reset[at - 1])
          /\ at % 2 # 1 => IsLow(edt_extbdid_reset[at - 1])
      BY <1>2, <3>1, <3>2, Zenon
    <3> QED
      BY <3>3, Zenon
  <2>3. at = 8 \/ at \in 9 .. ClocksEnd
    BY <1>1
  <2> QED
    BY <2>1, <2>2, <2>3, Zenon
<1>4. cpld.phase = "read" => 2 * cpld.at >= at - 8
  BY <1>1 DEF Progress
<1>5. c.phase = "read" => c.at \in 0 .. Bits /\ 2 * c.at >= at - 7
  <2>1. CASE at % 2 # 1
    <3>1. c = Clocked
      <4>1. IsHigh(edt_extbdid_reset[at])
        BY <1>2, <2>1, Zenon
      <4>2. IsLow(bus)
        BY <1>3, <2>1, Zenon
      <4> QED
        BY <4>1, <4>2, WriteRules, Zenon
    <3>2. CASE \E n \in 0 .. Bits : cpld = At("read", n)
      <4>1. PICK n \in 0 .. Bits : cpld = At("read", n)
        BY <3>2
      <4>2. 2 * n >= at - 8
        BY <1>4, <4>1 DEF At
      <4>3. CASE n < Bits
        <5>1. c = At("read", n + 1)
          BY <3>1, <4>1, <4>3, ClockedIs
        <5> QED
          BY <1>1, <4>2, <4>3, <5>1 DEF At
      <4>4. CASE ~(n < Bits)
        BY <3>1, <4>1, <4>4, ClockedIs DEF Idle
      <4> QED
        BY <4>3, <4>4
    <3>3. CASE cpld = At("reset", 1) \/ cpld = At("reset", 2)
      BY <3>1, <3>3, ClockedIs DEF At, Idle
    <3>4. CASE cpld = At("idle", 0) \/ cpld = At("stopped", 0)
      BY <3>1, <3>4, ClockedIs DEF At, Idle
    <3> QED
      BY <3>2, <3>3, <3>4, PhasesAre
  <2>2. CASE at % 2 = 1
    <3>1. c = cpld \/ c = Idle
      <4>1. IsLow(edt_extbdid_reset[at]) /\ IsHigh(bus)
        BY <1>2, <1>3, <2>2
      <4> QED
        BY <4>1, WriteRules, Zenon
    <3>2. ASSUME c.phase = "read" PROVE c.at \in 0 .. Bits /\ 2 * c.at >= at - 7
      <4>1. c = cpld /\ cpld.phase = "read"
        BY <3>1, <3>2 DEF Idle
      <4>2. PICK n \in 0 .. Bits : cpld = At("read", n)
        BY <4>1, PhasesAre DEF At
      <4>3. 2 * n >= at - 8
        BY <1>4, <4>2 DEF At
      <4>4. 2 * n >= at - 7
        BY <1>1, <2>2, <4>3
      <4> QED
        BY <4>1, <4>2, <4>4 DEF At
    <3> QED
      BY <3>2
  <2> QED
    BY <2>1, <2>2
<1>6. at + 1 <= ClocksEnd => Progress(at + 1, c)
  BY <1>1, <1>5 DEF Progress
<1>7. at = ClocksEnd => Progress(at + 1, c)
  BY <1>1, <1>5 DEF Progress
<1> QED
  BY <1>1, <1>6, <1>7

(* The writes behind the clocks, by their clock.                            *)
Behind(k) == edt_extbdid_reset[ClocksEnd + k]

(* Low, high, low: the clock of each of those writes, and the data while it is*)
(* high.                                                                    *)
LEMMA BehindClocks ==
  ASSUME board \in Boards
  PROVE  /\ IsLow(Behind(0)) /\ IsLow(Behind(1))
         /\ Behind(2) = DataDown /\ Behind(3) = DataUp /\ Behind(4) = DataDown
         /\ IsLow(Behind(5)) /\ IsLow(Behind(6)) /\ IsLow(Behind(7))
         /\ IsHigh(Behind(8)) /\ IsLow(Behind(9)) /\ IsHigh(Behind(10)) /\ IsLow(Behind(11))
         /\ IsLow(Behind(12)) /\ IsLow(Behind(13)) /\ Behind(14) = DataUp /\ Behind(15) = DataDown
         /\ IsLow(Behind(16)) /\ IsLow(Behind(17)) /\ IsLow(Behind(18))
         /\ Behind(18) = Low(TRUE, TRUE) /\ IsHigh(DataUp) /\ IsHigh(DataDown)
<1>1. \A ts, data \in BOOLEAN : IsLow(Low(ts, data)) /\ IsHigh(High(ts, data))
  BY Zenon DEF IsLow, IsHigh
<1>2. Clocks \in Nat /\ Clocks > 0 /\ ClocksEnd = 7 + 2 * Clocks /\ ClocksEnd \in Nat
  BY BoardShape DEF ClocksEnd
<1>3. IsLow(Behind(0))
  <2>1. ClocksEnd + 0 = ClocksEnd /\ ClocksEnd \in 8 .. ClocksEnd /\ ~(ClocksEnd % 2 # 1)
    BY <1>2
  <2>2. edt_extbdid_reset[ClocksEnd + 0] = Low(TRUE, FALSE)
    BY <2>1, ResetSequence, Zenon DEF Pulse
  <2> QED
    BY <1>1, <2>2, Zenon DEF Behind
<1>4. /\ IsLow(Behind(1)) /\ Behind(2) = DataDown /\ Behind(3) = DataUp /\ Behind(4) = DataDown
      /\ IsLow(Behind(5)) /\ IsLow(Behind(6)) /\ IsLow(Behind(7))
  BY <1>1, ResetSequence, Zenon DEF Behind, DataUp, DataDown
<1>5. /\ Behind(8) = Pulse(1 % 2 = 1) /\ Behind(9) = Pulse(2 % 2 = 1)
      /\ Behind(10) = Pulse(3 % 2 = 1) /\ Behind(11) = Pulse(4 % 2 = 1)
  <2>1. /\ ClocksEnd + 8 = ClocksEnd + 7 + 1 /\ ClocksEnd + 9 = ClocksEnd + 7 + 2
        /\ ClocksEnd + 10 = ClocksEnd + 7 + 3 /\ ClocksEnd + 11 = ClocksEnd + 7 + 4
        /\ 1 \in 1 .. 4 /\ 2 \in 1 .. 4 /\ 3 \in 1 .. 4 /\ 4 \in 1 .. 4
    BY <1>2
  <2>2. /\ edt_extbdid_reset[ClocksEnd + 7 + 1] = Pulse(1 % 2 = 1)
        /\ edt_extbdid_reset[ClocksEnd + 7 + 2] = Pulse(2 % 2 = 1)
        /\ edt_extbdid_reset[ClocksEnd + 7 + 3] = Pulse(3 % 2 = 1)
        /\ edt_extbdid_reset[ClocksEnd + 7 + 4] = Pulse(4 % 2 = 1)
    BY <2>1, ResetSequence, Zenon
  <2> QED
    BY <2>1, <2>2, Zenon DEF Behind
<1>6. IsHigh(Behind(8)) /\ IsLow(Behind(9)) /\ IsHigh(Behind(10)) /\ IsLow(Behind(11))
  <2>1. 1 % 2 = 1 /\ ~(2 % 2 = 1) /\ 3 % 2 = 1 /\ ~(4 % 2 = 1)
    OBVIOUS
  <2> QED
    BY <1>1, <1>5, <2>1, Zenon DEF Pulse
<1>7. \A i \in 1 .. 7 : Behind(11 + i) = StartWrites[i]
  <2> SUFFICES ASSUME NEW i \in 1 .. 7 PROVE Behind(11 + i) = StartWrites[i]
    OBVIOUS
  <2>1. ClocksEnd + (11 + i) = ClocksEnd + 11 + i
    BY <1>2
  <2> QED
    BY <2>1, ResetSequence, Zenon DEF Behind
<1>8. /\ Behind(12) = StartWrites[1] /\ Behind(13) = StartWrites[2] /\ Behind(14) = StartWrites[3]
      /\ Behind(15) = StartWrites[4] /\ Behind(16) = StartWrites[5] /\ Behind(17) = StartWrites[6]
      /\ Behind(18) = StartWrites[7]
  <2>1. /\ 11 + 1 = 12 /\ 11 + 2 = 13 /\ 11 + 3 = 14 /\ 11 + 4 = 15 /\ 11 + 5 = 16 /\ 11 + 6 = 17
        /\ 11 + 7 = 18
        /\ 1 \in 1 .. 7 /\ 2 \in 1 .. 7 /\ 3 \in 1 .. 7 /\ 4 \in 1 .. 7 /\ 5 \in 1 .. 7
        /\ 6 \in 1 .. 7 /\ 7 \in 1 .. 7
    OBVIOUS
  <2> QED
    BY <1>7, <2>1
<1>9. /\ IsLow(Behind(12)) /\ IsLow(Behind(13)) /\ Behind(14) = DataUp /\ Behind(15) = DataDown
      /\ IsLow(Behind(16)) /\ IsLow(Behind(17)) /\ IsLow(Behind(18))
      /\ Behind(18) = Low(TRUE, TRUE)
  BY <1>1, <1>8, StartSequence, Zenon DEF DataUp, DataDown
<1> QED
  BY <1>1, <1>3, <1>4, <1>6, <1>9, Zenon DEF DataUp, DataDown

(* Stop and start under one clock, two clocks and a start bring the CPLD    *)
(* from wherever the clocks have left it to the beginning of a read.        *)
LEMMA ResetFinishes ==
  ASSUME board \in Boards, cpld \in Phases, Reached, NEW k \in 1 .. 18, at = ClocksEnd + k,
         Progress(at, cpld), bus = Behind(k - 1), NEW c, c = Hears(Behind(k))
  PROVE  Progress(at + 1, c)
<1>1. ClocksEnd \in Nat
  BY BoardShape DEF ClocksEnd
<1>2. IsHigh(DataUp) /\ IsHigh(DataDown)
  BY BehindClocks
<1> DEFINE quiet == cpld.phase # "read" \/ cpld.at = 0
<1>3. /\ IsLow(bus) /\ IsLow(Behind(k)) => c = cpld
      /\ IsLow(bus) /\ IsHigh(Behind(k)) => c = Clocked
      /\ IsHigh(bus) /\ IsLow(Behind(k)) /\ cpld.phase # "stopped" => c = cpld
      /\ quiet /\ bus = DataUp /\ Behind(k) = DataDown => c = Started
      /\ quiet /\ bus = DataDown /\ Behind(k) = DataUp => c = At("stopped", 0)
  BY WriteRules, Zenon
<1>4. ASSUME k \in 1 .. 2 PROVE cpld.phase # "read" /\ c.phase # "read"
  <2>1. cpld.phase # "read"
    BY <1>1, <1>4 DEF Progress
  <2>2. CASE k = 1
    <3>1. IsLow(bus) /\ IsLow(Behind(k))
      BY <2>2, BehindClocks
    <3> QED
      BY <1>3, <2>1, <3>1
  <2>3. CASE k = 2
    <3>1. IsLow(bus) /\ IsHigh(Behind(k))
      BY <1>2, <2>3, BehindClocks
    <3>2. c = Clocked
      BY <1>3, <3>1
    <3>3. \/ cpld = At("reset", 1) \/ cpld = At("reset", 2)
          \/ cpld = At("idle", 0) \/ cpld = At("stopped", 0)
      BY <2>1, PhasesAre DEF At
    <3> QED
      BY <2>1, <3>2, <3>3, ClockedIs DEF At, Idle
  <2> QED
    BY <1>4, <2>2, <2>3
<1>5. ASSUME k = 3 PROVE c = At("stopped", 0)
  <2>1. cpld.phase # "read"
    BY <1>1, <1>5 DEF Progress
  <2>2. bus = DataDown /\ Behind(k) = DataUp
    BY <1>5, BehindClocks
  <2> QED
    BY <1>3, <2>1, <2>2
<1>6. ASSUME k = 4 PROVE c = At("reset", 2)
  <2>1. cpld = At("stopped", 0)
    BY <1>1, <1>6 DEF Progress
  <2>2. bus = DataUp /\ Behind(k) = DataDown
    BY <1>6, BehindClocks
  <2>3. c = Started
    BY <1>3, <2>1, <2>2 DEF At
  <2> QED
    BY <2>1, <2>3 DEF Started, At
<1>7. ASSUME k \in 5 .. 7 PROVE c = At("reset", 2)
  <2>1. cpld = At("reset", 2) /\ cpld.phase # "stopped"
    BY <1>1, <1>7 DEF Progress, At
  <2>2. (IsLow(bus) \/ IsHigh(bus)) /\ IsLow(Behind(k))
    <3>1. CASE k = 5
      BY <1>2, <3>1, BehindClocks
    <3>2. CASE k = 6
      BY <3>2, BehindClocks
    <3>3. CASE k = 7
      BY <3>3, BehindClocks
    <3> QED
      BY <1>7, <3>1, <3>2, <3>3
  <2> QED
    BY <1>3, <2>1, <2>2
<1>8. ASSUME k = 8 PROVE c = At("reset", 1)
  <2>1. cpld = At("reset", 2)
    BY <1>1, <1>8 DEF Progress
  <2>2. IsLow(bus) /\ IsHigh(Behind(k))
    BY <1>8, BehindClocks
  <2> QED
    BY <1>3, <2>1, <2>2, ClockedIs
<1>9. ASSUME k = 9 PROVE c = At("reset", 1)
  <2>1. cpld = At("reset", 1) /\ cpld.phase # "stopped"
    BY <1>1, <1>9 DEF Progress, At
  <2>2. IsHigh(bus) /\ IsLow(Behind(k))
    BY <1>9, BehindClocks
  <2> QED
    BY <1>3, <2>1, <2>2
<1>10. ASSUME k = 10 PROVE c = At("idle", 0)
  <2>1. cpld = At("reset", 1)
    BY <1>1, <1>10 DEF Progress
  <2>2. IsLow(bus) /\ IsHigh(Behind(k))
    BY <1>10, BehindClocks
  <2>3. c = Idle
    BY <1>3, <2>1, <2>2, ClockedIs
  <2> QED
    BY <2>3 DEF Idle, At
<1>11. ASSUME k \in 11 .. 14 PROVE c = At("idle", 0)
  <2>1. cpld = At("idle", 0) /\ cpld.phase # "stopped"
    BY <1>1, <1>11 DEF Progress, At
  <2>2. Idle = At("idle", 0) /\ Clocked = Idle
    BY <2>1, ClockedIs DEF Idle, At
  <2>3. \/ (IsLow(bus) \/ IsHigh(bus)) /\ IsLow(Behind(k))
        \/ IsLow(bus) /\ IsHigh(Behind(k))
    <3>1. CASE k = 11
      BY <3>1, BehindClocks
    <3>2. CASE k = 12
      BY <3>2, BehindClocks
    <3>3. CASE k = 13
      BY <3>3, BehindClocks
    <3>4. CASE k = 14
      BY <1>2, <3>4, BehindClocks
    <3> QED
      BY <1>11, <3>1, <3>2, <3>3, <3>4
  <2> QED
    BY <1>3, <2>1, <2>2, <2>3
<1>12. ASSUME k = 15 PROVE c = At("read", 0)
  <2>1. cpld = At("idle", 0)
    BY <1>1, <1>12 DEF Progress
  <2>2. bus = DataUp /\ Behind(k) = DataDown
    BY <1>12, BehindClocks
  <2>3. c = Started
    BY <1>3, <2>1, <2>2 DEF At
  <2> QED
    BY <2>1, <2>3 DEF Started, At
<1>13. ASSUME k \in 16 .. 18 PROVE c = At("read", 0)
  <2>1. cpld = At("read", 0) /\ cpld.phase # "stopped"
    BY <1>1, <1>13 DEF Progress, At
  <2>2. (IsLow(bus) \/ IsHigh(bus)) /\ IsLow(Behind(k))
    <3>1. CASE k = 16
      BY <1>2, <3>1, BehindClocks
    <3>2. CASE k = 17
      BY <3>2, BehindClocks
    <3>3. CASE k = 18
      BY <3>3, BehindClocks
    <3> QED
      BY <1>13, <3>1, <3>2, <3>3
  <2> QED
    BY <1>3, <2>1, <2>2
<1>14. ASSUME k \in 1 .. 3 PROVE Progress(at + 1, c)
  BY <1>1, <1>4, <1>5, <1>14 DEF Progress
<1>15. ASSUME k \in 4 .. 7 PROVE Progress(at + 1, c)
  BY <1>1, <1>6, <1>7, <1>15 DEF Progress
<1>16. ASSUME k \in 8 .. 14 PROVE Progress(at + 1, c)
  BY <1>1, <1>8, <1>9, <1>10, <1>11, <1>16 DEF Progress
<1>17. ASSUME k \in 15 .. 18 PROVE Progress(at + 1, c)
  BY <1>1, <1>12, <1>13, <1>17 DEF Progress
<1> QED
  BY <1>14, <1>15, <1>16, <1>17

(* A write of the reset gets the CPLD on, in the end to the first bit.      *)
LEMMA ResetStep ==
  ASSUME TypeInv, ResetDone, Reset
  PROVE  /\ bus' = edt_extbdid_reset[at]
         /\ Reached => Progress(at + 1, cpld')
         /\ at \in 1 .. ClocksEnd + 18
         /\ pc' = "reset" => at' = at + 1
         /\ pc' = "word" => at = ClocksEnd + 18 /\ bus' = Low(TRUE, TRUE)
         /\ pc' \in {"reset", "word"}
<1>1. /\ board \in Boards /\ cpld \in Phases /\ at \in 1 .. ClocksEnd + 18 /\ pc = "reset"
      /\ ClocksEnd \in Nat /\ ClocksEnd = 7 + 2 * Clocks /\ Clocks \in Nat
      /\ Len(edt_extbdid_reset) = ClocksEnd + 18
  <2>1. board \in Boards /\ cpld \in Phases /\ at \in 1 .. ClocksEnd + 18 /\ pc = "reset"
    BY DEF TypeInv, TypeOK, WordsCount, Reset, Writes
  <2>2. Clocks \in Nat /\ Len(edt_extbdid_reset) = ClocksEnd + 18
    BY <2>1, BoardShape, ResetSequence
  <2> QED
    BY <2>1, <2>2 DEF ClocksEnd
<1>2. /\ bus' = edt_extbdid_reset[at] /\ cpld' = Hears(edt_extbdid_reset[at])
      /\ \/ at < ClocksEnd + 18 /\ at' = at + 1 /\ pc' = "reset"
         \/ ~(at < ClocksEnd + 18) /\ at' = 1 /\ pc' = "word"
  BY <1>1 DEF Reset, Writes, Drive
<1>3. at > 1 => bus = edt_extbdid_reset[at - 1]
  BY <1>1 DEF ResetDone
<1>4. ASSUME Reached PROVE Progress(at + 1, cpld')
  <2>1. Progress(at, cpld)
    BY <1>1, <1>4 DEF ResetDone
  <2>2. CASE at \in 1 .. 7
    <3>1. cpld' \in Phases
      <4>1. edt_extbdid_reset[at] \in Buses
        BY <1>1, ResetSequence, ElementOfSeq
      <4> QED
        BY <1>1, <1>2, <4>1, CpldType
    <3>2. cpld'.phase = "read" => cpld'.at \in Nat
      <4>1. Bits \in Nat
        BY <1>1, BoardShape
      <4> QED
        BY <1>1, <3>1, <4>1, PhasesAre DEF At
    <3>3. Clocks > 0
      BY <1>1, BoardShape
    <3> QED
      BY <1>1, <2>2, <3>2, <3>3 DEF Progress
  <2>3. CASE at \in 8 .. ClocksEnd
    BY <1>1, <1>2, <1>3, <1>4, <2>1, <2>3, ClocksLeaveRead
  <2>4. CASE at \in ClocksEnd + 1 .. ClocksEnd + 18
    <3> DEFINE k == at - ClocksEnd
    <3>1. k \in 1 .. 18 /\ at = ClocksEnd + k /\ at - 1 = ClocksEnd + (k - 1) /\ at > 1
      BY <1>1, <2>4
    <3> HIDE DEF k
    <3>2. bus = Behind(k - 1) /\ cpld' = Hears(Behind(k))
      BY <1>2, <1>3, <3>1 DEF Behind
    <3> QED
      BY <1>1, <1>4, <2>1, <3>1, <3>2, ResetFinishes
  <2> QED
    BY <1>1, <2>2, <2>3, <2>4
<1>5. pc' = "word" => at = ClocksEnd + 18 /\ bus' = Low(TRUE, TRUE)
  <2>1. pc' = "word" => at = ClocksEnd + 18
    BY <1>1, <1>2
  <2> QED
    BY <1>1, <1>2, <2>1, BehindClocks DEF Behind
<1> QED
  BY <1>1, <1>2, <1>4, <1>5

-----------------------------------------------------------------------------
(* The truth.  A board is good that has words and a legal first one.        *)
Good == board.says = "extended" /\ Readable

(* An illegal first word shows that the pins are not the board's, so pins   *)
(* are changed for good boards only when that is right.                     *)
RightPins ==
  /\ pc \in {"reset", "word", "retry", "again", "stop", "stopped"} =>
       board.says = "extended" /\ (pins = "3x3g" <=> ~try3x3g)
  /\ pc \in {"reset", "word", "retry", "again"} /\ Good /\ pins = "3x3g" => board.pins = "3x3g"
  /\ pc \in {"retry", "again"} /\ Good => pins # board.pins

(* What is found and what the driver holds.                                 *)
HoldsAnswer ==
  /\ \A c \in Channels : driver[c] \in {NoMezz, Answer}
  /\ pc \in {"register", "reset", "retry", "again"} => mezz \in {NoMezz, Answer}
  /\ pc = "word" /\ ~Known(mezz) => mezz \in {NoMezz, Answer}
  /\ pc \in {"stop", "stopped"} => mezz \in {NoMezz, Answer} /\ (Good => mezz = Answer)
  /\ pc \in {"store", "done"} => mezz = Answer

(* Where the CPLD is while words are read, and what has been read of them.  *)
WordsRead == IF Known(mezz) THEN Len(mezz.data) + 1 ELSE 0
BitsRead == WordsRead * WordBits + Len(bits)
Wires == /\ at = 1 => IsLow(bus)
         /\ at = 2 => IsHigh(bus)
         /\ at = 3 => bus = Low(TRUE, FALSE)
Reading == Reached /\ Words # <<>>

InPlace ==
  pc = "word" =>
    /\ Wires
    /\ ~Reading => /\ ~Known(mezz) /\ \A i \in 1 .. Len(bits) : bits[i] = 1
                   /\ Reached => cpld.phase # "read" \/ cpld.at = 0
    /\ Reading => /\ cpld = At("read", BitsRead + IF at = 1 THEN 0 ELSE 1)
                  /\ \A i \in 1 .. Len(bits) : bits[i] = Words[WordsRead + 1][i]
    /\ Known(mezz) => /\ Good /\ mezz.id = Id(Words[1]) /\ mezz.rev = Rev(Words[1])
                      /\ mezz.n = Len(Words) - 1
                      /\ \A i \in 1 .. Len(mezz.data) : mezz.data[i] = Words[i + 1]

Truth == RightPins /\ HoldsAnswer /\ ResetDone /\ InPlace
TruthInv == disturbed \in Nat /\ (disturbed = 0 => Truth)

(* The answer by kind of board.                                             *)
LEMMA AnswerIs ==
  ASSUME board \in Boards
  PROVE  /\ board.says = "id" => Answer = Simple(board.id)
         /\ Good => /\ Answer = [id |-> Id(Words[1]), n |-> Len(Words) - 1, rev |-> Rev(Words[1]),
                                 data |-> Tail(Words)]
                    /\ Id(Words[1]) \in Nat /\ Answer.id = Id(Words[1])
                    /\ Words[1] \in Seq(Bit) /\ Len(Words[1]) = WordBits
                    /\ Blocks(Words[1]) = Len(Words) /\ Words # <<>>
         /\ board.says = "extended" /\ ~Good => Answer = Simple(-1)
         /\ board.says \notin {"id", "extended"} => Answer = NoMezz
<1>1. ASSUME board.says = "id" PROVE Answer = Simple(board.id)
  BY <1>1 DEF Answer
<1>2. ASSUME Good
      PROVE  Answer = [id |-> Id(Words[1]), n |-> Len(Words) - 1, rev |-> Rev(Words[1]),
                       data |-> Tail(Words)]
  BY <1>2 DEF Answer, Good, Words
<1>3. ASSUME Good
      PROVE  /\ Words # <<>> /\ Blocks(Words[1]) = Len(Words)
             /\ Words[1] \in Seq(Bit) /\ Len(Words[1]) = WordBits
  <2>1. Words # <<>> /\ Legal(Words[1])
    BY <1>3 DEF Good, Readable, Words
  <2>2. 1 \in 1 .. Len(Words)
    BY <2>1, BoardShape
  <2> QED
    BY <2>1, <2>2, BoardShape
<1>4. ASSUME board.says = "extended", ~Good PROVE Answer = Simple(-1)
  BY <1>4 DEF Answer, Good
<1>5. ASSUME board.says \notin {"id", "extended"} PROVE Answer = NoMezz
  BY <1>5 DEF Answer
<1>6. ASSUME Good PROVE Id(Words[1]) \in Nat
  BY <1>3, <1>6, WordFields
<1>7. ASSUME Good PROVE Answer.id = Id(Words[1])
  BY <1>2, <1>7
<1> QED
  BY <1>1, <1>2, <1>3, <1>4, <1>5, <1>6, <1>7

(* Whether an id is known depends on the id and the header alone.           *)
LEMMA NumbersKnown == ASSUME NEW m, m.id \in Nat PROVE Known(m) /\ m.id # Unknown
BY DEF Known, Unknown

(* A word is read bit by bit from its place among those of the board.       *)
LEMMA PlaceRead ==
  ASSUME TypeInv, pc = "word", InPlace, Reading, Len(bits) < WordBits
  PROVE  /\ BitsRead \in 0 .. Bits - 1 /\ BitsRead + 1 \in 1 .. Bits
         /\ Stored[BitsRead + 1] = Words[WordsRead + 1][Len(bits) + 1]
         /\ Words[WordsRead + 1][Len(bits) + 1] \in Bit
         /\ Len(bits) \in Nat /\ WordsRead \in 0 .. Len(Words) - 1
<1>1. board \in Boards /\ bits \in Seq(Bit) /\ mezz \in Mezz
  BY DEF TypeInv, TypeOK, Bit
<1>2. /\ Len(bits) \in Nat /\ Len(Words) \in Nat \ {0} /\ WordBits \in Nat \ {0}
      /\ Len(mezz.data) \in Nat /\ Bits \in Nat
  BY <1>1, BoardShape, LenProperties, WordFields, MezzFields DEF Reading
<1>3. WordsRead \in 0 .. Len(Words) - 1
  <2>1. CASE Known(mezz)
    <3>1. Len(mezz.data) < mezz.n /\ mezz.n = Len(Words) - 1
      BY <2>1 DEF TypeInv, WordsCount, InPlace
    <3> QED
      BY <1>2, <2>1, <3>1 DEF WordsRead
  <2>2. CASE ~Known(mezz)
    BY <1>2, <2>2 DEF WordsRead
  <2> QED
    BY <2>1, <2>2
<1> HIDE DEF WordsRead
<1>4. Len(bits) + 1 \in 1 .. WordBits
  BY <1>2
<1>5. /\ WordsRead * WordBits + (Len(bits) + 1) \in 1 .. Bits
      /\ Stored[WordsRead * WordBits + (Len(bits) + 1)] = Words[WordsRead + 1][Len(bits) + 1]
  BY <1>1, <1>3, <1>4, StoredBits
<1>6. WordsRead * WordBits \in Nat
  BY <1>2, <1>3
<1>7. WordsRead * WordBits + (Len(bits) + 1) = BitsRead + 1 /\ BitsRead \in Nat
  BY <1>2, <1>6 DEF BitsRead
<1>8. Words[WordsRead + 1][Len(bits) + 1] \in Bit
  <2>1. WordsRead + 1 \in 1 .. Len(Words)
    BY <1>2, <1>3
  <2>2. Words[WordsRead + 1] \in Seq(Bit) /\ Len(Words[WordsRead + 1]) = WordBits
    BY <1>1, <2>1, BoardShape
  <2> QED
    BY <1>4, <2>2, ElementOfSeq
<1> QED
  BY <1>2, <1>3, <1>5, <1>7, <1>8

(* Clock up and clock down.                                                 *)
LEMMA ClockInPlace == TypeInv /\ InPlace /\ Clock => InPlace'
<1> SUFFICES ASSUME TypeInv, InPlace, Clock PROVE InPlace'
  OBVIOUS
<1>1. /\ pc = "word" /\ at \in 1 .. 2 /\ at' = at + 1 /\ Len(bits) < WordBits
      /\ UNCHANGED <<board, errorKept, pins, pc, bits, mezz>>
      /\ board \in Boards /\ cpld \in Phases
  BY DEF Clock, Drive, TypeInv, TypeOK, hardware
<1>2. /\ WordsRead' = WordsRead /\ BitsRead' = BitsRead /\ Words' = Words
      /\ (Known(mezz)' <=> Known(mezz)) /\ (Reading' <=> Reading) /\ (Reached' <=> Reached)
      /\ (Good' <=> Good)
  BY <1>1 DEF WordsRead, BitsRead, Known, Reading, Reached, Words, Good, Readable
<1>10. bus' = Bus(TRUE, at = 1, FALSE) /\ cpld' = Hears(bus')
  BY DEF Clock, Drive
<1>3. at = 1 => bus' = High(TRUE, FALSE) /\ IsHigh(bus') /\ IsLow(bus)
  BY <1>1, <1>10, Zenon DEF High, IsHigh, InPlace, Wires
<1>4. at = 2 => bus' = Low(TRUE, FALSE) /\ IsLow(bus') /\ IsHigh(bus)
  <2> SUFFICES ASSUME at = 2 PROVE bus' = Low(TRUE, FALSE) /\ IsLow(bus') /\ IsHigh(bus)
    OBVIOUS
  <2>1. (at = 1) = FALSE
    OBVIOUS
  <2> QED
    BY <1>1, <1>10, <2>1, Zenon DEF Low, IsLow, InPlace, Wires
<1>5. Wires'
  <2>1. (at = 1 /\ at' = 2) \/ (at = 2 /\ at' = 3)
    BY <1>1
  <2>2. 2 # 1 /\ 2 # 3 /\ 3 # 1
    OBVIOUS
  <2> QED
    BY <1>3, <1>4, <2>1, <2>2, Zenon DEF Wires
<1>6. cpld' = Hears(bus')
  BY <1>10
<1>7. ASSUME ~Reading, Reached PROVE cpld'.phase # "read" \/ cpld'.at = 0
  <2>1. Words = <<>> /\ Bits = 0
    <3>1. Words = <<>> /\ Len(Words) = 0 /\ WordBits \in Nat
      BY <1>7, EmptySeq, WordFields DEF Reading
    <3> QED
      BY <3>1 DEF Bits
  <2>2. cpld.phase # "read" \/ cpld.at = 0
    BY <1>1, <1>7 DEF InPlace
  <2>3. CASE at = 1
    <3>1. cpld' = Clocked
      BY <1>3, <1>6, <1>7, <2>3, WriteRules
    <3>2. CASE cpld = At("read", 0)
      BY <2>1, <3>1, <3>2, <1>1, ClockedIs DEF Idle
    <3>3. CASE cpld.phase # "read"
      <4>1. \/ cpld = At("reset", 1) \/ cpld = At("reset", 2)
            \/ cpld = At("idle", 0) \/ cpld = At("stopped", 0)
        BY <1>1, <3>3, PhasesAre DEF At
      <4> QED
        BY <1>1, <3>1, <4>1, ClockedIs DEF At, Idle
    <3>4. cpld = At("read", 0) \/ cpld.phase # "read"
      BY <1>1, <2>2, PhasesAre DEF At
    <3> QED
      BY <3>2, <3>3, <3>4
  <2>4. CASE at = 2
    <3>1. cpld' = cpld \/ cpld' = Idle
      BY <1>4, <1>6, <1>7, <2>4, WriteRules
    <3> QED
      BY <2>2, <3>1 DEF Idle
  <2> QED
    BY <1>1, <2>3, <2>4
<1>8. ASSUME Reading PROVE cpld' = At("read", BitsRead + IF at' = 1 THEN 0 ELSE 1)
  <2>1. BitsRead \in 0 .. Bits - 1 /\ Bits \in Nat
    BY <1>1, <1>8, PlaceRead, BoardShape
  <2>2. Reached /\ cpld = At("read", BitsRead + IF at = 1 THEN 0 ELSE 1)
    BY <1>1, <1>8 DEF InPlace, Reading
  <2>3. CASE at = 1
    <3>1. cpld' = Clocked
      BY <1>3, <1>6, <2>2, <2>3, WriteRules
    <3>2. cpld = At("read", BitsRead) /\ BitsRead \in 0 .. Bits /\ BitsRead < Bits
      BY <2>1, <2>2, <2>3
    <3>3. Clocked = At("read", BitsRead + 1)
      BY <1>1, <3>2, ClockedIs
    <3> QED
      BY <1>1, <2>3, <3>1, <3>3
  <2>4. CASE at = 2
    <3>1. cpld = At("read", BitsRead + 1) /\ cpld.phase # "stopped"
      BY <2>2, <2>4 DEF At
    <3>2. cpld' = cpld
      BY <1>4, <1>6, <2>2, <2>4, <3>1, WriteRules
    <3> QED
      BY <1>1, <2>4, <3>1, <3>2
  <2> QED
    BY <1>1, <2>3, <2>4
<1>9. /\ ~Reading => ~Known(mezz) /\ \A i \in 1 .. Len(bits) : bits[i] = 1
      /\ Reading => \A i \in 1 .. Len(bits) : bits[i] = Words[WordsRead + 1][i]
      /\ Known(mezz) => /\ Good /\ mezz.id = Id(Words[1]) /\ mezz.rev = Rev(Words[1])
                        /\ mezz.n = Len(Words) - 1
                        /\ \A i \in 1 .. Len(mezz.data) : mezz.data[i] = Words[i + 1]
  BY <1>1 DEF InPlace
<1> QED
  BY <1>1, <1>2, <1>5, <1>7, <1>8, <1>9 DEF InPlace

(* The bit that is looked at is the next of the board's, or one that nobody *)
(* drives.                                                                  *)
LEMMA SampleInPlace == TypeInv /\ InPlace /\ Sample => InPlace'
<1> SUFFICES ASSUME TypeInv, InPlace, Sample PROVE InPlace'
  OBVIOUS
<1>1. /\ pc = "word" /\ at = 3 /\ at' = 1
      /\ bits' = Append(bits, IF Line(bus) THEN 1 ELSE 0)
      /\ UNCHANGED <<board, errorKept, bus, cpld, pins, pc, mezz>>
      /\ board \in Boards /\ bits \in Seq(Bit)
  BY DEF Sample, TypeInv, TypeOK, hardware, wires, Bit
<1>2. /\ WordsRead' = WordsRead /\ Words' = Words
      /\ (Known(mezz)' <=> Known(mezz)) /\ (Reading' <=> Reading) /\ (Reached' <=> Reached)
      /\ (Good' <=> Good)
  BY <1>1 DEF WordsRead, Known, Reading, Reached, Words, Good, Readable
<1>3. bus = Low(TRUE, FALSE) /\ Len(bits) < WordBits
  BY <1>1 DEF InPlace, Wires, TypeInv, WordsCount
<1>4. Line(bus) <=> (Driven => Stored[cpld.at] = 1)
  BY <1>3, Zenon DEF Line, Low, Bus
<1>5. Wires'
  <2>1. IsLow(bus)
    BY <1>3, Zenon DEF IsLow
  <2> QED
    BY <1>1, <2>1 DEF Wires
<1> DEFINE e == IF Line(bus) THEN 1 ELSE 0
<1>6. e \in Bit
  BY DEF Bit
<1>7. ASSUME ~Reading PROVE e = 1
  BY <1>1, <1>4, <1>7 DEF InPlace, Driven
<1>8. ASSUME Reading PROVE e = Words[WordsRead + 1][Len(bits) + 1]
  <2>1. /\ BitsRead \in 0 .. Bits - 1 /\ Bits \in Nat
        /\ Stored[BitsRead + 1] = Words[WordsRead + 1][Len(bits) + 1]
        /\ Words[WordsRead + 1][Len(bits) + 1] \in Bit
    BY <1>1, <1>3, <1>8, PlaceRead, BoardShape
  <2>2. cpld = At("read", BitsRead + 1) /\ Reached
    BY <1>1, <1>8 DEF InPlace, Reading
  <2>3. cpld.at = BitsRead + 1 /\ Driven
    BY <2>1, <2>2 DEF At, Driven
  <2> QED
    BY <1>4, <2>1, <2>3 DEF Bit
<1> HIDE DEF e
<1>9. /\ Len(bits) \in Nat /\ Len(bits') = Len(bits) + 1
      /\ \A i \in 1 .. Len(bits) : bits'[i] = bits[i]
      /\ bits'[Len(bits) + 1] = e
  <2>1. bits' = Append(bits, e)
    BY <1>1 DEF e
  <2> QED
    BY <1>1, <1>6, <2>1, BitsGrow
<1>10. ASSUME ~Reading PROVE ~Known(mezz) /\ \A i \in 1 .. Len(bits') : bits'[i] = 1
  BY <1>1, <1>7, <1>9, <1>10 DEF InPlace
<1>11. ASSUME Reading PROVE \A i \in 1 .. Len(bits') : bits'[i] = Words[WordsRead + 1][i]
  BY <1>1, <1>8, <1>9, <1>11 DEF InPlace
<1>12. ASSUME Reading PROVE cpld' = At("read", BitsRead' + 0)
  <2>1. cpld = At("read", BitsRead + 1) /\ BitsRead \in 0 .. Bits - 1 /\ Bits \in Nat
    BY <1>1, <1>3, <1>12, PlaceRead, BoardShape DEF InPlace
  <2>2. BitsRead' = WordsRead * WordBits + (Len(bits) + 1)
    BY <1>2, <1>9 DEF BitsRead
  <2>3. WordsRead * WordBits \in Nat
    <3>1. WordsRead \in Nat /\ WordBits \in Nat
      BY <1>1, <1>3, <1>12, PlaceRead, WordFields, BoardShape
    <3> QED
      BY <3>1
  <2>4. BitsRead' + 0 = BitsRead + 1
    BY <1>9, <2>2, <2>3 DEF BitsRead
  <2> QED
    BY <1>1, <2>1, <2>4
<1>13. /\ ~Reading /\ Reached => cpld.phase # "read" \/ cpld.at = 0
       /\ Known(mezz) => /\ Good /\ mezz.id = Id(Words[1]) /\ mezz.rev = Rev(Words[1])
                         /\ mezz.n = Len(Words) - 1
                         /\ \A i \in 1 .. Len(mezz.data) : mezz.data[i] = Words[i + 1]
  BY <1>1 DEF InPlace
<1> QED
  BY <1>1, <1>2, <1>5, <1>10, <1>11, <1>12, <1>13 DEF InPlace

(* A word read whole is the board's next, or one that nobody drives.        *)
LEMMA WholeWord ==
  ASSUME TypeInv, InPlace, pc = "word", Len(bits) = WordBits
  PROVE  /\ ~Reading => bits = Undriven /\ ~Legal(bits)
         /\ Reading => /\ WordsRead \in 0 .. Len(Words) - 1 /\ bits = Words[WordsRead + 1]
                       /\ cpld = At("read", BitsRead) /\ Reached
         /\ at = 1 /\ Len(Words) \in Nat
<1>1. /\ board \in Boards /\ bits \in Seq(Bit) /\ mezz \in Mezz /\ WordBits \in Nat \ {0}
      /\ ~Legal(Undriven) /\ Len(Words) \in Nat
  BY BoardShape, WordFields DEF TypeInv, TypeOK, Bit
<1>2. at = 1
  BY DEF TypeInv, WordsCount
<1>3. ASSUME ~Reading PROVE bits = Undriven
  <2>1. Undriven \in Seq(Bit) /\ Len(Undriven) = WordBits
    <3>1. Undriven \in [1 .. WordBits -> Bit]
      BY DEF Undriven, Bit
    <3> QED
      BY <1>1, <3>1, FunctionIsSeq
  <2>2. \A i \in 1 .. Len(bits) : bits[i] = Undriven[i]
    BY <1>3 DEF InPlace, Undriven
  <2> QED
    BY <1>1, <2>1, <2>2, SeqEqual
<1>4. ASSUME Reading
      PROVE  /\ WordsRead \in 0 .. Len(Words) - 1 /\ bits = Words[WordsRead + 1]
             /\ cpld = At("read", BitsRead) /\ Reached
  <2>1. WordsRead \in 0 .. Len(Words) - 1
    <3>1. CASE Known(mezz)
      <4>1. Len(mezz.data) < mezz.n /\ mezz.n = Len(Words) - 1 /\ Len(mezz.data) \in Nat
        BY <1>1, <3>1, MezzFields DEF TypeInv, WordsCount, InPlace
      <4> QED
        BY <1>1, <3>1, <4>1 DEF WordsRead
    <3>2. CASE ~Known(mezz)
      <4>1. Len(Words) \in Nat \ {0}
        BY <1>1, <1>4, BoardShape DEF Reading
      <4> QED
        BY <3>2, <4>1 DEF WordsRead
    <3> QED
      BY <3>1, <3>2
  <2> HIDE DEF WordsRead
  <2>2. WordsRead + 1 \in 1 .. Len(Words)
    BY <1>1, <2>1
  <2>3. Words[WordsRead + 1] \in Seq(Bit) /\ Len(Words[WordsRead + 1]) = WordBits
    BY <1>1, <2>2, BoardShape
  <2>4. \A i \in 1 .. Len(bits) : bits[i] = Words[WordsRead + 1][i]
    BY <1>4 DEF InPlace
  <2>5. bits = Words[WordsRead + 1]
    BY <1>1, <2>3, <2>4, SeqEqual
  <2>6. cpld = At("read", BitsRead + 0) /\ Reached
    BY <1>2, <1>4 DEF InPlace, Reading
  <2>7. BitsRead + 0 = BitsRead
    <3>1. WordsRead \in Nat /\ WordsRead * WordBits \in Nat
      BY <1>1, <2>1
    <3> QED
      BY <1>1, <3>1 DEF BitsRead
  <2> QED
    BY <2>1, <2>5, <2>6, <2>7
<1> QED
  BY <1>1, <1>2, <1>3, <1>4

(* The first word, when it is legal, is the board's first, and the answer   *)
(* when there is no other.                                                  *)
LEMMA FirstWordTrue ==
  ASSUME TypeInv, InPlace, FirstWord, pc = "word"
  PROVE  /\ pc' = "word" => InPlace'
         /\ Good /\ (pc' = "stop" => mezz' = Answer)
         /\ Known(mezz)' /\ pc' \in {"word", "stop"}
<1>1. /\ Len(bits) = WordBits /\ ~Known(mezz) /\ Legal(bits) /\ bits' = <<>>
      /\ pc' = (IF Blocks(bits) > 1 THEN "word" ELSE "stop")
      /\ UNCHANGED <<board, errorKept, bus, cpld, pins, at>>
      /\ board \in Boards
  BY DEF FirstWord, hardware, wires, TypeInv, TypeOK
<1>2. Reading /\ WordsRead = 0 /\ bits = Words[0 + 1] /\ cpld = At("read", BitsRead) /\ at = 1
  BY <1>1, WholeWord DEF WordsRead
<1>3. bits = Words[1] /\ 0 + 1 = 1
  BY <1>2
<1>4. Good
  BY <1>1, <1>2, <1>3 DEF Good, Readable, Reading, Reached, Words
<1>5. mezz' = [id |-> Id(bits), n |-> Blocks(bits) - 1, rev |-> Rev(bits), data |-> <<>>]
  BY FirstWordFits
<1>6. /\ Blocks(Words[1]) = Len(Words) /\ Id(Words[1]) \in Nat
      /\ Answer = [id |-> Id(Words[1]), n |-> Len(Words) - 1, rev |-> Rev(Words[1]),
                   data |-> Tail(Words)]
      /\ Len(Words) \in Nat /\ Words \in Seq(Seq(Bit)) /\ Words # <<>>
  BY <1>1, <1>4, AnswerIs, BoardShape
<1>7. Known(mezz)' /\ mezz'.id = Id(Words[1]) /\ mezz'.data = <<>> /\ Len(<<>>) = 0
  <2>1. mezz'.id = Id(Words[1]) /\ mezz'.data = <<>>
    BY <1>3, <1>5
  <2>2. Known(mezz')
    BY <1>6, <2>1, NumbersKnown
  <2>3. Known(mezz)' <=> Known(mezz')
    BY <1>1 DEF Known
  <2> QED
    BY <2>1, <2>2, <2>3, EmptySeq
<1>8. ASSUME pc' = "stop" PROVE mezz' = Answer
  <2>1. Len(Words) = 1
    <3>1. Len(Words) \in Nat \ {0}
      BY <1>1, <1>6, BoardShape
    <3>2. ~(Blocks(bits) > 1)
      <4>1. "word" # "stop"
        OBVIOUS
      <4> QED
        BY <1>1, <1>8, <4>1, Zenon
    <3>3. ~(Len(Words) > 1)
      BY <1>3, <1>6, <3>2, Zenon
    <3>4. \A n \in Nat \ {0} : ~(n > 1) => n = 1
      OBVIOUS
    <3> QED
      BY <3>1, <3>3, <3>4, Zenon
  <2>2. Tail(Words) = <<>>
    <3>1. Tail(Words) \in Seq(Seq(Bit)) /\ Len(Tail(Words)) = Len(Words) - 1
      BY <1>6, HeadTailProperties
    <3>2. Len(Tail(Words)) = 0
      BY <2>1, <3>1
    <3> QED
      BY <3>1, <3>2, EmptySeq
  <2> QED
    BY <1>3, <1>5, <1>6, <2>2
<1>9. ASSUME pc' = "word" PROVE InPlace'
  <2>1. WordsRead' = 1
    BY <1>7 DEF WordsRead
  <2>2. BitsRead' = BitsRead
    <3>1. BitsRead = 0 * WordBits + WordBits /\ BitsRead' = 1 * WordBits + 0
      BY <1>1, <1>2, <1>7, <2>1 DEF BitsRead
    <3>2. WordBits \in Nat
      BY WordFields
    <3> QED
      BY <3>1, <3>2
  <2>3. Wires'
    BY <1>1, <1>2 DEF InPlace, Wires
  <2>4. /\ Words' = Words /\ (Reading' <=> Reading) /\ (Reached' <=> Reached) /\ (Good' <=> Good)
    BY <1>1 DEF Reading, Reached, Words, Good, Readable
  <2>5. mezz'.rev = Rev(Words[1]) /\ mezz'.n = Len(Words) - 1
    BY <1>3, <1>5, <1>6
  <2>6. BitsRead + 0 = BitsRead
    <3>1. BitsRead = 0 * WordBits + WordBits /\ WordBits \in Nat
      BY <1>1, <1>2, WordFields DEF BitsRead
    <3> QED
      BY <3>1
  <2> QED
    BY <1>1, <1>2, <1>4, <1>7, <2>2, <2>3, <2>4, <2>5, <2>6 DEF InPlace
<1> QED
  BY <1>1, <1>4, <1>7, <1>8, <1>9

(* A word more is the board's next; the last completes the answer.          *)
LEMMA MoreWordsTrue ==
  ASSUME TypeInv, InPlace, MoreWords, pc = "word"
  PROVE  /\ pc' = "word" => InPlace'
         /\ Good /\ (pc' = "stop" => mezz' = Answer)
         /\ Known(mezz)' /\ pc' \in {"word", "stop"}
<1>1. /\ Len(bits) = WordBits /\ Known(mezz) /\ bits' = <<>>
      /\ pc' = (IF Len(mezz'.data) < mezz.n THEN "word" ELSE "stop")
      /\ UNCHANGED <<board, errorKept, bus, cpld, pins, at>>
      /\ board \in Boards
  BY DEF MoreWords, hardware, wires, TypeInv, TypeOK
<1>2. /\ Good /\ mezz.id = Id(Words[1]) /\ mezz.rev = Rev(Words[1]) /\ mezz.n = Len(Words) - 1
      /\ \A i \in 1 .. Len(mezz.data) : mezz.data[i] = Words[i + 1]
  BY <1>1 DEF InPlace
<1>3. Reading
  BY <1>1 DEF InPlace
<1>4. /\ WordsRead = Len(mezz.data) + 1 /\ bits = Words[WordsRead + 1]
      /\ cpld = At("read", BitsRead) /\ at = 1 /\ Reached
      /\ WordsRead \in 0 .. Len(Words) - 1 /\ Len(Words) \in Nat
  BY <1>1, <1>3, WholeWord DEF WordsRead
<1>5. /\ mezz' = [id |-> mezz.id, n |-> mezz.n, rev |-> mezz.rev, data |-> Append(mezz.data, bits)]
      /\ mezz.data \in Seq(Seq(Bit)) /\ bits \in Seq(Bit) /\ Len(mezz.data) \in Nat
      /\ Len(mezz'.data) = Len(mezz.data) + 1 /\ Len(mezz'.data) <= mezz.n
  BY MoreWordsFits
<1>6. /\ mezz'.id = mezz.id /\ mezz'.n = mezz.n /\ mezz'.rev = mezz.rev
      /\ mezz'.data = Append(mezz.data, bits)
  BY <1>5
<1>7. \A i \in 1 .. Len(mezz'.data) : mezz'.data[i] = Words[i + 1]
  <2>1. /\ \A i \in 1 .. Len(mezz.data) : mezz'.data[i] = mezz.data[i]
        /\ mezz'.data[Len(mezz.data) + 1] = bits
    <3>1. mezz.data \in Seq(Seq(Bit)) /\ bits \in Seq(Bit)
      BY <1>5
    <3>2. /\ \A i \in 1 .. Len(mezz.data) : Append(mezz.data, bits)[i] = mezz.data[i]
          /\ Append(mezz.data, bits)[Len(mezz.data) + 1] = bits
      BY <3>1, WordsGrow, Zenon
    <3> QED
      BY <1>6, <3>2, Zenon
  <2>2. bits = Words[(Len(mezz.data) + 1) + 1]
    BY <1>4
  <2> QED
    BY <1>2, <1>5, <2>1, <2>2
<1>8. Known(mezz)'
  <2>1. mezz'.id \in Nat
    BY <1>1, <1>2, <1>6, AnswerIs
  <2>2. Known(mezz')
    BY <2>1, NumbersKnown
  <2>3. Known(mezz)' <=> Known(mezz')
    BY <1>1 DEF Known
  <2> QED
    BY <2>2, <2>3
<1>9. ASSUME pc' = "stop" PROVE mezz' = Answer
  <2>1. Len(mezz'.data) = Len(Words) - 1
    BY <1>1, <1>2, <1>4, <1>5, <1>9
  <2>2. /\ Words \in Seq(Seq(Bit)) /\ Words # <<>>
        /\ Answer = [id |-> Id(Words[1]), n |-> Len(Words) - 1, rev |-> Rev(Words[1]),
                     data |-> Tail(Words)]
    BY <1>1, <1>2, AnswerIs, BoardShape
  <2>3. mezz'.data = Tail(Words)
    <3>1. /\ Tail(Words) \in Seq(Seq(Bit)) /\ Len(Tail(Words)) = Len(Words) - 1
          /\ \A i \in 1 .. Len(Tail(Words)) : Tail(Words)[i] = Words[i + 1]
      BY <2>2, HeadTailProperties
    <3>2. mezz'.data \in Seq(Seq(Bit))
      <4>1. mezz.data \in Seq(Seq(Bit)) /\ bits \in Seq(Bit)
        BY <1>5
      <4>2. Append(mezz.data, bits) \in Seq(Seq(Bit))
        BY <4>1, WordsGrow, Zenon
      <4> QED
        BY <1>6, <4>2, Zenon
    <3>3. \A i \in 1 .. Len(mezz'.data) : mezz'.data[i] = Tail(Words)[i]
      BY <1>7, <2>1, <3>1
    <3> QED
      BY <2>1, <3>1, <3>2, <3>3, SeqEqual
  <2>4. mezz' = [id |-> mezz.id, n |-> mezz.n, rev |-> mezz.rev, data |-> mezz'.data]
    BY <1>5, <1>6
  <2> QED
    BY <1>2, <2>2, <2>3, <2>4
<1>10. ASSUME pc' = "word" PROVE InPlace'
  <2>1. WordsRead' = WordsRead + 1
    BY <1>4, <1>5, <1>8 DEF WordsRead
  <2>2. BitsRead' = BitsRead /\ BitsRead + 0 = BitsRead
    <3>1. WordBits \in Nat /\ WordsRead \in Nat /\ Len(<<>>) = 0
      BY <1>4, WordFields, EmptySeq
    <3>2. BitsRead = WordsRead * WordBits + WordBits /\ BitsRead' = (WordsRead + 1) * WordBits + 0
      BY <1>1, <2>1, <3>1 DEF BitsRead
    <3>3. /\ (WordsRead + 1) * WordBits = WordsRead * WordBits + WordBits
          /\ WordsRead * WordBits \in Nat
      BY <3>1
    <3> QED
      BY <3>1, <3>2, <3>3
  <2>3. Wires'
    BY <1>1, <1>4 DEF InPlace, Wires
  <2>4. /\ Words' = Words /\ (Reading' <=> Reading) /\ (Reached' <=> Reached) /\ (Good' <=> Good)
    BY <1>1 DEF Reading, Reached, Words, Good, Readable
  <2>5. Len(<<>>) = 0
    BY EmptySeq
  <2> QED
    BY <1>1, <1>2, <1>3, <1>4, <1>6, <1>7, <1>8, <2>2, <2>3, <2>4, <2>5 DEF InPlace
<1> QED
  BY <1>1, <1>2, <1>8, <1>9, <1>10

(* The board does not change, nor does the answer.                          *)
LEMMA SameBoard ==
  ASSUME UNCHANGED hardware
  PROVE  /\ Answer' = Answer /\ (Good' <=> Good) /\ Words' = Words /\ UNCHANGED board
         /\ \A c \in Channels : (driver'[c] = driver[c]) =>
              (driver[c] \in {NoMezz, Answer} => driver'[c] \in {NoMezz, Answer'})
         /\ (mezz' = mezz) => (Known(mezz)' <=> Known(mezz))
BY DEF hardware, Answer, Readable, Good, Words, Known

(* The last write of the reset leaves the CPLD at its first word.           *)
LEMMA WordBegins ==
  ASSUME TypeInv, ResetDone, Reset, pc' = "word"
  PROVE  InPlace'
<1>1. /\ UNCHANGED hardware /\ bits' = bits /\ mezz' = mezz /\ pc = "reset"
      /\ at' = 1 /\ bits = <<>> /\ ~Known(mezz) /\ board \in Boards /\ pins' = pins
  <2>1. UNCHANGED hardware /\ bits' = bits /\ mezz' = mezz /\ pc = "reset" /\ pins' = pins
    BY DEF Reset, Writes, Drive
  <2>2. at' = 1
    <3>1. \/ at' = at + 1 /\ pc' = "reset"
          \/ at' = 1 /\ pc' = "word"
      BY DEF Reset, Writes
    <3> QED
      BY <3>1
  <2> QED
    BY <2>1, <2>2 DEF TypeInv, TypeOK, WordsCount
<1>2. at = ClocksEnd + 18 /\ bus' = Low(TRUE, TRUE) /\ (Reached => Progress(at + 1, cpld'))
  BY ResetStep
<1>3. Reached' <=> Reached
  BY <1>1 DEF Reached, hardware
<1>4. Reached => cpld' = At("read", 0)
  <2>1. ClocksEnd \in Nat
    BY <1>1, BoardShape DEF ClocksEnd
  <2>2. (ClocksEnd + 18) + 1 \in ClocksEnd + 16 .. ClocksEnd + 19
    BY <2>1
  <2>3. Reached => Progress((ClocksEnd + 18) + 1, cpld')
    BY <1>2
  <2> QED
    BY <2>2, <2>3 DEF Progress
<1>5. ~Known(mezz)'
  BY <1>1, SameBoard
<1>6. BitsRead' = 0 /\ Len(bits') = 0 /\ Len(<<>>) = 0
  <2>1. Len(<<>>) = 0 /\ WordBits \in Nat
    BY EmptySeq, WordFields
  <2>2. WordsRead' = 0
    BY <1>5 DEF WordsRead
  <2> QED
    BY <1>1, <2>1, <2>2 DEF BitsRead
<1>7. Wires'
  <2>1. IsLow(bus')
    BY <1>2, Zenon DEF IsLow
  <2> QED
    BY <1>1, <2>1 DEF Wires
<1>8. At("read", 0).at = 0
  BY DEF At
<1>9. Reached' => cpld' = At("read", BitsRead' + IF at' = 1 THEN 0 ELSE 1)
  BY <1>1, <1>3, <1>4, <1>6
<1>10. \A i \in 1 .. Len(bits') : i \in {}
  BY <1>6
<1>11. Reached' => cpld'.phase # "read" \/ cpld'.at = 0
  BY <1>3, <1>4, <1>8
<1> QED
  BY <1>5, <1>7, <1>9, <1>10, <1>11 DEF InPlace, Reading

(* A first word that is illegal was read where nobody drives the line, or   *)
(* from a board that has no legal one.                                      *)
LEMMA BadWordTrue ==
  ASSUME TypeInv, InPlace, BadWord, Good
  PROVE  pins # board.pins
<1> SUFFICES ASSUME pins = board.pins PROVE FALSE
  OBVIOUS
<1>1. pc = "word" /\ Len(bits) = WordBits /\ ~Known(mezz) /\ ~Legal(bits) /\ board \in Boards
  BY DEF BadWord, TypeInv, TypeOK
<1>2. Reading
  BY DEF Reading, Reached, Good, Readable, Words
<1>3. bits = Words[WordsRead + 1] /\ WordsRead = 0
  BY <1>1, <1>2, WholeWord DEF WordsRead
<1>4. bits = Words[1]
  BY <1>3
<1>5. Legal(Words[1])
  BY DEF Good, Readable, Words
<1> QED
  BY <1>1, <1>4, <1>5

(* Before its first write a reset has brought the CPLD nowhere.             *)
LEMMA ProgressBegins ==
  ASSUME board \in Boards
  PROVE  \A c : Progress(1, c)
<1>1. ClocksEnd \in Nat /\ ClocksEnd >= 7
  BY BoardShape DEF ClocksEnd
<1> QED
  BY <1>1 DEF Progress

-----------------------------------------------------------------------------
(* Steps between the lookups of one program.                                *)
LEMMA TruthStep == TypeInv /\ Truth /\ [Next]_vars => Truth' \/ Disturb
<1> SUFFICES ASSUME TypeInv, Truth, [Next]_vars, ~Disturb PROVE Truth'
  OBVIOUS
<1> DEFINE going == {"reset", "word", "retry", "again", "stop", "stopped"}
<1>1. /\ board \in Boards /\ RightPins /\ HoldsAnswer /\ ResetDone /\ InPlace
      /\ try3x3g \in BOOLEAN /\ pins \in {"standard", "3x3g"}
      /\ board.pins \in {"standard", "3x3g"}
      /\ driver \in [Channels -> Mezz]
  <2>1. board \in Boards
    BY DEF TypeInv, TypeOK
  <2> QED
    BY <2>1, BoardShape DEF Truth, TypeInv, TypeOK
<1>2. ~Known(NoMezz)
  BY NoMezzFits
<1>3. ASSUME UNCHANGED hardware, UNCHANGED <<pins, try3x3g>>, pc' = pc PROVE RightPins'
  BY <1>1, <1>3, SameBoard DEF RightPins
<1>4. ASSUME UNCHANGED hardware, UNCHANGED driver
      PROVE  \A c \in Channels : driver'[c] \in {NoMezz, Answer'}
  BY <1>1, <1>4, SameBoard DEF HoldsAnswer
<1>5. ASSUME pc' # "reset", pc' # "word" PROVE ResetDone' /\ InPlace'
  BY <1>5 DEF ResetDone, InPlace
<1>6. ASSUME pc' \notin going PROVE RightPins' /\ ResetDone' /\ InPlace'
  BY <1>6 DEF RightPins, ResetDone, InPlace
<1> HIDE DEF going
<1>7. CASE UNCHANGED vars
  <2>1. /\ UNCHANGED <<hardware, driver, pc, at, bits, tries, try3x3g, mezz, bus, pins, cpld>>
    BY <1>7 DEF vars, wires, reading
  <2>2. HoldsAnswer'
    BY <1>1, <1>4, <2>1, SameBoard DEF HoldsAnswer
  <2>3. ResetDone'
    BY <1>1, <2>1, SameBoard DEF ResetDone, Reached
  <2>4. InPlace'
    <3>1. /\ WordsRead' = WordsRead /\ BitsRead' = BitsRead /\ (Reached' <=> Reached)
          /\ (Reading' <=> Reading) /\ (Wires' <=> Wires)
      BY <2>1, SameBoard DEF WordsRead, BitsRead, Reached, Reading, Wires
    <3> QED
      BY <1>1, <2>1, <3>1, SameBoard DEF InPlace
  <2> QED
    BY <1>3, <2>1, <2>2, <2>3, <2>4 DEF Truth
<1>8. CASE \E c \in Channels : Lookup(c)
  <2>1. PICK c \in Channels : Lookup(c)
    BY <1>8
  <2>2. /\ UNCHANGED <<hardware, driver>> /\ mezz' = driver[c]
        /\ pc' = IF Known(driver[c]) THEN "done" ELSE "register"
    BY <2>1 DEF Lookup
  <2>3. driver[c] \in {NoMezz, Answer}
    BY <1>1, <2>1 DEF HoldsAnswer
  <2>4. pc' \in {"register", "done"} /\ mezz' \in {NoMezz, Answer'}
        /\ (pc' = "done" => mezz' = Answer')
    BY <1>2, <2>2, <2>3, SameBoard
  <2>5. HoldsAnswer'
    BY <1>4, <2>2, <2>4 DEF HoldsAnswer
  <2> QED
    BY <1>6, <2>4, <2>5 DEF Truth, going
<1>9. CASE Plain
  <2>1. /\ UNCHANGED <<hardware, driver>> /\ pc = "register" /\ board.says # "extended"
        /\ \/ board.says = "id" /\ mezz' = Simple(board.id) /\ pc' = "store"
           \/ board.says # "id" /\ mezz' = mezz /\ pc' = "done"
    BY <1>9 DEF Plain, Store
  <2>2. mezz \in {NoMezz, Answer}
    BY <1>1, <2>1 DEF HoldsAnswer
  <2>3. mezz' = Answer
    BY <1>1, <2>1, <2>2, AnswerIs
  <2>4. HoldsAnswer'
    BY <1>4, <2>1, <2>3, SameBoard DEF HoldsAnswer
  <2> QED
    BY <1>6, <2>1, <2>4 DEF Truth, going
<1>10. CASE Extended
  <2>1. /\ UNCHANGED <<hardware, driver>> /\ pc = "register" /\ board.says = "extended"
        /\ pins' = "standard" /\ pc' = "reset" /\ at' = 1 /\ try3x3g' = TRUE /\ mezz' = mezz
    BY <1>10 DEF Extended
  <2>2. RightPins'
    BY <2>1, SameBoard DEF RightPins
  <2>3. HoldsAnswer'
    BY <1>1, <1>4, <2>1, SameBoard DEF HoldsAnswer
  <2>4. ResetDone' /\ InPlace'
    BY <1>1, <2>1, ProgressBegins DEF ResetDone, InPlace
  <2> QED
    BY <2>2, <2>3, <2>4 DEF Truth
<1>11. CASE Reset
  <2>1. /\ UNCHANGED <<hardware, driver, mezz, bits, try3x3g, pins>> /\ pc = "reset"
        /\ pc' \in {"reset", "word"}
    BY <1>11 DEF Reset, Writes, Drive
  <2>2. RightPins'
    BY <1>1, <2>1, SameBoard DEF RightPins
  <2>3. HoldsAnswer'
    BY <1>1, <1>4, <2>1, SameBoard DEF HoldsAnswer
  <2>4. ResetDone'
    <3> SUFFICES ASSUME pc' = "reset"
                 PROVE  /\ at' > 1 => bus' = edt_extbdid_reset[at' - 1]
                        /\ Reached' => Progress(at', cpld')
      BY DEF ResetDone
    <3>1. /\ bus' = edt_extbdid_reset[at] /\ at' = at + 1 /\ at \in 1 .. ClocksEnd + 18
          /\ (Reached => Progress(at + 1, cpld'))
      BY <1>1, <1>11, ResetStep
    <3>2. Reached' <=> Reached
      BY <2>1, SameBoard DEF Reached
    <3>3. at' - 1 = at
      <4>1. ClocksEnd + 18 \in Nat
        BY <1>1, BoardShape DEF ClocksEnd
      <4> QED
        BY <3>1, <4>1
    <3>4. bus' = edt_extbdid_reset[at' - 1]
      BY <3>1, <3>3
    <3> QED
      BY <3>1, <3>2, <3>4
  <2>5. InPlace'
    <3>1. pc' = "word" => InPlace'
      BY <1>1, <1>11, WordBegins
    <3> QED
      BY <3>1 DEF InPlace
  <2> QED
    BY <2>2, <2>3, <2>4, <2>5 DEF Truth
<1>12. CASE Clock \/ Sample
  <2>1. /\ UNCHANGED <<hardware, driver, mezz, try3x3g, pins>> /\ pc = "word" /\ pc' = "word"
    BY <1>12 DEF Clock, Sample, Drive, wires
  <2>2. RightPins'
    BY <1>3, <2>1
  <2>3. HoldsAnswer'
    BY <1>1, <1>4, <2>1, SameBoard DEF HoldsAnswer
  <2>4. InPlace'
    BY <1>1, <1>12, ClockInPlace, SampleInPlace
  <2>5. ResetDone'
    BY <2>1 DEF ResetDone
  <2> QED
    BY <2>2, <2>3, <2>4, <2>5 DEF Truth
<1>13. CASE FirstWord \/ MoreWords
  <2>1. /\ UNCHANGED <<hardware, driver, try3x3g, pins>> /\ pc = "word"
    BY <1>13 DEF FirstWord, MoreWords, wires
  <2>2. /\ pc' = "word" => InPlace'
        /\ Good /\ (pc' = "stop" => mezz' = Answer)
        /\ Known(mezz)' /\ pc' \in {"word", "stop"}
    BY <1>1, <1>13, <2>1, FirstWordTrue, MoreWordsTrue
  <2>3. RightPins'
    BY <1>1, <2>1, <2>2, SameBoard DEF RightPins
  <2>4. HoldsAnswer'
    BY <1>4, <2>1, <2>2, SameBoard DEF HoldsAnswer
  <2>5. ResetDone' /\ InPlace'
    BY <2>2 DEF ResetDone, InPlace
  <2> QED
    BY <2>3, <2>4, <2>5 DEF Truth
<1>14. CASE BadWord
  <2>1. /\ UNCHANGED <<hardware, driver, try3x3g, pins, mezz>> /\ pc = "word" /\ pc' = "retry"
        /\ ~Known(mezz)
    BY <1>14 DEF BadWord, wires
  <2>2. Good => pins # board.pins
    BY <1>1, <1>14, BadWordTrue
  <2>3. RightPins'
    BY <1>1, <2>1, <2>2, SameBoard DEF RightPins
  <2>4. HoldsAnswer'
    BY <1>1, <1>4, <2>1, SameBoard DEF HoldsAnswer
  <2> QED
    BY <1>5, <2>1, <2>3, <2>4 DEF Truth
<1>15. CASE StopRetry \/ Stop
  <2>1. /\ UNCHANGED <<hardware, driver, try3x3g, pins, mezz>>
        /\ \/ pc = "retry" /\ pc' \in {"retry", "again"}
           \/ pc = "stop" /\ pc' \in {"stop", "stopped"}
    BY <1>15 DEF StopRetry, Stop, Writes, Drive
  <2>2. RightPins'
    BY <1>1, <2>1, SameBoard DEF RightPins
  <2>3. HoldsAnswer'
    BY <1>1, <1>4, <2>1, SameBoard DEF HoldsAnswer
  <2> QED
    BY <1>5, <2>1, <2>2, <2>3 DEF Truth
<1>16. CASE TryAgain
  <2>1. /\ UNCHANGED <<hardware, driver, mezz, at>> /\ pc = "again" /\ at = 1
        /\ \/ pc' = "reset" /\ pins' = pins /\ try3x3g' = try3x3g
           \/ pc' = "reset" /\ try3x3g /\ try3x3g' = FALSE /\ pins' = "3x3g"
           \/ pc' = "stop" /\ ~try3x3g /\ pins' = pins /\ try3x3g' = try3x3g
    BY <1>16 DEF TryAgain, TypeInv, WordsCount
  <2>2. board.says = "extended" /\ (pins = "3x3g" <=> ~try3x3g)
        /\ (Good => pins # board.pins /\ (pins = "3x3g" => board.pins = "3x3g"))
    BY <1>1, <2>1 DEF RightPins
  <2>3. RightPins'
    BY <1>1, <2>1, <2>2, SameBoard DEF RightPins
  <2>4. pc' = "stop" => ~Good
    BY <2>1, <2>2
  <2>5. HoldsAnswer'
    BY <1>1, <1>4, <2>1, <2>4, SameBoard DEF HoldsAnswer
  <2>6. ResetDone' /\ InPlace'
    BY <1>1, <2>1, ProgressBegins DEF ResetDone, InPlace
  <2> QED
    BY <2>3, <2>5, <2>6 DEF Truth
<1>17. CASE Found
  <2>1. /\ UNCHANGED <<hardware, driver>> /\ pc = "stopped" /\ pc' = "store"
        /\ mezz' = IF mezz.id = Unknown THEN Simple(-1) ELSE mezz
    BY <1>17 DEF Found, Store
  <2>2. /\ board.says = "extended" /\ mezz \in {NoMezz, Answer} /\ (Good => mezz = Answer)
    BY <1>1, <2>1 DEF RightPins, HoldsAnswer
  <2>3. mezz' = Answer
    <3>1. CASE Good
      BY <1>1, <2>1, <2>2, <3>1, AnswerIs, NumbersKnown
    <3>2. CASE ~Good
      <4>1. Answer = Simple(-1) /\ NoMezz.id = Unknown /\ Simple(-1).id = -1 /\ Unknown # -1
        BY <1>1, <2>2, <3>2, AnswerIs DEF NoMezz, Simple, Unknown
      <4> QED
        BY <2>1, <2>2, <4>1
    <3> QED
      BY <3>1, <3>2
  <2>4. HoldsAnswer'
    BY <1>4, <2>1, <2>3, SameBoard DEF HoldsAnswer
  <2> QED
    BY <1>6, <2>1, <2>4 DEF Truth, going
<1>18. CASE \E c \in Channels : SetMezzId(c)
  <2>1. PICK c \in Channels : SetMezzId(c)
    BY <1>18
  <2>2. /\ UNCHANGED <<hardware, mezz>> /\ pc = "store" /\ pc' \in {"store", "done"}
        /\ driver' = [driver EXCEPT ![c] = mezz]
    BY <2>1 DEF SetMezzId
  <2>3. mezz = Answer
    BY <1>1, <2>2 DEF HoldsAnswer
  <2>4. \A d \in Channels : driver'[d] \in {NoMezz, Answer}
    BY <1>1, <2>2, <2>3 DEF HoldsAnswer
  <2>5. HoldsAnswer'
    BY <2>2, <2>3, <2>4, SameBoard DEF HoldsAnswer
  <2> QED
    BY <1>6, <2>2, <2>5 DEF Truth, going
<1>19. CASE Return \/ Kill
  <2>1. UNCHANGED <<hardware, driver>> /\ pc' = "idle"
    BY <1>19 DEF Return, Kill
  <2>2. HoldsAnswer'
    BY <1>4, <2>1 DEF HoldsAnswer
  <2> QED
    BY <1>6, <2>1, <2>2 DEF Truth, going
<1> QED
  BY <1>7, <1>8, <1>9, <1>10, <1>11, <1>12, <1>13, <1>14, <1>15, <1>16, <1>17, <1>18, <1>19
     DEF Next, Work

(* The whole: nothing is claimed once another lookup got in between.        *)
LEMMA TruthInvariant ==
  /\ Init => TruthInv
  /\ TypeInv /\ TruthInv /\ [Next]_vars => TruthInv'
<1>1. ASSUME Init PROVE TruthInv
  <2>1. /\ pc = "idle" /\ disturbed = 0 /\ \A c \in Channels : driver[c] = NoMezz
    BY <1>1 DEF Init
  <2> QED
    BY <2>1 DEF TruthInv, Truth, RightPins, HoldsAnswer, ResetDone, InPlace
<1>2. ASSUME TypeInv, TruthInv, [Next]_vars PROVE TruthInv'
  <2>1. CASE Disturb
    BY <1>2, <2>1 DEF Disturb, TruthInv
  <2>2. CASE ~Disturb
    <3>1. disturbed' = disturbed
      BY <1>2, <2>2 DEF Next, Work, vars, counts, Lookup, Plain, Extended, Reset, Clock, Sample,
         FirstWord, BadWord, MoreWords, StopRetry, TryAgain, Stop, Found, SetMezzId, Return, Kill,
         Writes
    <3>2. Truth => Truth'
      BY <1>2, <2>2, TruthStep
    <3> QED
      BY <1>2, <3>1, <3>2 DEF TruthInv
  <2> QED
    BY <2>1, <2>2
<1> QED
  BY <1>1, <1>2

(* A lookup that no other program disturbs returns the board's identity,    *)
(* whatever a killed program left on the wires and in the CPLD.             *)
THEOREM LookupFindsIdentity == Spec => []IdentifiesBoard
<1>1. TruthInv => IdentifiesBoard
  BY DEF TruthInv, Truth, HoldsAnswer, IdentifiesBoard
<1> QED
  BY <1>1, TypeInit, TypeStep, TruthInvariant, PTL DEF Spec

(* What the driver holds for a channel is nothing or the board's identity,  *)
(* also between the channels it is stored for.                              *)
THEOREM DriverNeverWrong == Spec => []DriverTellsTruth
<1>1. TruthInv => DriverTellsTruth
  BY DEF TruthInv, Truth, HoldsAnswer, DriverTellsTruth
<1> QED
  BY <1>1, TypeInit, TypeStep, TruthInvariant, PTL DEF Spec
=============================================================================
