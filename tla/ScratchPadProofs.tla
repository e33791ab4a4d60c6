------------------------- MODULE ScratchPadProofs -------------------------
(***************************************************************************)
(* The scratch pad, for any sizes, names, values and lengths.              *)
(*                                                                         *)
(* The inductive invariant says that the tokens of the pad form a list     *)
(* (Listed): a set T of offsets, each the beginning of a token that the    *)
(* next one, or the end e, follows, with whole data and names that differ, *)
(* and that nothing else in the pad looks like a token.  On such a pad the *)
(* loops find what they look for (SkipFinds, GetFinds), so that each way   *)
(* kerSysScratchPadSet writes the pad can be followed: a token behind the  *)
(* list, data over data, the tokens behind one moved over it.  Each makes  *)
(* a list again, and changes the value of the name it was called for only. *)
(*                                                                         *)
(* The loops are recursive functions.  That they have a value at all       *)
(* (SkipExists, GetExists) and what it is follow from the least number for *)
(* which it fails (LeastNat), since every token leads further up the pad.  *)
(***************************************************************************)
EXTENDS ScratchPad, WellFoundedInduction, TLAPS

-----------------------------------------------------------------------------
(* Numbers. *)

\* A set of numbers that is not empty has a least one.  This takes the place of
\* induction: the least number for which a claim fails is led to a contradiction.
LEMMA LeastNat ==
    ASSUME NEW S, S \subseteq Nat, S # {}
    PROVE  \E x \in S : \A y \in S : x <= y
<1> DEFINE R == {ss \in Nat \X Nat : ss[1] < ss[2]}
<1>1. IsWellFoundedOn(R, Nat) BY NatLessThanWellFounded DEF OpToRel
<1>2. \A x, y \in Nat : x < y => <<x, y>> \in R OBVIOUS
<1> HIDE DEF R
<1>3. \E x \in S : \A y \in S : ~(<<y, x>> \in R) BY <1>1, WFMin, Zenon
<1>4. PICK x \in S : \A y \in S : ~(<<y, x>> \in R) BY <1>3
<1>5. \A y \in S : x <= y
  <2> SUFFICES ASSUME NEW y \in S, ~(x <= y) PROVE FALSE OBVIOUS
  <2>1. x \in Nat /\ y \in Nat OBVIOUS
  <2>2. y < x BY <2>1
  <2> QED BY <2>1, <2>2, <1>2, <1>4
<1> QED BY <1>5

\* The sizes are numbers, and a header and a token fit.
LEMMA Constants ==
    /\ PadLen \in Nat /\ HeadLen \in Nat /\ TokLen \in Nat /\ Align \in Nat
    /\ PadLen > 0 /\ HeadLen > 0 /\ TokLen > 0 /\ Align > 0
    /\ HeadLen + TokLen < PadLen /\ Lengths \subseteq Nat
BY SizeAssumption

\* The sizes are multiples of Align, as sizeof gives them.
LEMMA Multiples == PadLen % Align = 0 /\ HeadLen % Align = 0 /\ TokLen % Align = 0
BY SizeAssumption

\* Products with a larger factor are larger.
LEMMA Products ==
    ASSUME NEW a \in Int, NEW b \in Int, NEW k \in Nat, a < b
    PROVE  /\ a * k + k <= b * k /\ a * k \in Int /\ b * k \in Int
BY Z3

\* What a quotient and a remainder are.
LEMMA Quotient ==
    ASSUME NEW x \in Nat, NEW k \in Nat, k > 0
    PROVE  /\ x \div k \in Nat /\ x % k \in Nat /\ x % k < k
           /\ x = (x \div k) * k + (x % k) /\ (x \div k) * k \in Nat
<1>1. x \div k \in Nat /\ x % k \in Nat /\ x % k < k OBVIOUS
<1>2. x = k * (x \div k) + (x % k) OBVIOUS
<1>3. k * (x \div k) = (x \div k) * k BY <1>1, Z3
<1>4. (x \div k) * k \in Nat BY <1>1, Z3
<1> QED BY <1>1, <1>2, <1>3, <1>4

\* A multiple leaves no remainder.
LEMMA MultipleOf ==
    ASSUME NEW q \in Int, NEW k \in Nat, k > 0
    PROVE  (q * k) % k = 0
OBVIOUS

\* (l + 3) & ~3 is no less than l.
LEMMA AlignedFacts ==
    ASSUME NEW l \in Nat
    PROVE  Aligned(l) \in Nat /\ Aligned(l) >= l
<1> DEFINE x == l + Align - 1  q == x \div Align
<1>1. x \in Nat BY Constants
<1>2. q \in Nat /\ x % Align \in Nat /\ x % Align < Align /\ x = q * Align + (x % Align)
  BY <1>1, Quotient, Constants
<1> HIDE DEF q
<1>3. q * Align \in Nat BY <1>2, Constants, Z3
<1>4. q * Align >= l BY <1>2, <1>3, Constants
<1> QED BY <1>3, <1>4 DEF Aligned, q

\* (l + 3) & ~3 is a multiple of 4, and no multiple that l fits under is smaller.
LEMMA AlignedFits ==
    ASSUME NEW l \in Nat, NEW m \in Nat, l <= m, m % Align = 0
    PROVE  Aligned(l) <= m /\ Aligned(l) % Align = 0
<1> DEFINE x == l + Align - 1  q == x \div Align  k == m \div Align
<1>1. x \in Nat BY Constants
<1>2. q \in Nat /\ x % Align \in Nat /\ x % Align < Align /\ x = q * Align + (x % Align)
  BY <1>1, Quotient, Constants
<1>3. k \in Nat /\ m = k * Align BY Quotient, Constants
<1> HIDE DEF q, k
<1>4. q * Align \in Nat /\ k * Align \in Nat BY <1>2, <1>3, Constants, Z3
<1>5. ~(k < q)
  <2>1. SUFFICES ASSUME k < q PROVE FALSE OBVIOUS
  <2>2. k * Align + Align <= q * Align BY <2>1, <1>2, <1>3, Products, Constants
  <2>3. l + Align - 1 = q * Align + (x % Align) /\ x % Align < Align /\ x % Align \in Nat BY <1>2
  <2>4. q * Align <= l + Align - 1
    <3> DEFINE y == q * Align  r == x % Align
    <3>1. y \in Nat /\ r \in Nat /\ l + Align - 1 = y + r BY <2>3, <1>4
    <3> HIDE DEF y, r, x
    <3>2. y <= l + Align - 1 BY <3>1, Constants
    <3> QED BY <3>2 DEF y
  <2>5. k * Align >= l BY <1>3
  <2> QED BY <2>2, <2>4, <2>5, <1>4, Constants
<1>6. q * Align <= k * Align
  <2>1. CASE q = k BY <2>1, <1>4
  <2>2. CASE q < k
    <3>1. q * Align + Align <= k * Align BY <2>2, <1>2, <1>3, Products, Constants
    <3> QED BY <3>1, <1>4, Constants
  <2> QED BY <2>1, <2>2, <1>2, <1>3, <1>5
<1>7. (q * Align) % Align = 0 BY <1>2, Constants, MultipleOf
<1> QED BY <1>3, <1>6, <1>7 DEF Aligned, q

\* Sums and differences of multiples are multiples.
LEMMA AlignedSum ==
    ASSUME NEW a \in Nat, NEW b \in Nat, a % Align = 0, b % Align = 0
    PROVE  (a + b) % Align = 0 /\ (a - b) % Align = 0
<1> DEFINE i == a \div Align  j == b \div Align
<1>1. i \in Nat /\ a = i * Align /\ j \in Nat /\ b = j * Align BY Quotient, Constants
<1> HIDE DEF i, j
<1>2. a + b = (i + j) * Align /\ a - b = (i - j) * Align BY <1>1, Constants, Z3
<1>3. ((i + j) * Align) % Align = 0 BY <1>1, Constants, MultipleOf
<1>4. ((i - j) * Align) % Align = 0 BY <1>1, Constants, MultipleOf
<1> QED BY <1>2, <1>3, <1>4

-----------------------------------------------------------------------------
(* Tokens, and the loops over them. *)

\* A cell that begins a token has a name and a length.
LEMMA CellFacts ==
    ASSUME NEW c \in Cell, c[1] = "tok"
    PROVE  c[2] \in Name /\ c[3] \in Nat /\ c[3] \in Lengths \cup {0} /\ c = <<"tok", c[2], c[3]>>
<1>1. c \in {"tok"} \X Name \X (Lengths \cup {0})
  <2>1. c # Zero /\ c # Ff /\ c # Magic /\ c # Rest /\ c # <<"old">>
    BY DEF Zero, Ff, Magic, Rest
  <2>2. c \notin {"data"} \X Val \X (1..PadLen) OBVIOUS
  <2> QED BY <2>1, <2>2 DEF Cell
<1>2. c[2] \in Name /\ c[3] \in Lengths \cup {0} /\ c = <<"tok", c[2], c[3]>> BY <1>1
<1>3. \A z \in Lengths \cup {0} : z \in Nat BY Constants
<1> QED BY <1>2, <1>3

\* The body of the loop in Skip, for a function f that stands for the rest of it.
SkipBody(p, stop, f, o) ==
    IF ~IsToken(At(p, o)) \/ o \in stop THEN o ELSE f[o + Size(At(p, o))]
SkipFrom(p, stop) == CHOOSE f : f = [o \in Nat |-> SkipBody(p, stop, f, o)]

\* Skip is the value of its function at the first token.
LEMMA SkipIs ==
    ASSUME NEW p, NEW stop
    PROVE  Skip(p, stop) = SkipFrom(p, stop)[HeadLen]
BY DEF Skip, SkipFrom, SkipBody

\* What the loops find at a token: the next one begins behind its data.
LEMMA TokenFacts ==
    ASSUME NEW p \in [Offset -> Cell], NEW o \in Nat, IsToken(At(p, o))
    PROVE  /\ o \in Offset /\ At(p, o) = p[o] /\ p[o] = <<"tok", p[o][2], p[o][3]>>
           /\ p[o][2] \in Name /\ p[o][3] \in Lengths /\ p[o][3] \in Nat /\ p[o][3] > 0 /\ p[o][3] < PadLen
           /\ Aligned(p[o][3]) \in Nat /\ Aligned(p[o][3]) >= p[o][3]
           /\ Size(p[o]) \in Nat /\ Size(p[o]) >= TokLen + p[o][3]
           /\ Size(p[o]) = TokLen + Aligned(p[o][3])
<1>1. o < PadLen
  <2>1. Foreign[1] # "tok" BY DEF Foreign
  <2> QED BY <2>1 DEF IsToken, At
<1>2. o \in Offset /\ At(p, o) = p[o] BY <1>1, Constants DEF Offset, At
<1>3. p[o] \in Cell /\ p[o][1] = "tok" /\ p[o][3] > 0 /\ p[o][3] < PadLen BY <1>2 DEF IsToken
<1>4. p[o][2] \in Name /\ p[o][3] \in Nat /\ p[o][3] \in Lengths \cup {0} /\ p[o] = <<"tok", p[o][2], p[o][3]>>
  BY <1>3, CellFacts
<1>5. p[o][3] \in Lengths BY <1>3, <1>4
<1>6. Aligned(p[o][3]) \in Nat /\ Aligned(p[o][3]) >= p[o][3] BY <1>4, AlignedFacts
<1>7. Size(p[o]) = TokLen + Aligned(p[o][3]) BY DEF Size
<1>8. Size(p[o]) \in Nat /\ Size(p[o]) >= TokLen + p[o][3] BY <1>4, <1>6, <1>7, Constants
<1> QED BY <1>2, <1>3, <1>4, <1>5, <1>6, <1>7, <1>8

\* The loops of kerSysScratchPadSet end: there is a function that satisfies the
\* equation of skip.  If there is one that does so from offset c on, its value at c - 1
\* can be made right too, since each token is followed further up.
LEMMA SkipExists ==
    ASSUME NEW p \in [Offset -> Cell], NEW stop
    PROVE  SkipFrom(p, stop) = [o \in Nat |-> SkipBody(p, stop, SkipFrom(p, stop), o)]
<1> DEFINE Holds(f, k) == \A o \in Nat : o + k >= PadLen => f[o] = SkipBody(p, stop, f, o)
           Bad == {k \in Nat : ~ \E f \in [Nat -> Nat] : Holds(f, k)}
<1>1. Bad = {}
  <2> SUFFICES ASSUME Bad # {} PROVE FALSE OBVIOUS
  <2>1. PICK k \in Bad : \A j \in Bad : k <= j
    <3>1. Bad \subseteq Nat OBVIOUS
    <3> HIDE DEF Bad
    <3> QED BY <3>1, LeastNat
  <2>2. k # 0
    <3> SUFFICES ASSUME k = 0 PROVE FALSE OBVIOUS
    <3> DEFINE f == [o \in Nat |-> o]
    <3>1. f \in [Nat -> Nat] OBVIOUS
    <3>2. ASSUME NEW o \in Nat, o + 0 >= PadLen PROVE f[o] = SkipBody(p, stop, f, o)
      <4>1. ~(o < PadLen) BY <3>2, Constants
      <4>2. ~IsToken(At(p, o)) BY <4>1 DEF IsToken, At, Foreign
      <4> QED BY <4>2 DEF SkipBody
    <3> HIDE DEF f
    <3> QED BY <3>1, <3>2
  <2>3. k - 1 \in Nat /\ k - 1 \notin Bad
    <3>1. k \in Nat OBVIOUS
    <3>2. k - 1 \in Nat /\ ~(k <= k - 1) BY <3>1, <2>2
    <3> HIDE DEF Bad
    <3> QED BY <3>2, <2>1
  <2>4. PICK f \in [Nat -> Nat] : Holds(f, k - 1) BY <2>3
  <2>5. CASE k > PadLen
    <3>1. Holds(f, k)
      <4> SUFFICES ASSUME NEW o \in Nat, o + k >= PadLen PROVE f[o] = SkipBody(p, stop, f, o) OBVIOUS
      <4>1. o + (k - 1) >= PadLen BY <2>1, <2>5, Constants
      <4> QED BY <4>1, <2>4
    <3> QED BY <3>1, <2>1
  <2>6. CASE k <= PadLen
    <3> DEFINE c == PadLen - k
               g == [f EXCEPT ![c] = SkipBody(p, stop, f, c)]
    <3>1. c \in Nat BY <2>1, <2>6, Constants
    <3>2. SkipBody(p, stop, f, c) \in Nat
      <4>1. CASE ~IsToken(At(p, c)) \/ c \in stop BY <4>1, <3>1 DEF SkipBody
      <4>2. CASE IsToken(At(p, c)) /\ c \notin stop
        <5>1. c + Size(At(p, c)) \in Nat BY <4>2, <3>1, TokenFacts
        <5> QED BY <4>2, <5>1 DEF SkipBody
      <4> QED BY <4>1, <4>2
    <3>3. g \in [Nat -> Nat] BY <3>1, <3>2
    <3>4. \A o \in Nat : o # c => g[o] = f[o] OBVIOUS
    <3>5. g[c] = SkipBody(p, stop, f, c) BY <3>1
    <3>6. ASSUME NEW o \in Nat, o >= c PROVE SkipBody(p, stop, g, o) = SkipBody(p, stop, f, o)
      <4>1. CASE ~IsToken(At(p, o)) \/ o \in stop BY <4>1 DEF SkipBody
      <4>2. CASE IsToken(At(p, o)) /\ o \notin stop
        <5>1. o + Size(At(p, o)) \in Nat /\ o + Size(At(p, o)) > o BY <4>2, TokenFacts, Constants
        <5>2. o + Size(At(p, o)) # c BY <5>1, <3>6, <3>1
        <5>3. g[o + Size(At(p, o))] = f[o + Size(At(p, o))] BY <5>1, <5>2, <3>4
        <5> QED BY <4>2, <5>3 DEF SkipBody
      <4> QED BY <4>1, <4>2
    <3> HIDE DEF g
    <3>7. ASSUME NEW o \in Nat, o + k >= PadLen PROVE g[o] = SkipBody(p, stop, g, o)
      <4>1. o >= c BY <3>7, <2>1, Constants
      <4>2. CASE o = c BY <4>1, <4>2, <3>5, <3>6
      <4>3. CASE o # c
        <5>1. o + (k - 1) >= PadLen BY <4>1, <4>3, <2>1, Constants
        <5>2. f[o] = SkipBody(p, stop, f, o) BY <5>1, <2>4
        <5> QED BY <5>2, <4>1, <4>3, <3>4, <3>6
      <4> QED BY <4>2, <4>3
    <3> QED BY <3>3, <3>7, <2>1
  <2> QED BY <2>5, <2>6, <2>1, Constants
<1>2. PICK f \in [Nat -> Nat] : Holds(f, PadLen) BY <1>1, Constants
<1>3. \A o \in Nat : f[o] = SkipBody(p, stop, f, o) BY <1>2, Constants
<1>4. f = [o \in Nat |-> SkipBody(p, stop, f, o)] BY <1>3
<1> QED BY <1>4 DEF SkipFrom

\* The body of the loop in Lookup.
GetBody(p, n, f, o, u) ==
    IF ~IsToken(At(p, o)) \/ u >= PadLen THEN PadLen
    ELSE IF At(p, o)[2] = n THEN o
    ELSE f[o + Size(At(p, o))][u + Aligned(At(p, o)[3])]
GetFrom(p, n) == CHOOSE f : f = [o \in Nat |-> [u \in Nat |-> GetBody(p, n, f, o, u)]]

\* Lookup is the value of its function at the first token.
LEMMA LookupIs ==
    ASSUME NEW p, NEW n, HasMagic(p)
    PROVE  Lookup(p, n) = GetFrom(p, n)[HeadLen][HeadLen]
BY DEF Lookup, GetFrom, GetBody

\* The search of kerSysScratchPadGet goes on further up.
LEMMA NextFacts ==
    ASSUME NEW p \in [Offset -> Cell], NEW o \in Nat, NEW u \in Nat, IsToken(At(p, o))
    PROVE  /\ o + Size(At(p, o)) \in Nat /\ o + Size(At(p, o)) > o
           /\ u + Aligned(At(p, o)[3]) \in Nat
BY TokenFacts, Constants

\* The loop of kerSysScratchPadGet ends, by the same argument.
LEMMA GetExists ==
    ASSUME NEW p \in [Offset -> Cell], NEW n
    PROVE  \A o, u \in Nat : GetFrom(p, n)[o][u] = GetBody(p, n, GetFrom(p, n), o, u)
<1> DEFINE Holds(f, k) == \A o, u \in Nat : o + k >= PadLen => f[o][u] = GetBody(p, n, f, o, u)
           Bad == {k \in Nat : ~ \E f \in [Nat -> [Nat -> Nat]] : Holds(f, k)}
<1>1. Bad = {}
  <2> SUFFICES ASSUME Bad # {} PROVE FALSE OBVIOUS
  <2>1. PICK k \in Bad : \A j \in Bad : k <= j
    <3>1. Bad \subseteq Nat OBVIOUS
    <3> HIDE DEF Bad
    <3> QED BY <3>1, LeastNat
  <2>2. k # 0
    <3> SUFFICES ASSUME k = 0 PROVE FALSE OBVIOUS
    <3> DEFINE f == [o \in Nat |-> [u \in Nat |-> PadLen]]
    <3>1. f \in [Nat -> [Nat -> Nat]] BY Constants
    <3>2. ASSUME NEW o \in Nat, NEW u \in Nat, o + 0 >= PadLen PROVE f[o][u] = GetBody(p, n, f, o, u)
      <4>1. ~(o < PadLen) BY <3>2, Constants
      <4>2. ~IsToken(At(p, o)) BY <4>1 DEF IsToken, At, Foreign
      <4> QED BY <4>2 DEF GetBody
    <3> HIDE DEF f
    <3> QED BY <3>1, <3>2
  <2>3. k - 1 \in Nat /\ k - 1 \notin Bad
    <3>1. k \in Nat OBVIOUS
    <3>2. k - 1 \in Nat /\ ~(k <= k - 1) BY <3>1, <2>2
    <3> HIDE DEF Bad
    <3> QED BY <3>2, <2>1
  <2>4. PICK f \in [Nat -> [Nat -> Nat]] : Holds(f, k - 1) BY <2>3
  <2>5. ASSUME NEW o \in Nat, NEW u \in Nat, IsToken(At(p, o))
        PROVE  /\ o + Size(At(p, o)) \in Nat /\ o + Size(At(p, o)) > o
               /\ u + Aligned(At(p, o)[3]) \in Nat
    <3> HIDE DEF Bad
    <3> QED BY <2>5, NextFacts
  <2> DEFINE g == [o \in Nat |-> [u \in Nat |-> IF o + k >= PadLen THEN GetBody(p, n, f, o, u)
                                                ELSE 0]]
  <2>6. ASSUME NEW o \in Nat, NEW u \in Nat PROVE GetBody(p, n, f, o, u) \in Nat
    <3>1. CASE ~IsToken(At(p, o)) \/ u >= PadLen BY <3>1, Constants DEF GetBody
    <3>2. CASE IsToken(At(p, o)) /\ ~(u >= PadLen) /\ At(p, o)[2] = n BY <3>2 DEF GetBody
    <3>3. CASE IsToken(At(p, o)) /\ ~(u >= PadLen) /\ At(p, o)[2] # n
      <4>1. o + Size(At(p, o)) \in Nat /\ u + Aligned(At(p, o)[3]) \in Nat BY <3>3, <2>5
      <4> QED BY <3>3, <4>1 DEF GetBody
    <3> QED BY <3>1, <3>2, <3>3
  <2>7. g \in [Nat -> [Nat -> Nat]] BY <2>6
  <2>8. ASSUME NEW o \in Nat, NEW u \in Nat, o + k >= PadLen PROVE g[o][u] = GetBody(p, n, f, o, u)
    BY <2>8
  <2>9. ASSUME NEW o \in Nat, NEW u \in Nat, o + k > PadLen PROVE g[o][u] = f[o][u]
    <3>0. k \in Nat OBVIOUS
    <3>1. o + (k - 1) >= PadLen /\ o + k >= PadLen BY <2>9, <3>0, Constants
    <3>2. f[o][u] = GetBody(p, n, f, o, u) BY <3>1, <2>4
    <3> QED BY <3>1, <3>2, <2>8
  <2> HIDE DEF g
  <2>10. ASSUME NEW o \in Nat, NEW u \in Nat, o + k >= PadLen
         PROVE  GetBody(p, n, g, o, u) = GetBody(p, n, f, o, u)
    <3>1. CASE ~IsToken(At(p, o)) \/ u >= PadLen \/ At(p, o)[2] = n BY <3>1 DEF GetBody
    <3>2. CASE IsToken(At(p, o)) /\ ~(u >= PadLen) /\ At(p, o)[2] # n
      <4> DEFINE a == o + Size(At(p, o))  b == u + Aligned(At(p, o)[3])
      <4>0. k \in Nat OBVIOUS
      <4>1. a \in Nat /\ b \in Nat /\ a > o BY <3>2, <2>5
      <4>2. a + k > PadLen BY <4>0, <4>1, <2>10, Constants
      <4>3. g[a][b] = f[a][b] BY <4>1, <4>2, <2>9
      <4> QED BY <3>2, <4>3 DEF GetBody
    <3> QED BY <3>1, <3>2
  <2>11. ASSUME NEW o \in Nat, NEW u \in Nat, o + k >= PadLen PROVE g[o][u] = GetBody(p, n, g, o, u)
    BY <2>11, <2>8, <2>10
  <2> QED BY <2>7, <2>11, <2>1
<1>2. PICK f \in [Nat -> [Nat -> Nat]] : Holds(f, PadLen) BY <1>1, Constants
<1>3. \A o, u \in Nat : f[o][u] = GetBody(p, n, f, o, u) BY <1>2, Constants
<1>4. f = [o \in Nat |-> [u \in Nat |-> GetBody(p, n, f, o, u)]] BY <1>3
<1>5. GetFrom(p, n) = [o \in Nat |-> [u \in Nat |-> GetBody(p, n, GetFrom(p, n), o, u)]] BY <1>4 DEF GetFrom
<1> DEFINE h == GetFrom(p, n)
<1>6. h = [o \in Nat |-> [u \in Nat |-> GetBody(p, n, h, o, u)]] BY <1>5
<1> HIDE DEF h
<1>7. \A o, u \in Nat : h[o][u] = GetBody(p, n, h, o, u)
  <2> SUFFICES ASSUME NEW o \in Nat, NEW u \in Nat PROVE h[o][u] = GetBody(p, n, h, o, u) OBVIOUS
  <2>1. h[o] = [w \in Nat |-> GetBody(p, n, h, o, w)] BY <1>6
  <2> QED BY <2>1
<1> QED BY <1>7 DEF h

-----------------------------------------------------------------------------
(* Lists of tokens. *)

\* The data of the token at t is that of v, from its first cell to its last.
Whole(p, t, v) == \A i \in 1..p[t][3] : p[t + TokLen + i - 1] = <<"data", v, i>>

\* The tokens of pad p are at T, one behind the other, and their list ends at e.  Only
\* a token of the list, and what ends it, looks like the beginning of a token: whatever
\* moves, the loops can never land on a stale token.
Listed(p, T, e) ==
    /\ p \in [Offset -> Cell]
    /\ T \subseteq Offset /\ e \in Nat /\ HeadLen <= e /\ e <= PadLen /\ e % Align = 0
    /\ HeadLen \in T \cup {e}
    /\ \A t \in T : /\ HeadLen <= t /\ t < e
                    /\ IsToken(p[t]) /\ t + Size(p[t]) \in T \cup {e}
                    /\ \E v \in Val : Whole(p, t, v)
    /\ \A s, t \in T : s < t => s + Size(p[s]) <= t
    /\ \A s, t \in T : p[s][2] = p[t][2] => s = t
    /\ \A o \in Offset : p[o][1] = "tok" => o \in T \cup {e}
    /\ ~IsToken(At(p, e))

\* What a list says of one of its tokens.
LEMMA ListedToken ==
    ASSUME NEW p, NEW T, NEW e, Listed(p, T, e), NEW t \in T
    PROVE  /\ t \in Nat /\ t \in Offset /\ HeadLen <= t /\ t < e /\ t < PadLen
           /\ IsToken(p[t]) /\ IsToken(At(p, t)) /\ At(p, t) = p[t]
           /\ p[t] = <<"tok", p[t][2], p[t][3]>> /\ p[t][2] \in Name
           /\ p[t][3] \in Lengths /\ p[t][3] \in Nat /\ p[t][3] > 0 /\ p[t][3] < PadLen
           /\ Aligned(p[t][3]) \in Nat /\ Aligned(p[t][3]) >= p[t][3]
           /\ Size(p[t]) \in Nat /\ Size(p[t]) = TokLen + Aligned(p[t][3])
           /\ Size(p[t]) >= TokLen + p[t][3] /\ Size(p[t]) > 0
           /\ t + Size(p[t]) \in T \cup {e} /\ t + Size(p[t]) <= e
           /\ t + TokLen + p[t][3] <= e
<1>1. /\ p \in [Offset -> Cell] /\ T \subseteq Offset /\ e \in Nat /\ e <= PadLen
      /\ HeadLen <= t /\ t < e /\ IsToken(p[t]) /\ t + Size(p[t]) \in T \cup {e}
  BY DEF Listed
<1>2. \A s \in T : s < e BY DEF Listed
<1>3. t \in Offset /\ t \in Nat /\ t < PadLen BY <1>1, Constants DEF Offset
<1>4. At(p, t) = p[t] BY <1>3 DEF At
<1>5. /\ p[t] = <<"tok", p[t][2], p[t][3]>>
      /\ p[t][2] \in Name /\ p[t][3] \in Lengths /\ p[t][3] \in Nat /\ p[t][3] > 0 /\ p[t][3] < PadLen
      /\ Aligned(p[t][3]) \in Nat /\ Aligned(p[t][3]) >= p[t][3]
      /\ Size(p[t]) \in Nat /\ Size(p[t]) >= TokLen + p[t][3]
      /\ Size(p[t]) = TokLen + Aligned(p[t][3])
  BY <1>1, <1>3, <1>4, TokenFacts
<1>6. Size(p[t]) > 0 BY <1>5, Constants
<1>7. t + Size(p[t]) <= e
  <2>1. CASE t + Size(p[t]) = e BY <2>1, <1>1
  <2>2. CASE t + Size(p[t]) \in T
    <3>1. t + Size(p[t]) < e BY <2>2, <1>2
    <3> QED BY <3>1, <1>1, <1>3, <1>5
  <2> QED BY <2>1, <2>2, <1>1
<1>8. t + TokLen + p[t][3] <= e BY <1>1, <1>3, <1>5, <1>7, Constants
<1> QED BY <1>1, <1>3, <1>4, <1>5, <1>6, <1>7, <1>8

\* A loop of kerSysScratchPadSet stops at the first token of the list that it looks
\* for, and at the end of the list when there is none.
LEMMA SkipFinds ==
    ASSUME NEW p, NEW T, NEW e, Listed(p, T, e), NEW stop, NEW x \in T \cup {e},
           x = e \/ x \in stop, \A t \in T : t < x => t \notin stop
    PROVE  Skip(p, stop) = x
<1> DEFINE F == SkipFrom(p, stop)
           Bad == {d \in Nat : \E t \in T \cup {e} : t <= x /\ F[t] # x /\ d = PadLen - t}
<1>1. /\ p \in [Offset -> Cell] /\ T \subseteq Offset /\ e \in Nat /\ HeadLen <= e /\ e <= PadLen
      /\ HeadLen \in T \cup {e} /\ ~IsToken(At(p, e))
      /\ \A s, t \in T : s < t => s + Size(p[s]) <= t
  BY DEF Listed
<1>2. \A o \in Nat : F[o] = SkipBody(p, stop, F, o) BY <1>1, SkipExists
<1> HIDE DEF F
<1>3. \A t \in T \cup {e} : t \in Nat /\ t <= e /\ t <= PadLen /\ HeadLen <= t
  BY <1>1, ListedToken, Constants
<1>4. Bad = {}
  <2> SUFFICES ASSUME Bad # {} PROVE FALSE OBVIOUS
  <2>1. PICK d \in Bad : \A c \in Bad : d <= c
    <3>1. Bad \subseteq Nat OBVIOUS
    <3> HIDE DEF Bad
    <3> QED BY <3>1, LeastNat
  <2>2. PICK t \in T \cup {e} : t <= x /\ F[t] # x /\ d = PadLen - t OBVIOUS
  <2>3. t \in Nat /\ x \in Nat /\ F[t] = SkipBody(p, stop, F, t) BY <1>2, <1>3
  <2>4. CASE t = x
    <3>1. ~IsToken(At(p, t)) \/ t \in stop BY <2>4, <1>1
    <3>2. F[t] = t BY <3>1, <2>3 DEF SkipBody
    <3> QED BY <3>2, <2>2, <2>4
  <2>5. CASE t < x
    <3> DEFINE s == t + Size(p[t])
    <3>1. t \in T BY <2>5, <2>3, <1>3
    <3>2. t \notin stop BY <3>1, <2>5
    <3>3. /\ IsToken(At(p, t)) /\ At(p, t) = p[t] /\ Size(p[t]) \in Nat /\ Size(p[t]) > 0
          /\ s \in T \cup {e} /\ s <= e
      BY <3>1, ListedToken
    <3>4. F[t] = F[s] BY <3>2, <3>3, <2>3 DEF SkipBody
    <3>5. s <= x
      <4>1. CASE x = e BY <4>1, <3>3
      <4>2. CASE x \in T BY <4>2, <3>1, <2>5, <1>1
      <4> QED BY <4>1, <4>2
    <3>6. PadLen - s \in Nat /\ PadLen - s < PadLen - t BY <3>3, <2>3, <1>3, Constants
    <3>7. PadLen - s \in Bad BY <3>3, <3>4, <3>5, <3>6, <2>2
    <3> HIDE DEF Bad
    <3>8. d <= PadLen - s BY <3>7, <2>1
    <3> QED BY <3>8, <3>6, <2>2, <2>3, Constants
  <2> QED BY <2>2, <2>3, <2>4, <2>5
<1>5. HeadLen \in T \cup {e} /\ HeadLen <= x /\ PadLen - HeadLen \in Nat BY <1>1, <1>3, Constants
<1>6. F[HeadLen] = x
  <2> SUFFICES ASSUME F[HeadLen] # x PROVE FALSE OBVIOUS
  <2>1. PadLen - HeadLen \in Bad BY <1>5
  <2> QED BY <2>1, <1>4
<1> QED BY <1>6, SkipIs DEF F

\* The search of kerSysScratchPadGet finds the first token with the name, and nothing
\* when the list has none: usedLen never reaches the length of the pad at a token,
\* though it counts the data only.
LEMMA GetFinds ==
    ASSUME NEW p, NEW T, NEW e, Listed(p, T, e), HasMagic(p), NEW n, NEW x \in T \cup {e}, NEW r,
           \/ x = e /\ r = PadLen
           \/ x \in T /\ p[x][2] = n /\ r = x,
           \A t \in T : t < x => p[t][2] # n
    PROVE  Lookup(p, n) = r
<1> DEFINE F == GetFrom(p, n)
           Bad == {d \in Nat : \E t \in T \cup {e}, u \in Nat :
                                   t <= x /\ u <= t /\ F[t][u] # r /\ d = PadLen - t}
<1>1. /\ p \in [Offset -> Cell] /\ T \subseteq Offset /\ e \in Nat /\ HeadLen <= e /\ e <= PadLen
      /\ HeadLen \in T \cup {e} /\ ~IsToken(At(p, e))
      /\ \A s, t \in T : s < t => s + Size(p[s]) <= t
  BY DEF Listed
<1>2. \A o, u \in Nat : F[o][u] = GetBody(p, n, F, o, u) BY <1>1, GetExists
<1> HIDE DEF F
<1>3. \A t \in T \cup {e} : t \in Nat /\ t <= e /\ t <= PadLen /\ HeadLen <= t
  BY <1>1, ListedToken, Constants
<1>4. Bad = {}
  <2> SUFFICES ASSUME Bad # {} PROVE FALSE OBVIOUS
  <2>1. PICK d \in Bad : \A c \in Bad : d <= c
    <3>1. Bad \subseteq Nat OBVIOUS
    <3> HIDE DEF Bad
    <3> QED BY <3>1, LeastNat
  <2>2. PICK t \in T \cup {e}, u \in Nat : t <= x /\ u <= t /\ F[t][u] # r /\ d = PadLen - t OBVIOUS
  <2>3. t \in Nat /\ x \in Nat /\ F[t][u] = GetBody(p, n, F, t, u) BY <1>2, <1>3
  <2>4. CASE t = e
    <3>1. x = e /\ r = PadLen
      <4>1. x = e BY <2>2, <2>3, <2>4, <1>3
      <4>2. x \notin T BY <4>1, ListedToken, <1>1
      <4> QED BY <4>1, <4>2
    <3>2. F[t][u] = PadLen BY <2>4, <2>3, <1>1 DEF GetBody
    <3> QED BY <3>1, <3>2, <2>2
  <2>5. CASE t \in T
    <3> DEFINE s == t + Size(p[t])  w == u + Aligned(p[t][3])
    <3>1. /\ IsToken(At(p, t)) /\ At(p, t) = p[t] /\ Size(p[t]) \in Nat /\ Size(p[t]) > 0
          /\ Size(p[t]) = TokLen + Aligned(p[t][3]) /\ Aligned(p[t][3]) \in Nat
          /\ s \in T \cup {e} /\ s <= e /\ t < PadLen /\ t < e
      BY <2>5, ListedToken
    <3>2. ~(u >= PadLen) BY <3>1, <2>2, <2>3, Constants
    <3>3. CASE p[t][2] = n
      <4>1. t = x BY <3>3, <2>2, <2>3, <2>5
      <4>2. F[t][u] = t BY <3>1, <3>2, <3>3, <2>3 DEF GetBody
      <4>3. r = x BY <4>1, <3>1, <1>1
      <4> QED BY <4>1, <4>2, <4>3, <2>2
    <3>4. CASE p[t][2] # n
      <4>1. F[t][u] = F[s][w] BY <3>1, <3>2, <3>4, <2>3 DEF GetBody
      <4>2. t < x
        <5>1. t # x BY <3>1, <3>4, <1>1
        <5> QED BY <5>1, <2>2, <2>3
      <4>3. s <= x
        <5>1. CASE x = e BY <5>1, <3>1
        <5>2. CASE x \in T BY <5>2, <4>2, <2>5, <1>1
        <5> QED BY <5>1, <5>2
      <4>4. w \in Nat /\ w <= s BY <3>1, <2>2, <2>3, Constants
      <4>5. PadLen - s \in Nat /\ PadLen - s < PadLen - t BY <3>1, <2>3, <1>3, Constants
      <4>6. PadLen - s \in Bad BY <3>1, <4>1, <4>3, <4>4, <4>5, <2>2
      <4> HIDE DEF Bad
      <4>7. d <= PadLen - s BY <4>6, <2>1
      <4> QED BY <4>7, <4>5, <2>2, <2>3, Constants
    <3> QED BY <3>3, <3>4
  <2> QED BY <2>2, <2>4, <2>5
<1>5. HeadLen \in T \cup {e} /\ HeadLen <= x /\ PadLen - HeadLen \in Nat BY <1>1, <1>3, Constants
<1>6. F[HeadLen][HeadLen] = r
  <2> SUFFICES ASSUME F[HeadLen][HeadLen] # r PROVE FALSE OBVIOUS
  <2>1. PadLen - HeadLen \in Bad BY <1>5, Constants
  <2> QED BY <2>1, <1>4
<1> QED BY <1>6, LookupIs DEF F

\* A pad that has no tokens and no magic number.
Blank(p) == p \in [Offset -> Cell] /\ ~HasMagic(p) /\ \A o \in Offset : p[o][1] # "tok"

\* The token at s of p was copied to t of q.
Same(p, s, q, t) ==
    /\ q[t] = p[s]
    /\ \A i \in 1..p[s][3] : q[t + TokLen + i - 1] = p[s + TokLen + i - 1]

-----------------------------------------------------------------------------
(* What the loops find. *)

\* The first loop of kerSysScratchPadSet finds the end of the list.
LEMMA UsedLenIs ==
    ASSUME NEW p, NEW T, NEW e, Listed(p, T, e)
    PROVE  UsedLen(p) = e
BY SkipFinds DEF UsedLen

\* The second loop finds the token,
LEMMA FindHit ==
    ASSUME NEW p, NEW T, NEW e, Listed(p, T, e), NEW t \in T
    PROVE  Find(p, p[t][2]) = t
<1>1. t \in Named(p, p[t][2]) BY ListedToken DEF Named
<1>2. \A s, u \in T : p[s][2] = p[u][2] => s = u BY DEF Listed
<1>3. \A s \in T : s < t => s \notin Named(p, p[t][2])
  <2> SUFFICES ASSUME NEW s \in T, s < t, s \in Named(p, p[t][2]) PROVE FALSE OBVIOUS
  <2>1. s = t BY <1>2 DEF Named
  <2>2. t \in Nat BY ListedToken
  <2> QED BY <2>1, <2>2
<1> QED BY <1>1, <1>3, SkipFinds DEF Find

\* or stops at the end of the list.
LEMMA FindMiss ==
    ASSUME NEW p, NEW T, NEW e, Listed(p, T, e), NEW n, \A t \in T : p[t][2] # n
    PROVE  Find(p, n) = e
<1>1. \A s \in T : s \notin Named(p, n) BY DEF Named
<1> QED BY <1>1, SkipFinds DEF Find

\* kerSysScratchPadGet finds the token,
LEMMA LookupHit ==
    ASSUME NEW p, NEW T, NEW e, Listed(p, T, e), HasMagic(p), NEW t \in T
    PROVE  Lookup(p, p[t][2]) = t /\ t # PadLen
<1>1. t \in Nat /\ t < PadLen BY ListedToken
<1>2. \A s, u \in T : p[s][2] = p[u][2] => s = u BY DEF Listed
<1>3. \A s \in T : s < t => p[s][2] # p[t][2] BY <1>1, <1>2
<1>4. Lookup(p, p[t][2]) = t BY <1>3, GetFinds
<1> QED BY <1>1, <1>4, Constants

\* copies its data out whole,
LEMMA DataHit ==
    ASSUME NEW p, NEW T, NEW e, Listed(p, T, e), HasMagic(p), NEW t \in T, NEW v \in Val, Whole(p, t, v)
    PROVE  Data(p, p[t][2]) = <<p[t][3], v>>
<1>1. Lookup(p, p[t][2]) = t /\ t # PadLen BY LookupHit
<1>2. t \in Nat /\ p[t][3] \in Nat /\ p[t][3] > 0 BY ListedToken
<1>3. 1 \in 1..p[t][3] /\ t + TokLen + 1 - 1 = t + TokLen BY <1>2, Constants
<1>4. p[t + TokLen] = <<"data", v, 1>> BY <1>3 DEF Whole
<1>5. p[t + TokLen][2] = v BY <1>4
<1>6. \E w \in Val : \A i \in 1..p[t][3] : p[t + TokLen + i - 1] = <<"data", w, i>> BY DEF Whole
<1> QED BY <1>1, <1>5, <1>6 DEF Data

\* and fails when the list does not have it,
LEMMA DataMiss ==
    ASSUME NEW p, NEW T, NEW e, Listed(p, T, e), HasMagic(p), NEW n, \A t \in T : p[t][2] # n
    PROVE  Lookup(p, n) = PadLen /\ Data(p, n) = None
<1>1. Lookup(p, n) = PadLen BY GetFinds
<1> QED BY <1>1 DEF Data

\* as it does on a pad without magic number.
LEMMA DataBlank ==
    ASSUME NEW p, ~HasMagic(p), NEW n
    PROVE  Lookup(p, n) = PadLen /\ Data(p, n) = None
BY DEF Lookup, Data

\* A token that was copied with its data is still whole.
LEMMA WholeKept ==
    ASSUME NEW p, NEW s, NEW q, NEW t, Same(p, s, q, t), NEW v, Whole(p, s, v)
    PROVE  Whole(q, t, v)
BY DEF Same, Whole

\* A name whose token was copied, or that has none in either pad, keeps its value.
LEMMA DataKept ==
    ASSUME NEW p, NEW T, NEW e, Listed(p, T, e), HasMagic(p),
           NEW q, NEW U, NEW f, Listed(q, U, f), HasMagic(q), NEW m,
           \A s \in T : p[s][2] = m => \E t \in U : Same(p, s, q, t),
           \A t \in U : q[t][2] = m => \E s \in T : p[s][2] = m
    PROVE  Data(q, m) = Data(p, m)
<1>1. CASE \E s \in T : p[s][2] = m
  <2>1. PICK s \in T : p[s][2] = m BY <1>1
  <2>2. PICK t \in U : Same(p, s, q, t) BY <2>1
  <2>3. PICK v \in Val : Whole(p, s, v) BY DEF Listed
  <2>4. Whole(q, t, v) BY <2>2, <2>3, WholeKept
  <2>5. q[t] = p[s] BY <2>2 DEF Same
  <2>6. Data(p, m) = <<p[s][3], v>> BY <2>1, <2>3, DataHit
  <2>7. Data(q, q[t][2]) = <<q[t][3], v>> BY <2>4, DataHit
  <2> QED BY <2>1, <2>5, <2>6, <2>7
<1>2. CASE \A s \in T : p[s][2] # m
  <2>1. \A t \in U : q[t][2] # m BY <1>2
  <2> QED BY <1>2, <2>1, DataMiss
<1> QED BY <1>1, <1>2

-----------------------------------------------------------------------------
(* What the writes do to the list. *)

\* What memcpy into the pad changes.
LEMMA PutFacts ==
    ASSUME NEW p, NEW o \in Nat, NEW s \in Seq(Cell), p \in [Offset -> Cell]
    PROVE  /\ Put(p, o, s) \in [Offset -> Cell]
           /\ \A i \in Offset : i >= o /\ i < o + Len(s) => Put(p, o, s)[i] = s[i - o + 1]
           /\ \A i \in Offset : ~(i >= o /\ i < o + Len(s)) => Put(p, o, s)[i] = p[i]
<1>1. ASSUME NEW i \in Offset, i >= o, i < o + Len(s) PROVE s[i - o + 1] \in Cell
  <2>1. i \in Nat BY Constants DEF Offset
  <2>2. i - o + 1 \in 1..Len(s) BY <2>1, <1>1
  <2> QED BY <2>2
<1> QED BY <1>1 DEF Put

\* The header of the pad has no token in it.
LEMMA HeaderFacts ==
    /\ Header \in Seq(Cell) /\ Len(Header) = HeadLen /\ Header[1] = Magic
    /\ \A i \in 1..HeadLen : Header[i][1] # "tok"
<1>1. Magic \in Cell /\ Rest \in Cell BY DEF Cell
<1>2. Header \in [1..HeadLen -> Cell] BY <1>1 DEF Header
<1>3. Header \in Seq(Cell) /\ Len(Header) = HeadLen BY <1>2, Constants DEF Header
<1>4. Header[1] = Magic BY Constants DEF Header
<1>5. \A i \in 1..HeadLen : Header[i][1] # "tok" BY DEF Header, Magic, Rest
<1> QED BY <1>3, <1>4, <1>5

\* The cells of token data.
LEMMA DataCellsFacts ==
    ASSUME NEW l \in Nat, l <= PadLen, NEW v, l = 0 \/ v \in Val
    PROVE  /\ DataCells(l, v) \in Seq(Cell) /\ Len(DataCells(l, v)) = l
           /\ \A i \in 1..l : DataCells(l, v)[i] = <<"data", v, i>>
<1>1. ASSUME NEW i \in 1..l PROVE <<"data", v, i>> \in Cell
  <2>1. v \in Val /\ i \in 1..PadLen BY Constants
  <2> QED BY <2>1 DEF Cell
<1>2. DataCells(l, v) \in [1..l -> Cell] BY <1>1 DEF DataCells
<1>3. DataCells(l, v) \in Seq(Cell) /\ Len(DataCells(l, v)) = l BY <1>2 DEF DataCells
<1> QED BY <1>3 DEF DataCells

\* What a concatenation of sequences is.
LEMMA ConcatFacts ==
    ASSUME NEW S, NEW s \in Seq(S), NEW t \in Seq(S)
    PROVE  /\ s \o t \in Seq(S) /\ Len(s \o t) = Len(s) + Len(t)
           /\ \A i \in 1..Len(s) : (s \o t)[i] = s[i]
           /\ \A i \in 1..Len(t) : (s \o t)[Len(s) + i] = t[i]
<1>1. s \o t \in Seq(S) OBVIOUS
<1>2. Len(s \o t) = Len(s) + Len(t) OBVIOUS
<1>3. \A i \in 1..Len(s) : (s \o t)[i] = s[i] OBVIOUS
<1>4. ASSUME NEW i \in 1..Len(t) PROVE (s \o t)[Len(s) + i] = t[i]
  <2>1. Len(s) + i \in 1..(Len(s) + Len(t)) /\ ~(Len(s) + i <= Len(s)) /\ Len(s) + i - Len(s) = i OBVIOUS
  <2> QED BY <2>1
<1> QED BY <1>1, <1>2, <1>3, <1>4

\* The cells of a token begin one token only.
LEMMA TokenCellsFacts ==
    ASSUME NEW n \in Name, NEW l \in Lengths \cup {0}, l <= PadLen, NEW v, l = 0 \/ v \in Val
    PROVE  /\ TokenCells(n, l, v) \in Seq(Cell) /\ Len(TokenCells(n, l, v)) = TokLen + l
           /\ TokenCells(n, l, v)[1] = <<"tok", n, l>>
           /\ \A i \in 2..(TokLen + l) : TokenCells(n, l, v)[i][1] # "tok"
           /\ \A i \in 1..l : TokenCells(n, l, v)[TokLen + i] = <<"data", v, i>>
<1> DEFINE h == [i \in 1..TokLen |-> IF i = 1 THEN <<"tok", n, l>> ELSE Rest]
           d == DataCells(l, v)
<1>0. l \in Nat BY Constants
<1>1. /\ d \in Seq(Cell) /\ Len(d) = l /\ \A i \in 1..l : d[i] = <<"data", v, i>>
  BY <1>0, DataCellsFacts
<1>2. <<"tok", n, l>> \in Cell /\ Rest \in Cell BY DEF Cell
<1>3. h \in [1..TokLen -> Cell] BY <1>2
<1>4. h \in Seq(Cell) /\ Len(h) = TokLen BY <1>3, Constants
<1>5. h[1] = <<"tok", n, l>> /\ \A i \in 2..TokLen : h[i] = Rest BY Constants
<1>6. TokenCells(n, l, v) = h \o d BY DEF TokenCells
<1> HIDE DEF h, d
<1>7. /\ h \o d \in Seq(Cell) /\ Len(h \o d) = TokLen + l BY <1>1, <1>4, ConcatFacts
<1>8. \A i \in 1..TokLen : (h \o d)[i] = h[i] BY <1>1, <1>4, ConcatFacts
<1>9. \A i \in 1..l : (h \o d)[TokLen + i] = d[i] BY <1>1, <1>4, ConcatFacts
<1>10. ASSUME NEW i \in 2..(TokLen + l) PROVE (h \o d)[i][1] # "tok"
  <2>0. i \in Nat /\ i >= 2 /\ i <= TokLen + l BY <1>0, Constants
  <2>1. CASE i <= TokLen
    <3>1. i \in 1..TokLen /\ i \in 2..TokLen BY <2>0, <2>1, Constants
    <3>2. (h \o d)[i] = Rest BY <3>1, <1>5, <1>8
    <3> QED BY <3>2 DEF Rest
  <2>2. CASE i > TokLen
    <3>1. i - TokLen \in 1..l /\ i = TokLen + (i - TokLen) BY <2>0, <2>2, <1>0, Constants
    <3>2. (h \o d)[i] = <<"data", v, i - TokLen>> BY <3>1, <1>9, <1>1
    <3> QED BY <3>2
  <2>3. i <= TokLen \/ i > TokLen BY <2>0, Constants
  <2> QED BY <2>1, <2>2, <2>3
<1> QED BY <1>1, <1>5, <1>6, <1>7, <1>8, <1>9, <1>10, Constants

\* What a list says of the pad.
LEMMA ListedParts ==
    ASSUME NEW p, NEW T, NEW e, Listed(p, T, e)
    PROVE  /\ p \in [Offset -> Cell] /\ T \subseteq Offset /\ T \subseteq Nat
           /\ e \in Nat /\ HeadLen <= e /\ e <= PadLen /\ e % Align = 0
           /\ HeadLen \in T \cup {e} /\ ~IsToken(At(p, e))
           /\ \A s, t \in T : s < t => s + Size(p[s]) <= t
           /\ \A s, t \in T : p[s][2] = p[t][2] => s = t
           /\ \A o \in Offset : p[o][1] = "tok" => o \in T \cup {e}
BY ListedToken DEF Listed

\* A pad with the same tokens at the same places has the same list.
LEMMA ListedSame ==
    ASSUME NEW p, NEW T, NEW e, Listed(p, T, e), NEW q \in [Offset -> Cell],
           \A t \in T : /\ q[t] = p[t]
                        /\ \E v \in Val : Whole(q, t, v),
           \A o \in Offset : q[o][1] = "tok" => o \in T \cup {e},
           ~IsToken(At(q, e))
    PROVE  Listed(q, T, e)
<1>1. \A t \in T : /\ HeadLen <= t /\ t < e /\ IsToken(p[t]) /\ t + Size(p[t]) \in T \cup {e}
  BY ListedToken
<1> QED BY <1>1, ListedParts DEF Listed

\* Writing the header again keeps the list.
LEMMA HeaderKeeps ==
    ASSUME NEW p, NEW T, NEW e, Listed(p, T, e)
    PROVE  /\ Listed(Put(p, 0, Header), T, e) /\ HasMagic(Put(p, 0, Header))
           /\ \A t \in T : Same(p, t, Put(p, 0, Header), t)
<1> DEFINE q == Put(p, 0, Header)
<1>1. /\ q \in [Offset -> Cell]
      /\ \A i \in Offset : i < HeadLen => q[i] = Header[i + 1]
      /\ \A i \in Offset : i >= HeadLen => q[i] = p[i]
  <2>1. /\ q \in [Offset -> Cell]
        /\ \A i \in Offset : i >= 0 /\ i < 0 + HeadLen => q[i] = Header[i - 0 + 1]
        /\ \A i \in Offset : ~(i >= 0 /\ i < 0 + HeadLen) => q[i] = p[i]
    BY HeaderFacts, PutFacts, ListedParts
  <2>2. \A i \in Offset : i \in Nat /\ i - 0 + 1 = i + 1 BY Constants DEF Offset
  <2> HIDE DEF q
  <2> QED BY <2>1, <2>2, Constants
<1> HIDE DEF q
<1>2. HasMagic(q)
  <2>1. 0 \in Offset /\ 0 < HeadLen BY Constants DEF Offset
  <2>2. q[0] = Header[0 + 1] BY <2>1, <1>1
  <2> QED BY <2>2, HeaderFacts DEF HasMagic
<1>3. ASSUME NEW t \in T PROVE Same(p, t, q, t)
  <2>1. t \in Offset /\ t \in Nat /\ HeadLen <= t /\ p[t][3] \in Nat /\ t + TokLen + p[t][3] <= PadLen
    BY ListedToken, ListedParts, Constants
  <2>2. q[t] = p[t] BY <2>1, <1>1
  <2>3. ASSUME NEW i \in 1..p[t][3] PROVE q[t + TokLen + i - 1] = p[t + TokLen + i - 1]
    <3>1. t + TokLen + i - 1 \in Offset /\ t + TokLen + i - 1 >= HeadLen BY <2>1, Constants DEF Offset
    <3> QED BY <3>1, <1>1
  <2> QED BY <2>2, <2>3 DEF Same
<1>4. ASSUME NEW t \in T PROVE q[t] = p[t] /\ \E v \in Val : Whole(q, t, v)
  <2>1. PICK v \in Val : Whole(p, t, v) BY DEF Listed
  <2>2. Whole(q, t, v) BY <2>1, <1>3, WholeKept
  <2> QED BY <2>2, <1>3 DEF Same
<1>5. ASSUME NEW o \in Offset, q[o][1] = "tok" PROVE o >= HeadLen /\ p[o][1] = "tok"
  <2>0. o \in Nat BY Constants DEF Offset
  <2>1. ASSUME o < HeadLen PROVE FALSE
    <3>1. o + 1 \in 1..HeadLen BY <2>0, <2>1, Constants
    <3>2. q[o] = Header[o + 1] BY <2>1, <1>1
    <3> QED BY <3>1, <3>2, <1>5, HeaderFacts
  <2>2. o >= HeadLen BY <2>0, <2>1, Constants
  <2> QED BY <2>2, <1>5, <1>1
<1>6. \A o \in Offset : q[o][1] = "tok" => o \in T \cup {e} BY <1>5, ListedParts
<1>7. ~IsToken(At(q, e))
  <2>1. CASE e < PadLen
    <3>1. e \in Offset /\ e >= HeadLen BY <2>1, ListedParts, Constants DEF Offset
    <3>2. q[e] = p[e] BY <3>1, <1>1
    <3>3. ~IsToken(At(p, e)) BY ListedParts
    <3> QED BY <2>1, <3>2, <3>3 DEF At
  <2>2. CASE ~(e < PadLen) BY <2>2 DEF At, IsToken, Foreign
  <2> QED BY <2>1, <2>2
<1>8. Listed(q, T, e) BY <1>1, <1>4, <1>6, <1>7, ListedSame
<1> QED BY <1>2, <1>3, <1>8 DEF q

\* The header on a pad without tokens makes an empty list.
LEMMA HeaderOfNew ==
    ASSUME NEW p, Blank(p)
    PROVE  Listed(Put(p, 0, Header), {}, HeadLen) /\ HasMagic(Put(p, 0, Header))
<1> DEFINE q == Put(p, 0, Header)
<1>0. p \in [Offset -> Cell] /\ \A o \in Offset : p[o][1] # "tok" BY DEF Blank
<1>1. /\ q \in [Offset -> Cell]
      /\ \A i \in Offset : i < HeadLen => q[i] = Header[i + 1]
      /\ \A i \in Offset : i >= HeadLen => q[i] = p[i]
  <2>1. /\ q \in [Offset -> Cell]
        /\ \A i \in Offset : i >= 0 /\ i < 0 + HeadLen => q[i] = Header[i - 0 + 1]
        /\ \A i \in Offset : ~(i >= 0 /\ i < 0 + HeadLen) => q[i] = p[i]
    BY <1>0, HeaderFacts, PutFacts
  <2>2. \A i \in Offset : i \in Nat /\ i - 0 + 1 = i + 1 BY Constants DEF Offset
  <2> HIDE DEF q
  <2> QED BY <2>1, <2>2, Constants
<1> HIDE DEF q
<1>2. HasMagic(q)
  <2>1. 0 \in Offset /\ 0 < HeadLen BY Constants DEF Offset
  <2>2. q[0] = Header[0 + 1] BY <2>1, <1>1
  <2> QED BY <2>2, HeaderFacts DEF HasMagic
<1>5. ASSUME NEW o \in Offset PROVE q[o][1] # "tok"
  <2>0. o \in Nat BY Constants DEF Offset
  <2>1. CASE o < HeadLen
    <3>1. o + 1 \in 1..HeadLen BY <2>0, <2>1, Constants
    <3>2. q[o] = Header[o + 1] BY <2>1, <1>1
    <3> QED BY <3>1, <3>2, HeaderFacts
  <2>2. CASE o >= HeadLen BY <2>2, <1>0, <1>1
  <2> QED BY <2>0, <2>1, <2>2, Constants
<1>7. ~IsToken(At(q, HeadLen))
  <2>1. HeadLen \in Offset /\ HeadLen < PadLen BY Constants DEF Offset
  <2> QED BY <2>1, <1>5 DEF At, IsToken
<1>8. Listed(q, {}, HeadLen) BY <1>1, <1>5, <1>7, Constants, Multiples DEF Listed
<1> QED BY <1>2, <1>8 DEF q

\* What a token put behind the list changes.
LEMMA AppendCells ==
    ASSUME NEW p, NEW T, NEW e, Listed(p, T, e), NEW n \in Name, NEW l \in Lengths \cup {0}, NEW v,
           l = 0 \/ v \in Val, e + TokLen + l <= PadLen
    PROVE  LET q == Put(p, e, TokenCells(n, l, v)) IN
           /\ q \in [Offset -> Cell] /\ e \in Offset
           /\ q[e] = <<"tok", n, l>> /\ At(q, e) = <<"tok", n, l>>
           /\ \A i \in 1..l : q[e + TokLen + i - 1] = <<"data", v, i>>
           /\ \A o \in Offset : o < e => q[o] = p[o]
           /\ \A o \in Offset : q[o][1] = "tok" => o \in T \cup {e}
           /\ \A t \in T : Same(p, t, q, t)
           /\ HasMagic(p) => HasMagic(q)
<1> DEFINE q == Put(p, e, TokenCells(n, l, v))
<1>0. l \in Nat /\ e \in Nat /\ e <= PadLen /\ HeadLen <= e /\ p \in [Offset -> Cell] BY Constants, ListedParts
<1>1. /\ TokenCells(n, l, v) \in Seq(Cell) /\ Len(TokenCells(n, l, v)) = TokLen + l
      /\ TokenCells(n, l, v)[1] = <<"tok", n, l>>
      /\ \A i \in 2..(TokLen + l) : TokenCells(n, l, v)[i][1] # "tok"
      /\ \A i \in 1..l : TokenCells(n, l, v)[TokLen + i] = <<"data", v, i>>
  <2>1. l <= PadLen BY <1>0, Constants
  <2> QED BY <2>1, TokenCellsFacts
<1> DEFINE c == TokenCells(n, l, v)
<1>2. /\ q \in [Offset -> Cell]
      /\ \A i \in Offset : i >= e /\ i < e + (TokLen + l) => q[i] = c[i - e + 1]
      /\ \A i \in Offset : ~(i >= e /\ i < e + (TokLen + l)) => q[i] = p[i]
  <2>1. c \in Seq(Cell) /\ Len(c) = TokLen + l /\ q = Put(p, e, c) BY <1>1
  <2> HIDE DEF q, c
  <2>2. /\ Put(p, e, c) \in [Offset -> Cell]
        /\ \A i \in Offset : i >= e /\ i < e + Len(c) => Put(p, e, c)[i] = c[i - e + 1]
        /\ \A i \in Offset : ~(i >= e /\ i < e + Len(c)) => Put(p, e, c)[i] = p[i]
    BY <2>1, <1>0, PutFacts
  <2> QED BY <2>1, <2>2
<1> HIDE DEF q, c
<1>3. e \in Offset BY <1>0, Constants DEF Offset
<1>4. q[e] = <<"tok", n, l>>
  <2>1. e >= e /\ e < e + (TokLen + l) /\ e - e + 1 = 1 BY <1>0, Constants
  <2>2. q[e] = c[e - e + 1] BY <2>1, <1>2, <1>3
  <2> QED BY <2>1, <2>2, <1>1 DEF c
<1>5. ASSUME NEW i \in 1..l PROVE q[e + TokLen + i - 1] = <<"data", v, i>>
  <2> DEFINE o == e + TokLen + i - 1
  <2>1. o \in Offset /\ o >= e /\ o < e + (TokLen + l) /\ o - e + 1 = TokLen + i
    BY <1>0, Constants DEF Offset
  <2>2. q[o] = c[o - e + 1] BY <2>1, <1>2
  <2> QED BY <2>1, <2>2, <1>1 DEF c
<1>6. ASSUME NEW o \in Offset, o < e PROVE q[o] = p[o]
  <2>1. o \in Nat /\ ~(o >= e) BY <1>0, <1>6, Constants DEF Offset
  <2> QED BY <2>1, <1>2
<1>7. ASSUME NEW o \in Offset, q[o][1] = "tok" PROVE o \in T \cup {e}
  <2>0. o \in Nat BY Constants DEF Offset
  <2>1. CASE o >= e /\ o < e + (TokLen + l) /\ o # e
    <3>1. o - e + 1 \in 2..(TokLen + l) BY <2>0, <2>1, <1>0, Constants
    <3>2. q[o] = c[o - e + 1] BY <2>1, <1>2
    <3> QED BY <3>1, <3>2, <1>1, <1>7 DEF c
  <2>2. CASE ~(o >= e /\ o < e + (TokLen + l))
    <3>1. p[o][1] = "tok" BY <2>2, <1>2, <1>7
    <3> QED BY <3>1, ListedParts
  <2> QED BY <2>1, <2>2
<1>8. ASSUME NEW t \in T PROVE Same(p, t, q, t)
  <2>1. t \in Offset /\ t \in Nat /\ t < e /\ p[t][3] \in Nat /\ t + TokLen + p[t][3] <= e
    BY ListedToken
  <2>2. q[t] = p[t] BY <2>1, <1>6
  <2>3. ASSUME NEW i \in 1..p[t][3] PROVE q[t + TokLen + i - 1] = p[t + TokLen + i - 1]
    <3>1. t + TokLen + i - 1 \in Offset /\ t + TokLen + i - 1 < e BY <2>1, <1>0, Constants DEF Offset
    <3> QED BY <3>1, <1>6
  <2> QED BY <2>2, <2>3 DEF Same
<1>9. HasMagic(p) => HasMagic(q)
  <2>1. 0 \in Offset /\ 0 < e BY <1>0, Constants DEF Offset
  <2> QED BY <2>1, <1>6 DEF HasMagic
<1>10. At(q, e) = q[e] BY <1>0, Constants DEF At
<1> QED BY <1>2, <1>3, <1>4, <1>5, <1>6, <1>7, <1>8, <1>9, <1>10 DEF q

\* A token of length 0 behind the list leaves the list as it was.
LEMMA AppendNothing ==
    ASSUME NEW p, NEW T, NEW e, Listed(p, T, e), NEW n \in Name, NEW v,
           e + TokLen <= PadLen
    PROVE  LET q == Put(p, e, TokenCells(n, 0, v)) IN
           /\ Listed(q, T, e) /\ \A t \in T : Same(p, t, q, t)
           /\ HasMagic(p) => HasMagic(q)
<1> DEFINE q == Put(p, e, TokenCells(n, 0, v))
<1>0. e \in Nat /\ 0 \in Lengths \cup {0} /\ e + TokLen + 0 <= PadLen BY ListedParts, Constants
<1>1. /\ q \in [Offset -> Cell] /\ At(q, e) = <<"tok", n, 0>>
      /\ \A o \in Offset : q[o][1] = "tok" => o \in T \cup {e}
      /\ \A t \in T : Same(p, t, q, t)
      /\ HasMagic(p) => HasMagic(q)
  BY <1>0, AppendCells
<1> HIDE DEF q
<1>2. ASSUME NEW t \in T PROVE q[t] = p[t] /\ \E w \in Val : Whole(q, t, w)
  <2>1. PICK w \in Val : Whole(p, t, w) BY DEF Listed
  <2>2. Whole(q, t, w) BY <2>1, <1>1, WholeKept
  <2> QED BY <2>2, <1>1 DEF Same
<1>3. ~IsToken(At(q, e)) BY <1>1 DEF IsToken
<1>4. Listed(q, T, e) BY <1>1, <1>2, <1>3, ListedSame
<1> QED BY <1>1, <1>4 DEF q

\* A token with a new name behind the list extends it; the padded token fits into the
\* pad because the pad and the tokens before it are multiples of Align.
LEMMA AppendToken ==
    ASSUME NEW p, NEW T, NEW e, Listed(p, T, e), NEW n \in Name, NEW l \in Lengths, NEW v \in Val,
           l > 0, l < PadLen, e + TokLen + l <= PadLen, \A t \in T : p[t][2] # n
    PROVE  LET q == Put(p, e, TokenCells(n, l, v)) IN
           /\ Listed(q, T \cup {e}, e + TokLen + Aligned(l)) /\ \A t \in T : Same(p, t, q, t)
           /\ q[e] = <<"tok", n, l>> /\ Whole(q, e, v)
           /\ HasMagic(p) => HasMagic(q)
<1> DEFINE q == Put(p, e, TokenCells(n, l, v))
           f == e + TokLen + Aligned(l)
           U == T \cup {e}
<1>0. /\ e \in Nat /\ l \in Nat /\ l \in Lengths \cup {0} /\ HeadLen <= e /\ e <= PadLen
      /\ e % Align = 0 /\ T \subseteq Offset /\ HeadLen \in T \cup {e}
  BY ListedParts, Constants
<1>1. /\ q \in [Offset -> Cell] /\ e \in Offset /\ q[e] = <<"tok", n, l>>
      /\ \A i \in 1..l : q[e + TokLen + i - 1] = <<"data", v, i>>
      /\ \A o \in Offset : q[o][1] = "tok" => o \in T \cup {e}
      /\ \A t \in T : Same(p, t, q, t)
      /\ HasMagic(p) => HasMagic(q)
  BY <1>0, AppendCells
<1> HIDE DEF q
<1>2. /\ Aligned(l) \in Nat /\ Aligned(l) >= l BY <1>0, AlignedFacts
<1>3. f \in Nat /\ f > e /\ HeadLen <= f /\ f <= PadLen /\ f % Align = 0
  <2> DEFINE m == PadLen - (e + TokLen)
  <2>1. m \in Nat /\ l <= m /\ e + TokLen \in Nat BY <1>0, Constants
  <2>2. (e + TokLen) % Align = 0 BY <1>0, AlignedSum, Multiples, Constants
  <2>3. m % Align = 0 BY <2>1, <2>2, AlignedSum, Multiples, Constants
  <2> HIDE DEF m
  <2>4. Aligned(l) <= m /\ Aligned(l) % Align = 0 BY <2>1, <2>3, <1>0, AlignedFits
  <2>5. ((e + TokLen) + Aligned(l)) % Align = 0 BY <2>1, <2>2, <2>4, <1>2, AlignedSum
  <2>6. f <= PadLen BY <2>4, <1>0, <1>2, Constants DEF m
  <2> QED BY <2>5, <2>6, <1>0, <1>2, Constants
<1>4. \A t \in T : q[t] = p[t] BY <1>1 DEF Same
<1>5. Whole(q, e, v) BY <1>1 DEF Whole
<1>6. e + Size(q[e]) = f BY <1>0, <1>1, <1>2, Constants DEF Size
<1>7. IsToken(q[e]) BY <1>1 DEF IsToken
<1> HIDE DEF f
<1>8. ASSUME NEW t \in U
      PROVE  /\ HeadLen <= t /\ t < f /\ IsToken(q[t]) /\ t + Size(q[t]) \in U \cup {f}
             /\ \E w \in Val : Whole(q, t, w)
  <2>1. CASE t = e BY <2>1, <1>0, <1>3, <1>5, <1>6, <1>7
  <2>2. CASE t \in T
    <3>1. HeadLen <= t /\ t \in Nat /\ t < e /\ IsToken(p[t]) /\ t + Size(p[t]) \in T \cup {e}
      BY <2>2, ListedToken
    <3>2. t < f BY <3>1, <1>0, <1>3
    <3>3. PICK w \in Val : Whole(p, t, w) BY <2>2 DEF Listed
    <3>4. Whole(q, t, w) BY <2>2, <3>3, <1>1, WholeKept
    <3> QED BY <2>2, <3>1, <3>2, <3>4, <1>4
  <2> QED BY <2>1, <2>2
<1>9. ASSUME NEW s \in U, NEW t \in U, s < t PROVE s + Size(q[s]) <= t
  <2>1. CASE s \in T /\ t \in T BY <2>1, <1>4, <1>9, ListedParts
  <2>2. CASE s \in T /\ t = e
    <3>1. s + Size(p[s]) <= e BY <2>2, ListedToken
    <3> QED BY <2>2, <3>1, <1>4
  <2>3. CASE s = e
    <3>1. t \in T => t \in Nat /\ t < e BY ListedToken
    <3> QED BY <2>3, <3>1, <1>0, <1>9
  <2> QED BY <2>1, <2>2, <2>3
<1>10. ASSUME NEW s \in U, NEW t \in U, q[s][2] = q[t][2] PROVE s = t
  <2>1. CASE s \in T /\ t \in T BY <2>1, <1>4, <1>10, ListedParts
  <2>2. q[e][2] = n BY <1>1
  <2>3. \A w \in T : q[w][2] # n BY <1>4
  <2> QED BY <2>1, <2>2, <2>3, <1>10
<1>11. \A o \in Offset : q[o][1] = "tok" => o \in U \cup {f} BY <1>1
<1>12. ~IsToken(At(q, f))
  <2>1. CASE f < PadLen
    <3>1. f \in Offset BY <2>1, <1>3, Constants DEF Offset
    <3>2. f \notin T \cup {e}
      <4>1. \A t \in T : t \in Nat /\ t < e BY ListedToken
      <4> QED BY <4>1, <1>0, <1>3
    <3>3. q[f][1] # "tok" BY <3>1, <3>2, <1>1
    <3> QED BY <2>1, <3>3 DEF At, IsToken
  <2>2. CASE ~(f < PadLen) BY <2>2 DEF At, IsToken, Foreign
  <2> QED BY <2>1, <2>2
<1>13. U \subseteq Offset /\ HeadLen \in U \cup {f} BY <1>0, <1>1
<1>14. Listed(q, U, f) BY <1>1, <1>3, <1>8, <1>9, <1>10, <1>11, <1>12, <1>13 DEF Listed
<1> QED BY <1>1, <1>5, <1>14 DEF q, f

\* Data of the same length over that of a token keeps the list and the other tokens.
LEMMA Overwrite ==
    ASSUME NEW p, NEW T, NEW e, Listed(p, T, e), NEW t \in T, NEW v \in Val
    PROVE  LET q == Put(p, t + TokLen, DataCells(p[t][3], v)) IN
           /\ Listed(q, T, e) /\ \A s \in T : q[s] = p[s] /\ (s # t => Same(p, s, q, s))
           /\ Whole(q, t, v)
           /\ HasMagic(p) => HasMagic(q)
<1> DEFINE l == p[t][3]
           a == t + TokLen
           q == Put(p, a, DataCells(l, v))
<1>0. /\ t \in Offset /\ t \in Nat /\ HeadLen <= t /\ l \in Nat /\ l > 0 /\ l <= PadLen /\ t + TokLen + l <= e
      /\ Size(p[t]) \in Nat /\ Size(p[t]) >= TokLen + l
  BY ListedToken, Constants
<1>1. e \in Nat /\ e <= PadLen /\ p \in [Offset -> Cell] /\ a \in Nat BY <1>0, ListedParts, Constants
<1>2. DataCells(l, v) \in Seq(Cell) /\ Len(DataCells(l, v)) = l /\ \A i \in 1..l : DataCells(l, v)[i] = <<"data", v, i>>
  <2> HIDE DEF l
  <2> QED BY <1>0, DataCellsFacts
<1>3. /\ q \in [Offset -> Cell]
      /\ \A i \in Offset : i >= a /\ i < a + l => q[i] = DataCells(l, v)[i - a + 1]
      /\ \A i \in Offset : ~(i >= a /\ i < a + l) => q[i] = p[i]
  <2> DEFINE c == DataCells(l, v)
  <2>1. c \in Seq(Cell) /\ Len(c) = l /\ q = Put(p, a, c) BY <1>2
  <2> HIDE DEF l, a, q, c
  <2>2. /\ Put(p, a, c) \in [Offset -> Cell]
        /\ \A i \in Offset : i >= a /\ i < a + Len(c) => Put(p, a, c)[i] = c[i - a + 1]
        /\ \A i \in Offset : ~(i >= a /\ i < a + Len(c)) => Put(p, a, c)[i] = p[i]
    BY <2>1, <1>1, PutFacts
  <2> QED BY <2>1, <2>2 DEF c
<1> HIDE DEF q, l
<1>4. ASSUME NEW i \in Offset, i >= a, i < a + l PROVE q[i] = <<"data", v, i - a + 1>>
  <2>1. i \in Nat BY Constants DEF Offset
  <2>2. i - a + 1 \in 1..l BY <2>1, <1>0, <1>1, <1>4
  <2> QED BY <2>2, <1>2, <1>3, <1>4
<1>5. ASSUME NEW i \in 1..l PROVE q[t + TokLen + i - 1] = <<"data", v, i>>
  <2> DEFINE o == t + TokLen + i - 1
  <2>1. o \in Offset /\ o >= a /\ o < a + l /\ o - a + 1 = i BY <1>0, <1>1, Constants DEF Offset
  <2> HIDE DEF o, a
  <2>2. q[o] = <<"data", v, o - a + 1>> BY <2>1, <1>4
  <2> QED BY <2>1, <2>2 DEF o
<1>6. ASSUME NEW s \in T PROVE q[s] = p[s] /\ (s # t => Same(p, s, q, s))
  <2>0. /\ s \in Offset /\ s \in Nat /\ p[s][3] \in Nat /\ s + TokLen + p[s][3] <= e
        /\ Size(p[s]) \in Nat /\ Size(p[s]) >= TokLen + p[s][3] BY ListedToken
  <2>1. CASE s = t
    <3>1. ~(s >= a) BY <2>1, <1>0, Constants
    <3> QED BY <2>0, <2>1, <3>1, <1>3
  <2>2. CASE s < t
    <3>1. s + Size(p[s]) <= t BY <2>2, ListedParts
    <3>2. s + TokLen + p[s][3] <= t BY <3>1, <2>0, <1>0, Constants
    <3>3. ~(s >= a) BY <2>0, <2>2, <1>0, Constants
    <3>4. q[s] = p[s] BY <2>0, <3>3, <1>3
    <3>5. ASSUME NEW i \in 1..p[s][3] PROVE q[s + TokLen + i - 1] = p[s + TokLen + i - 1]
      <4>1. s + TokLen + i - 1 \in Offset /\ ~(s + TokLen + i - 1 >= a)
        BY <2>0, <3>2, <1>0, <1>1, Constants DEF Offset
      <4> QED BY <4>1, <1>3
    <3> QED BY <3>4, <3>5 DEF Same
  <2>3. CASE t < s
    <3>1. t + Size(p[t]) <= s BY <2>3, ListedParts
    <3>2. a + l <= s BY <3>1, <2>0, <1>0, Constants DEF l
    <3>4. q[s] = p[s] BY <2>0, <3>2, <1>0, <1>1, <1>3
    <3>5. ASSUME NEW i \in 1..p[s][3] PROVE q[s + TokLen + i - 1] = p[s + TokLen + i - 1]
      <4>1. s + TokLen + i - 1 \in Offset /\ ~(s + TokLen + i - 1 < a + l)
        BY <2>0, <3>2, <1>0, <1>1, Constants DEF Offset
      <4> QED BY <4>1, <1>3
    <3> QED BY <3>4, <3>5 DEF Same
  <2> QED BY <2>0, <2>1, <2>2, <2>3, <1>0
<1>7. Whole(q, t, v) BY <1>5, <1>6 DEF Whole, l
<1>8. ASSUME NEW s \in T PROVE q[s] = p[s] /\ \E w \in Val : Whole(q, s, w)
  <2>1. CASE s = t BY <2>1, <1>6, <1>7
  <2>2. CASE s # t
    <3>1. PICK w \in Val : Whole(p, s, w) BY DEF Listed
    <3>2. Whole(q, s, w) BY <2>2, <3>1, <1>6, WholeKept
    <3> QED BY <3>2, <1>6
  <2> QED BY <2>1, <2>2
<1>9. ASSUME NEW o \in Offset, q[o][1] = "tok" PROVE q[o] = p[o]
  <2>1. ~(o >= a /\ o < a + l) BY <1>4, <1>9
  <2> QED BY <2>1, <1>3
<1>10. \A o \in Offset : q[o][1] = "tok" => o \in T \cup {e} BY <1>9, ListedParts
<1>11. ~IsToken(At(q, e))
  <2>1. CASE e < PadLen
    <3>1. e \in Offset BY <2>1, <1>1, Constants DEF Offset
    <3>2. q[e] = p[e] BY <3>1, <1>0, <1>1, <1>3, Constants
    <3>3. ~IsToken(At(p, e)) BY ListedParts
    <3> QED BY <2>1, <3>2, <3>3 DEF At
  <2>2. CASE ~(e < PadLen) BY <2>2 DEF At, IsToken, Foreign
  <2> QED BY <2>1, <2>2
<1>12. Listed(q, T, e) BY <1>3, <1>8, <1>10, <1>11, ListedSame
<1>13. HasMagic(p) => HasMagic(q)
  <2>1. 0 \in Offset /\ ~(0 >= a) BY <1>0, Constants DEF Offset
  <2> QED BY <2>1, <1>3 DEF HasMagic
<1> QED BY <1>6, <1>7, <1>12, <1>13 DEF q, l, a

\* The size of a token is a multiple of Align.
LEMMA SizeAligned ==
    ASSUME NEW p, NEW T, NEW e, Listed(p, T, e), NEW t \in T
    PROVE  Size(p[t]) % Align = 0
<1> DEFINE l == p[t][3]
<1>1. l \in Nat /\ l <= PadLen /\ Size(p[t]) = TokLen + Aligned(l) /\ Aligned(l) \in Nat
  BY ListedToken, Constants
<1> HIDE DEF l
<1>2. Aligned(l) % Align = 0 BY <1>1, AlignedFits, Multiples, Constants
<1> QED BY <1>1, <1>2, AlignedSum, Multiples, Constants

\* After the tokens behind the one at o moved over it, the list has all the others,
\* each with its data, and nothing that looks like a token is left behind.
LEMMA Remove ==
    ASSUME NEW p, NEW T, NEW e, Listed(p, T, e), NEW o \in T
    PROVE  \E U : /\ Listed(Removed(p, o), U, e - Size(p[o]))
                  /\ \A s \in T \ {o} : \E t \in U : Same(p, s, Removed(p, o), t)
                  /\ \A t \in U : \E s \in T \ {o} : Removed(p, o)[t] = p[s]
                  /\ HasMagic(p) => HasMagic(Removed(p, o))
<1> DEFINE z == Size(p[o])
           f == e - z
           q == Removed(p, o)
           B(s) == IF s < o THEN s ELSE s - z
           U == {B(s) : s \in T \ {o}}
<1>1. /\ o \in Offset /\ o \in Nat /\ HeadLen <= o /\ o < e /\ z \in Nat /\ z > 0
      /\ o + z \in T \cup {e} /\ o + z <= e /\ z % Align = 0
  BY ListedToken, SizeAligned
<1>2. /\ p \in [Offset -> Cell] /\ e \in Nat /\ e <= PadLen /\ e % Align = 0
      /\ HeadLen \in T \cup {e} /\ T \subseteq Offset
      /\ \A s, t \in T : s < t => s + Size(p[s]) <= t
      /\ \A s, t \in T : p[s][2] = p[t][2] => s = t
      /\ \A c \in Offset : p[c][1] = "tok" => c \in T \cup {e}
  BY ListedParts
<1>3. \A i \in Offset : q[i] = IF i < o THEN p[i] ELSE IF i < o + (e - (o + z)) THEN p[i + z] ELSE Zero
  BY UsedLenIs DEF Removed
<1>4. DOMAIN q = Offset /\ q = [i \in Offset |-> q[i]] BY DEF Removed
<1> HIDE DEF q, z
<1>5. \A i \in Offset : i \in Nat /\ i < PadLen BY Constants DEF Offset
<1>6. \A i \in Offset : i < o => q[i] = p[i] BY <1>3
<1>7. \A i \in Offset : i >= o /\ i < f => q[i] = p[i + z]
  <2> SUFFICES ASSUME NEW i \in Offset, i >= o, i < f PROVE q[i] = p[i + z] OBVIOUS
  <2>1. i \in Nat BY <1>5
  <2>2. ~(i < o) /\ i < o + (e - (o + z)) BY <2>1, <1>1, <1>2
  <2> QED BY <2>2, <1>3
<1>8. \A i \in Offset : i >= f => q[i] = Zero
  <2> SUFFICES ASSUME NEW i \in Offset, i >= f PROVE q[i] = Zero OBVIOUS
  <2>1. i \in Nat BY <1>5
  <2>2. ~(i < o) /\ ~(i < o + (e - (o + z))) BY <2>1, <1>1, <1>2
  <2> QED BY <2>2, <1>3
<1>9. f \in Nat /\ o <= f /\ HeadLen <= f /\ f < PadLen /\ f % Align = 0
  <2>1. f % Align = 0 BY <1>1, <1>2, AlignedSum
  <2> QED BY <2>1, <1>1, <1>2, Constants
<1> HIDE DEF f
<1>10. q \in [Offset -> Cell]
  <2>1. ASSUME NEW i \in Offset PROVE q[i] \in Cell
    <3>0. i \in Nat BY <1>5
    <3>1. CASE i < o BY <3>1, <1>2, <1>6
    <3>2. CASE i >= o /\ i < f
      <4>1. i + z \in Offset BY <3>0, <3>2, <1>1, <1>2, Constants DEF Offset, f
      <4> QED BY <3>2, <4>1, <1>2, <1>7
    <3>3. CASE i >= f
      <4>1. Zero \in Cell BY DEF Cell
      <4> QED BY <3>3, <4>1, <1>8
    <3> QED BY <3>0, <3>1, <3>2, <3>3, <1>1, <1>9
  <2> QED BY <2>1, <1>4
\* Where each token is, and where it goes.
<1>11. ASSUME NEW s \in T \ {o}
       PROVE  /\ s \in Offset /\ s \in Nat /\ HeadLen <= s /\ s < e /\ Size(p[s]) \in Nat /\ Size(p[s]) > 0
              /\ p[s][3] \in Nat /\ Size(p[s]) >= TokLen + p[s][3] /\ s + Size(p[s]) <= e
              /\ s + Size(p[s]) \in T \cup {e} /\ IsToken(p[s])
              /\ \/ s < o /\ s + Size(p[s]) <= o /\ B(s) = s
                 \/ ~(s < o) /\ s > o /\ o + z <= s /\ B(s) = s - z
  <2>1. /\ s \in Offset /\ s \in Nat /\ HeadLen <= s /\ s < e /\ Size(p[s]) \in Nat /\ Size(p[s]) > 0
        /\ p[s][3] \in Nat /\ Size(p[s]) >= TokLen + p[s][3] /\ s + Size(p[s]) <= e
        /\ s + Size(p[s]) \in T \cup {e} /\ IsToken(p[s])
    BY ListedToken
  <2>2. s < o \/ (~(s < o) /\ s > o) BY <2>1, <1>1
  <2>3. s < o => s + Size(p[s]) <= o BY <1>2
  <2>4. s > o => o + z <= s BY <1>2 DEF z
  <2> QED BY <2>1, <2>2, <2>3, <2>4
<1>12. ASSUME NEW s \in T \ {o} PROVE B(s) \in U OBVIOUS
<1>13. ASSUME NEW t \in U PROVE \E s \in T \ {o} : t = B(s) OBVIOUS
<1> HIDE DEF U, B
<1>14. ASSUME NEW s \in T \ {o} PROVE Same(p, s, q, B(s))
  <2>0. /\ s \in Offset /\ s \in Nat /\ s < e /\ Size(p[s]) \in Nat /\ p[s][3] \in Nat
        /\ Size(p[s]) >= TokLen + p[s][3] /\ s + Size(p[s]) <= e /\ Size(p[s]) > 0
    BY <1>11
  <2>1. CASE s < o /\ s + Size(p[s]) <= o /\ B(s) = s
    <3>1. q[s] = p[s] BY <2>0, <2>1, <1>6
    <3>2. ASSUME NEW i \in 1..p[s][3] PROVE q[s + TokLen + i - 1] = p[s + TokLen + i - 1]
      <4>1. s + TokLen + i - 1 \in Offset /\ s + TokLen + i - 1 < o
        BY <2>0, <2>1, <1>1, <1>2, Constants DEF Offset
      <4> QED BY <4>1, <1>6
    <3> QED BY <2>1, <3>1, <3>2 DEF Same
  <2>2. CASE s > o /\ o + z <= s /\ B(s) = s - z
    <3>1. ASSUME NEW c \in Nat, s <= c, c < e PROVE q[c - z] = p[c]
      <4>1. c - z \in Offset /\ c - z >= o /\ c - z < f /\ (c - z) + z = c
        BY <2>0, <2>2, <3>1, <1>1, <1>2, Constants DEF Offset, f
      <4> QED BY <4>1, <1>7
    <3>2. q[s - z] = p[s] BY <2>0, <3>1
    <3>3. ASSUME NEW i \in 1..p[s][3] PROVE q[(s - z) + TokLen + i - 1] = p[s + TokLen + i - 1]
      <4> DEFINE c == s + TokLen + i - 1
      <4>1. c \in Nat /\ s <= c /\ c < e /\ (s - z) + TokLen + i - 1 = c - z
        BY <2>0, <1>1, <1>2, Constants
      <4> HIDE DEF c
      <4>2. q[c - z] = p[c] BY <4>1, <3>1
      <4> QED BY <4>1, <4>2 DEF c
    <3> QED BY <2>2, <3>2, <3>3 DEF Same
  <2> QED BY <2>1, <2>2, <1>11
<1>15. \A s \in T \ {o} : q[B(s)] = p[s] BY <1>14 DEF Same
<1>16. ASSUME NEW s \in T \ {o} PROVE B(s) \in Nat /\ HeadLen <= B(s) /\ B(s) < f /\ B(s) \in Offset
  <2>1. B(s) \in Nat /\ HeadLen <= B(s) /\ B(s) < f BY <1>1, <1>2, <1>9, <1>11, Constants DEF f
  <2> QED BY <2>1, <1>9, Constants DEF Offset
<1>17. o \in U \cup {f}
  <2>1. CASE o + z = e BY <2>1, <1>1, <1>2 DEF f
  <2>2. CASE o + z \in T
    <3>1. o + z \in T \ {o} /\ ~(o + z < o) /\ (o + z) - z = o BY <2>2, <1>1
    <3>2. B(o + z) = o BY <3>1 DEF B
    <3> QED BY <3>1, <3>2, <1>12
  <2> QED BY <2>1, <2>2, <1>1
<1>18. HeadLen \in U \cup {f}
  <2>1. HeadLen # e BY <1>1, <1>2, Constants
  <2>2. CASE HeadLen = o BY <2>2, <1>17
  <2>3. CASE HeadLen # o
    <3>1. HeadLen \in T \ {o} /\ HeadLen < o BY <2>1, <2>3, <1>1, <1>2, Constants
    <3>2. B(HeadLen) = HeadLen BY <3>1 DEF B
    <3> QED BY <3>1, <3>2, <1>12
  <2> QED BY <2>2, <2>3
<1>19. ASSUME NEW t \in U
       PROVE  /\ HeadLen <= t /\ t < f /\ IsToken(q[t]) /\ t + Size(q[t]) \in U \cup {f}
              /\ \E v \in Val : Whole(q, t, v)
  <2>1. PICK s \in T \ {o} : t = B(s) BY <1>13
  <2>2. HeadLen <= t /\ t < f BY <2>1, <1>16
  <2>3. q[t] = p[s] /\ IsToken(p[s]) BY <2>1, <1>11, <1>15
  <2>4. PICK v \in Val : Whole(p, s, v) BY DEF Listed
  <2>5. Whole(q, t, v) BY <2>1, <2>4, <1>14, WholeKept
  <2>6. t + Size(p[s]) \in U \cup {f}
    <3> DEFINE r == s + Size(p[s])
    <3>0. r \in Nat /\ r > s /\ r <= e /\ r \in T \cup {e} /\ s \in Nat BY <1>11
    <3>1. CASE s < o /\ r <= o /\ B(s) = s
      <4>1. r \in T BY <3>0, <3>1, <1>1, <1>2
      <4>2. CASE r = o BY <4>2, <3>1, <2>1, <1>17
      <4>3. CASE r # o
        <5>1. r \in T \ {o} /\ r < o BY <4>1, <4>3, <3>0, <3>1, <1>1
        <5>2. B(r) = r BY <5>1 DEF B
        <5>3. r \in U BY <5>1, <5>2, <1>12
        <5> QED BY <5>3, <3>1, <2>1
      <4> QED BY <4>2, <4>3
    <3>2. CASE s > o /\ o + z <= s /\ B(s) = s - z
      <4>0. t + Size(p[s]) = r - z BY <3>2, <2>1, <1>1, <1>11
      <4>1. CASE r = e BY <4>0, <4>1 DEF f
      <4>2. CASE r \in T
        <5>1. r \in T \ {o} /\ ~(r < o) BY <4>2, <3>0, <3>2, <1>1
        <5> HIDE DEF r
        <5>2. B(r) = r - z BY <5>1 DEF B
        <5> QED BY <4>0, <5>1, <5>2, <1>12
      <4> QED BY <4>1, <4>2, <3>0
    <3> QED BY <3>1, <3>2, <1>11
  <2> QED BY <2>2, <2>3, <2>5, <2>6
<1>20. ASSUME NEW s \in T \ {o}, NEW r \in T \ {o}, B(s) < B(r) PROVE B(s) + Size(q[B(s)]) <= B(r)
  <2>1. s < r BY <1>20, <1>11, <1>1
  <2>2. s + Size(p[s]) <= r BY <2>1, <1>2
  <2>3. B(s) + Size(p[s]) <= B(r) BY <2>1, <2>2, <1>11, <1>1
  <2> QED BY <2>3, <1>15
<1>21. \A s, t \in U : s < t => s + Size(q[s]) <= t BY <1>13, <1>20
<1>22. \A s, t \in U : q[s][2] = q[t][2] => s = t
  <2> SUFFICES ASSUME NEW s \in U, NEW t \in U, q[s][2] = q[t][2] PROVE s = t OBVIOUS
  <2>1. PICK a \in T \ {o} : s = B(a) BY <1>13
  <2>2. PICK b \in T \ {o} : t = B(b) BY <1>13
  <2>3. p[a][2] = p[b][2] BY <2>1, <2>2, <1>15
  <2>4. a = b BY <2>3, <1>2
  <2> QED BY <2>1, <2>2, <2>4
<1>23. ASSUME NEW i \in Offset, q[i][1] = "tok" PROVE i \in U \cup {f}
  <2>0. i \in Nat BY <1>5
  <2>1. CASE i < o
    <3>1. p[i][1] = "tok" BY <2>1, <1>6, <1>23
    <3>2. i \in T \ {o} BY <3>1, <2>0, <2>1, <1>1, <1>2
    <3>3. B(i) = i BY <2>1 DEF B
    <3> QED BY <3>2, <3>3, <1>12
  <2>2. CASE i >= o /\ i < f
    <3>1. p[i + z][1] = "tok" BY <2>2, <1>7, <1>23
    <3>2. i + z \in Offset /\ i + z < e /\ i + z > o BY <2>0, <2>2, <1>1, <1>2, Constants DEF Offset, f
    <3>3. i + z \in T \ {o}
      <4>1. i + z \in T \cup {e} BY <3>1, <3>2, <1>2
      <4>2. i + z # e /\ i + z # o BY <2>0, <3>2, <1>1, <1>2
      <4> QED BY <4>1, <4>2
    <3>4. ~(i + z < o) /\ (i + z) - z = i BY <3>2, <2>0, <1>1
    <3>5. B(i + z) = i BY <3>4 DEF B
    <3> QED BY <3>3, <3>5, <1>12
  <2>3. CASE i >= f
    <3>1. q[i] = Zero BY <2>3, <1>8
    <3> QED BY <3>1, <1>23 DEF Zero
  <2> QED BY <2>0, <2>1, <2>2, <2>3, <1>1, <1>9
<1>24. ~IsToken(At(q, f))
  <2>1. f \in Offset /\ f >= f BY <1>9, Constants DEF Offset
  <2>2. q[f] = Zero BY <2>1, <1>8
  <2> QED BY <2>2, <1>9 DEF At, IsToken, Zero
<1>25. U \subseteq Offset BY <1>13, <1>16
<1>26. f <= PadLen BY <1>9, Constants
<1>27. Listed(q, U, f)
  BY <1>9, <1>10, <1>18, <1>19, <1>21, <1>22, <1>23, <1>24, <1>25, <1>26 DEF Listed
<1>28. \A s \in T \ {o} : \E t \in U : Same(p, s, q, t) BY <1>12, <1>14
<1>29. \A t \in U : \E s \in T \ {o} : q[t] = p[s] BY <1>13, <1>15
<1>30. HasMagic(p) => HasMagic(q)
  <2>1. 0 \in Offset /\ 0 < o BY <1>1, Constants DEF Offset
  <2> QED BY <2>1, <1>6 DEF HasMagic
<1> QED BY <1>27, <1>28, <1>29, <1>30 DEF q, f, z

-----------------------------------------------------------------------------
(* What the writes do to the map. *)

\* A pad with the magic number and a list of tokens.
Good(p) == HasMagic(p) /\ \E T \in SUBSET Offset, e \in 0..PadLen : Listed(p, T, e)

\* The value that a set with length l and data v gives a token.
Stored(l, v) == IF l = 0 \/ v = None THEN None ELSE <<l, v>>

\* q is a good pad that has what p has, but x for n.
Maps(p, q, n, x) ==
    Good(q) /\ Data(q, n) = x /\ \A m \in Name : m # n => Data(q, m) = Data(p, m)

\* A pad with a list and the magic number is good.
LEMMA GoodIs ==
    ASSUME NEW p, NEW T, NEW e, Listed(p, T, e), HasMagic(p)
    PROVE  Good(p)
<1>1. T \in SUBSET Offset /\ e \in 0..PadLen BY ListedParts, Constants
<1> QED BY <1>1 DEF Good

\* What kerSysScratchPadGet returns from a good pad is a value a caller passed.
LEMMA GoodData ==
    ASSUME NEW p, Good(p), NEW n, Lookup(p, n) # PadLen
    PROVE  Data(p, n) \in Value
<1>1. PICK T, e : Listed(p, T, e) BY DEF Good
<1>2. HasMagic(p) BY DEF Good
<1>3. PICK t \in T : p[t][2] = n BY <1>1, <1>2, DataMiss
<1>4. PICK v \in Val : Whole(p, t, v) BY <1>1 DEF Listed
<1>5. Data(p, n) = <<p[t][3], v>> BY <1>1, <1>2, <1>3, <1>4, DataHit
<1>6. p[t][3] \in Lengths BY <1>1, ListedToken
<1> QED BY <1>5, <1>6 DEF Value

\* A token put behind a list that does not have its name changes that name only.
LEMMA AppendMaps ==
    ASSUME NEW p, NEW T, NEW e, Listed(p, T, e), HasMagic(p),
           NEW n \in Name, NEW l \in Lengths \cup {0}, NEW v,
           l = 0 \/ (v \in Val /\ v # None), l < PadLen, e + TokLen + l <= PadLen, \A t \in T : p[t][2] # n
    PROVE  LET q == Put(p, e, TokenCells(n, l, v)) IN
           /\ \E U, f : Listed(q, U, f)
           /\ Maps(p, q, n, Stored(l, v))
<1> DEFINE q == Put(p, e, TokenCells(n, l, v))
<1>0. l \in Nat /\ e \in Nat BY Constants, ListedParts
<1>1. CASE l = 0
  <2>1. e + TokLen <= PadLen BY <1>0, <1>1, Constants
  <2>2. Listed(q, T, e) /\ (\A t \in T : Same(p, t, q, t)) /\ HasMagic(q) BY <1>1, <2>1, AppendNothing
  <2> HIDE DEF q
  <2>3. \A t \in T : q[t] = p[t] BY <2>2 DEF Same
  <2>4. Data(q, n) = None BY <2>2, <2>3, DataMiss
  <2>5. ASSUME NEW m \in Name, m # n PROVE Data(q, m) = Data(p, m) BY <2>2, <2>3, DataKept
  <2>6. Good(q) BY <2>2, GoodIs
  <2> QED BY <2>2, <2>4, <2>5, <2>6, <1>1 DEF Maps, Stored, q
<1>2. CASE l # 0
  <2> DEFINE U == T \cup {e}
             f == e + TokLen + Aligned(l)
  <2>1. l \in Lengths /\ l > 0 /\ v \in Val /\ v # None BY <1>0, <1>2
  <2>2. /\ Listed(q, U, f) /\ (\A t \in T : Same(p, t, q, t)) /\ HasMagic(q)
        /\ q[e] = <<"tok", n, l>> /\ Whole(q, e, v)
    <3> HIDE DEF U, f
    <3>1. /\ Listed(q, T \cup {e}, e + TokLen + Aligned(l)) /\ (\A t \in T : Same(p, t, q, t))
          /\ q[e] = <<"tok", n, l>> /\ Whole(q, e, v) /\ (HasMagic(p) => HasMagic(q))
      BY <2>1, AppendToken
    <3> HIDE DEF q
    <3> QED BY <3>1 DEF U, f
  <2> HIDE DEF q, f
  <2>3. \A t \in T : q[t] = p[t] BY <2>2 DEF Same
  <2>4. e \in U /\ q[e][2] = n /\ q[e][3] = l BY <2>2
  <2>5. Data(q, q[e][2]) = <<q[e][3], v>>
    <3> HIDE DEF U
    <3> QED BY <2>1, <2>2, <2>4, DataHit
  <2>6. ASSUME NEW m \in Name, m # n PROVE Data(q, m) = Data(p, m)
    <3>1. \A s \in T : p[s][2] = m => \E t \in U : Same(p, s, q, t) BY <2>2
    <3>2. \A t \in U : q[t][2] = m => \E s \in T : p[s][2] = m BY <2>3, <2>4, <2>6
    <3> HIDE DEF U
    <3> QED BY <2>2, <3>1, <3>2, DataKept
  <2>7. Good(q) BY <2>2, GoodIs
  <2> QED BY <2>1, <2>2, <2>4, <2>5, <2>6, <2>7, <1>2 DEF Maps, Stored, q
<1> QED BY <1>1, <1>2

\* The header again changes no token.
LEMMA HeaderMaps ==
    ASSUME NEW p, NEW T, NEW e, Listed(p, T, e), HasMagic(p)
    PROVE  Good(Put(p, 0, Header)) /\ \A m \in Name : Data(Put(p, 0, Header), m) = Data(p, m)
<1> DEFINE q == Put(p, 0, Header)
<1>1. Listed(q, T, e) /\ HasMagic(q) /\ \A t \in T : Same(p, t, q, t) BY HeaderKeeps
<1> HIDE DEF q
<1>2. \A t \in T : q[t] = p[t] BY <1>1 DEF Same
<1>3. ASSUME NEW m \in Name PROVE Data(q, m) = Data(p, m) BY <1>1, <1>2, DataKept
<1>4. Good(q) BY <1>1, GoodIs
<1> QED BY <1>3, <1>4 DEF q

\* The last part of kerSysScratchPadSet changes the token it names only.
LEMMA EndMaps ==
    ASSUME NEW p, NEW T, NEW e, Listed(p, T, e), HasMagic(p),
           NEW n \in Name, NEW l \in Lengths \cup {0}, NEW v,
           v \in Val \/ (v = None /\ l = 0), l < PadLen, e + TokLen + l <= PadLen, \A t \in T : p[t][2] # n
    PROVE  Maps(p, Put(IF v = None THEN p ELSE Put(p, UsedLen(p), TokenCells(n, l, v)), 0, Header),
                n, Stored(l, v))
<1>1. UsedLen(p) = e BY UsedLenIs
<1>2. CASE v = None
  <2>1. Data(p, n) = None BY DataMiss
  <2>2. Stored(l, v) = None BY <1>2 DEF Stored
  <2> QED BY <1>2, <2>1, <2>2, HeaderMaps DEF Maps
<1>3. CASE v # None
  <2> DEFINE r == Put(p, e, TokenCells(n, l, v))
  <2>1. (\E U, f : Listed(r, U, f)) /\ Maps(p, r, n, Stored(l, v)) BY <1>3, AppendMaps
  <2> HIDE DEF r
  <2>2. HasMagic(r) BY <2>1 DEF Maps, Good
  <2>3. Good(Put(r, 0, Header)) /\ \A m \in Name : Data(Put(r, 0, Header), m) = Data(r, m)
    BY <2>1, <2>2, HeaderMaps
  <2>4. Maps(p, Put(r, 0, Header), n, Stored(l, v)) BY <2>1, <2>3 DEF Maps
  <2> QED BY <1>1, <1>3, <2>4 DEF r
<1> QED BY <1>2, <1>3

\* The first set of a pad without tokens stores its token only.
LEMMA NewMaps ==
    ASSUME NEW p, Blank(p), NEW n \in Name, NEW l \in Lengths \cup {0}, NEW v,
           l = 0 \/ (v \in Val /\ v # None), HeadLen + TokLen + l <= PadLen
    PROVE  Maps(p, Put(Put(p, 0, Header), HeadLen, TokenCells(n, l, v)), n, Stored(l, v))
<1> DEFINE r == Put(p, 0, Header)
           q == Put(r, HeadLen, TokenCells(n, l, v))
<1>1. Listed(r, {}, HeadLen) /\ HasMagic(r) BY HeaderOfNew
<1> HIDE DEF r
<1>2. l \in Nat /\ l < PadLen BY Constants
<1>3. Maps(r, q, n, Stored(l, v)) BY <1>1, <1>2, AppendMaps
<1>4. \A m : Data(r, m) = None BY <1>1, DataMiss
<1>5. \A m : Data(p, m) = None BY DataBlank DEF Blank
<1> HIDE DEF q
<1>6. Maps(p, q, n, Stored(l, v)) BY <1>3, <1>4, <1>5 DEF Maps
<1> QED BY <1>6 DEF q, r

\* Overwriting the data of a token changes that token only.
LEMMA OverwriteMaps ==
    ASSUME NEW p, NEW T, NEW e, Listed(p, T, e), HasMagic(p), NEW t \in T, NEW v \in Val
    PROVE  Maps(p, Put(p, t + TokLen, DataCells(p[t][3], v)), p[t][2], <<p[t][3], v>>)
<1> DEFINE q == Put(p, t + TokLen, DataCells(p[t][3], v))
           n == p[t][2]
<1>1. /\ Listed(q, T, e) /\ (\A s \in T : q[s] = p[s] /\ (s # t => Same(p, s, q, s)))
      /\ Whole(q, t, v) /\ HasMagic(q)
  BY Overwrite
<1> HIDE DEF q
<1>2. Data(q, q[t][2]) = <<q[t][3], v>> BY <1>1, DataHit
<1>3. ASSUME NEW m \in Name, m # n PROVE Data(q, m) = Data(p, m)
  <2>1. \A s \in T : p[s][2] = m => \E u \in T : Same(p, s, q, u) BY <1>1, <1>3
  <2>2. \A s \in T : q[s][2] = m => \E u \in T : p[u][2] = m BY <1>1
  <2> QED BY <1>1, <2>1, <2>2, DataKept
<1>4. Good(q) BY <1>1, GoodIs
<1>5. Data(q, n) = <<p[t][3], v>> BY <1>1, <1>2
<1> QED BY <1>3, <1>4, <1>5 DEF Maps, q

\* Removing a token and putting it at the end changes that token only, and it fits
\* because it fitted behind all the tokens.
LEMMA MoveMaps ==
    ASSUME NEW p, NEW T, NEW e, Listed(p, T, e), HasMagic(p), NEW o \in T,
           NEW l \in Lengths \cup {0}, NEW v,
           v \in Val \/ (v = None /\ l = 0), l < PadLen, e + TokLen + l <= PadLen
    PROVE  LET r == Removed(p, o) IN
           /\ Maps(p, Put(IF v = None THEN r ELSE Put(r, UsedLen(r), TokenCells(p[o][2], l, v)), 0, Header),
                   p[o][2], Stored(l, v))
           /\ UsedLen(r) + TokLen + l <= PadLen
<1> DEFINE r == Removed(p, o)
           n == p[o][2]
           f == e - Size(p[o])
<1>1. PICK U : /\ Listed(r, U, f)
               /\ \A s \in T \ {o} : \E t \in U : Same(p, s, r, t)
               /\ \A t \in U : \E s \in T \ {o} : r[t] = p[s]
               /\ HasMagic(r)
  BY Remove
<1>2. n \in Name /\ Size(p[o]) \in Nat BY ListedToken
<1>3. \A s \in T \ {o} : p[s][2] # n BY ListedParts
<1> HIDE DEF r
<1>4. \A t \in U : r[t][2] # n BY <1>1, <1>3
<1>5. l \in Nat /\ e \in Nat /\ f \in Nat /\ f + TokLen + l <= PadLen
  <2>1. f \in Nat BY <1>1, ListedParts
  <2>2. l \in Nat /\ e \in Nat BY ListedParts, Constants
  <2> QED BY <2>1, <2>2, <1>2, Constants
<1> HIDE DEF f, n
<1> DEFINE q == Put(IF v = None THEN r ELSE Put(r, UsedLen(r), TokenCells(n, l, v)), 0, Header)
<1>6. Maps(r, q, n, Stored(l, v)) BY <1>1, <1>2, <1>4, <1>5, EndMaps
<1>7. ASSUME NEW m \in Name, m # n PROVE Data(r, m) = Data(p, m)
  <2>1. \A s \in T : p[s][2] = m => \E t \in U : Same(p, s, r, t) BY <1>1, <1>7 DEF n
  <2>2. \A t \in U : r[t][2] = m => \E s \in T : p[s][2] = m BY <1>1
  <2> QED BY <1>1, <2>1, <2>2, DataKept
<1> HIDE DEF q
<1>8. Maps(p, q, n, Stored(l, v)) BY <1>6, <1>7 DEF Maps
<1>9. UsedLen(r) = f BY <1>1, UsedLenIs
<1> QED BY <1>5, <1>8, <1>9 DEF q, n, r

-----------------------------------------------------------------------------
(* The actions. *)

\* No version with another magic number left tokens.
NewPads == \A p \in OldPads : Blank(p)

\* The inductive invariant.
Inv ==
    /\ Blank(pad) \/ Good(pad)
    /\ spill = FALSE
    /\ ret \in {<<"ok">>, <<"fail">>} \cup {<<"value", t>> : t \in Value}

\* An erased pad and a zeroed pad have no tokens.
LEMMA ZeroBlank == Blank(AllZero) /\ Blank(AllFf)
<1>1. 0 \in Offset BY Constants DEF Offset
<1>2. Zero \in Cell /\ Ff \in Cell BY DEF Cell
<1>3. AllZero \in [Offset -> Cell] /\ AllFf \in [Offset -> Cell] BY <1>2 DEF AllZero, AllFf
<1>4. ~HasMagic(AllZero) /\ ~HasMagic(AllFf) BY <1>1 DEF HasMagic, AllZero, AllFf, Zero, Ff, Magic
<1>5. \A o \in Offset : AllZero[o][1] # "tok" /\ AllFf[o][1] # "tok" BY DEF AllZero, AllFf, Zero, Ff
<1> QED BY <1>3, <1>4, <1>5 DEF Blank

\* A good pad has no second token with a name.
LEMMA GoodUnique ==
    ASSUME NEW p, Good(p), NEW n, NEW i \in Offset, i > Find(p, n), i < UsedLen(p),
           p[i][1] = "tok", p[i][2] = n, Find(p, n) < UsedLen(p)
    PROVE  FALSE
<1>1. PICK T, e : Listed(p, T, e) BY DEF Good
<1>2. UsedLen(p) = e /\ e \in Nat BY <1>1, UsedLenIs, ListedParts
<1>3. i \in T BY <1>1, <1>2, ListedParts, Constants DEF Offset
<1>4. Find(p, n) = i BY <1>1, <1>3, FindHit
<1>5. i \in Nat BY Constants DEF Offset
<1> QED BY <1>4, <1>5

\* The invariant says what PadSound says.
LEMMA InvSound == Inv => PadSound
<1> SUFFICES ASSUME Inv PROVE PadSound OBVIOUS
<1>1. pad \in [Offset -> Cell]
  <2>1. Good(pad) => pad \in [Offset -> Cell] BY ListedParts DEF Good
  <2> QED BY <2>1 DEF Inv, Blank
<1>2. TypeOK BY <1>1 DEF Inv, TypeOK
<1>3. NoSpill BY DEF Inv, NoSpill
<1>4. UniqueNames
  <2>1. HasMagic(pad) => Good(pad) BY DEF Inv, Blank
  <2> QED BY <2>1, GoodUnique DEF UniqueNames
<1> QED BY <1>2, <1>3, <1>4 DEF PadSound

\* The invariant holds at first.
LEMMA InitInv == NewPads /\ Init => Inv
<1> SUFFICES ASSUME NewPads, Init PROVE Inv OBVIOUS
<1>1. Blank(pad) BY ZeroBlank DEF Init, NewPads
<1> QED BY <1>1 DEF Init, Inv

\* kerSysScratchPadSet, when it does not refuse the token, stores it and changes no
\* other, inside the pad, or fails and leaves the pad erased.
LEMMA SetDone ==
    ASSUME Inv, NEW n \in Name, NEW l \in Lengths \cup {0}, NEW v,
           v \in Val \/ (v = None /\ l = 0), l < PadLen - HeadLen - TokLen,
           HasMagic(pad) => ~Overflows(l),
           IF HasMagic(pad) THEN SetToken(n, l, v) ELSE SetNew(n, l, v)
    PROVE  /\ spill' = FALSE
           /\ \/ Maps(pad, pad', n, Stored(l, v)) /\ ret' = <<"ok">>
              \/ pad' = AllFf /\ ret' = <<"fail">>
<1>0. l \in Nat /\ l < PadLen /\ HeadLen + TokLen + l <= PadLen BY Constants
<1>1. v \in Val => v # None BY NoneAssumption
<1>2. spill = FALSE BY DEF Inv
<1>3. CASE ~HasMagic(pad)
  <2>1. Blank(pad) BY <1>3 DEF Inv, Good
  <2> DEFINE q == Put(Put(pad, 0, Header), HeadLen, TokenCells(n, l, v))
  <2>2. SetSharedBlks(q) /\ spill' = (spill \/ HeadLen + TokLen + l > PadLen)
    BY <1>3 DEF SetNew
  <2>3. Maps(pad, q, n, Stored(l, v)) BY <1>0, <1>1, <2>1, NewMaps
  <2>4. ~(HeadLen + TokLen + l > PadLen) BY <1>0, Constants
  <2> HIDE DEF q
  <2> QED BY <1>2, <2>2, <2>3, <2>4 DEF SetSharedBlks
<1>4. CASE HasMagic(pad)
  <2>1. PICK T, e : Listed(pad, T, e) BY <1>4 DEF Inv, Good, Blank
  <2>2. UsedLen(pad) = e /\ e \in Nat BY <2>1, UsedLenIs, ListedParts
  <2>3. e + TokLen + l <= PadLen BY <1>0, <1>4, <2>2, Constants DEF Overflows
  <2>4. SetToken(n, l, v) BY <1>4
  <2>5. CASE \A t \in T : pad[t][2] # n
    <3>1. Find(pad, n) = e BY <2>1, <2>5, FindMiss
    <3>2. PutAtEnd(pad, n, l, v) BY <2>2, <2>4, <3>1 DEF SetToken
    <3>3. Maps(pad, Put(IF v = None THEN pad ELSE Put(pad, UsedLen(pad), TokenCells(n, l, v)), 0, Header),
               n, Stored(l, v))
      BY <1>0, <1>4, <2>1, <2>3, <2>5, EndMaps
    <3>4. ~(UsedLen(pad) + TokLen + l > PadLen) BY <1>0, <2>2, <2>3, Constants
    <3> QED BY <1>2, <3>2, <3>3, <3>4 DEF PutAtEnd, SetSharedBlks
  <2>6. CASE \E t \in T : pad[t][2] = n
    <3>1. PICK o \in T : pad[o][2] = n BY <2>6
    <3>2. Find(pad, n) = o BY <2>1, <3>1, FindHit
    <3>3. o \in Nat /\ o < e /\ pad[o][3] > 0 /\ pad[o][3] \in Nat BY <2>1, ListedToken
    <3>4. ~(o >= UsedLen(pad)) BY <2>2, <3>3
    <3>5. CASE pad[o][3] = l /\ v # None
      <4> DEFINE q == Put(pad, o + TokLen, DataCells(l, v))
      <4>1. SetSharedBlks(q) /\ spill' = spill
        BY <2>4, <3>2, <3>4, <3>5 DEF SetToken
      <4>2. v \in Val /\ l # 0 BY <3>3, <3>5
      <4>3. Maps(pad, q, n, <<l, v>>) BY <1>4, <2>1, <3>1, <3>5, <4>2, OverwriteMaps
      <4> HIDE DEF q
      <4> QED BY <1>2, <3>5, <4>1, <4>2, <4>3 DEF Stored, SetSharedBlks
    <3>6. CASE ~(pad[o][3] = l /\ v # None)
      <4> DEFINE r == Removed(pad, o)
      <4>1. PutAtEnd(r, n, l, v) BY <2>4, <3>2, <3>4, <3>6 DEF SetToken
      <4>2. /\ Maps(pad, Put(IF v = None THEN r ELSE Put(r, UsedLen(r), TokenCells(n, l, v)), 0, Header),
                    n, Stored(l, v))
            /\ UsedLen(r) + TokLen + l <= PadLen
        BY <1>0, <1>4, <2>1, <2>3, <3>1, MoveMaps
      <4>3. UsedLen(r) \in Nat
        <5>1. PICK U : Listed(r, U, e - Size(pad[o])) BY <2>1, Remove
        <5> QED BY <5>1, UsedLenIs, ListedParts
      <4> HIDE DEF r
      <4>4. ~(UsedLen(r) + TokLen + l > PadLen) BY <1>0, <4>2, <4>3, Constants
      <4> QED BY <1>2, <4>1, <4>2, <4>4 DEF PutAtEnd, SetSharedBlks
    <3> QED BY <3>5, <3>6
  <2> QED BY <2>5, <2>6
<1> QED BY <1>3, <1>4

\* A pad without tokens is the empty map.
LEMMA ClearedMap ==
    ASSUME NEW p, Blank(p)
    PROVE  [m \in Name |-> Data(p, m)] = TM!Empty
BY DataBlank DEF Blank, TM!Empty

\* kerSysScratchPadSet is a set of the map.
LEMMA SetStep ==
    ASSUME Inv, NEW n \in Name, NEW l \in Lengths \cup {0}, NEW v,
           v \in Val \/ (v = None /\ l = 0), Set(n, l, v)
    PROVE  Inv' /\ TM!Next
<1>1. last' = <<"set", n, Stored(l, v)>> BY DEF Set, Stored
<1>2. Stored(l, v) \in Value \cup {None}
  <2>1. CASE l = 0 \/ v = None BY <2>1 DEF Stored
  <2>2. CASE ~(l = 0 \/ v = None)
    <3>1. l \in Lengths /\ v \in Val BY <2>2
    <3> QED BY <2>2, <3>1 DEF Stored, Value
  <2> QED BY <2>1, <2>2
<1> DEFINE map == [m \in Name |-> Data(pad, m)]
<1>3. CASE l >= PadLen - HeadLen - TokLen \/ (HasMagic(pad) /\ Overflows(l))
  <2>1. ret' = <<"fail">> /\ pad' = pad /\ spill' = spill BY <1>3 DEF Set, Refuse
  <2>2. Inv' BY <2>1 DEF Inv
  <2>3. map' = map BY <2>1
  <2>4. TM!Set(n, Stored(l, v)) BY <1>1, <2>1, <2>3 DEF TM!Set, TM!Fail
  <2> QED BY <1>2, <2>2, <2>4 DEF TM!Next
<1>4. CASE ~(l >= PadLen - HeadLen - TokLen \/ (HasMagic(pad) /\ Overflows(l)))
  <2>0. l \in Nat BY Constants
  <2>1. l < PadLen - HeadLen - TokLen BY <1>4, <2>0, Constants
  <2>2. IF HasMagic(pad) THEN SetToken(n, l, v) ELSE SetNew(n, l, v) BY <1>4 DEF Set
  <2>3. /\ spill' = FALSE
        /\ \/ Maps(pad, pad', n, Stored(l, v)) /\ ret' = <<"ok">>
           \/ pad' = AllFf /\ ret' = <<"fail">>
    BY <1>4, <2>1, <2>2, SetDone
  <2>4. Inv' BY <2>3, ZeroBlank DEF Inv, Maps
  <2>5. CASE Maps(pad, pad', n, Stored(l, v)) /\ ret' = <<"ok">>
    <3>1. map' = [map EXCEPT ![n] = Stored(l, v)] BY <2>5 DEF Maps
    <3>2. TM!Set(n, Stored(l, v)) BY <1>1, <2>5, <3>1 DEF TM!Set
    <3> QED BY <1>2, <2>4, <3>2 DEF TM!Next
  <2>6. CASE pad' = AllFf /\ ret' = <<"fail">>
    <3>1. map' = TM!Empty BY <2>6, ZeroBlank, ClearedMap
    <3>2. TM!Set(n, Stored(l, v)) BY <1>1, <2>6, <3>1 DEF TM!Set, TM!Fail
    <3> QED BY <1>2, <2>4, <3>2 DEF TM!Next
  <2> QED BY <2>3, <2>5, <2>6
<1> QED BY <1>3, <1>4

\* kerSysScratchPadGet is a get of the map; the pad it may clear had no tokens.
LEMMA GetStep ==
    ASSUME Inv, NEW n \in Name, Get(n)
    PROVE  Inv' /\ TM!Next
<1>1. /\ last' = <<"get", n>> /\ spill' = spill
      /\ ret' = IF Lookup(pad, n) = PadLen THEN <<"fail">> ELSE <<"value", Data(pad, n)>>
      /\ pad' = pad \/ (~HasMagic(pad) /\ pad' \in {AllZero, AllFf})
  BY DEF Get
<1>2. ret' = <<"fail">> \/ (Data(pad, n) \in Value /\ ret' = <<"value", Data(pad, n)>>)
  <2>1. CASE Lookup(pad, n) = PadLen BY <1>1, <2>1
  <2>2. CASE Lookup(pad, n) # PadLen
    <3>1. HasMagic(pad) BY <2>2, DataBlank
    <3>2. Good(pad) BY <3>1 DEF Inv, Blank
    <3> QED BY <1>1, <2>2, <3>2, GoodData
  <2> QED BY <2>1, <2>2
<1>3. Blank(pad') \/ Good(pad')
  <2>1. CASE pad' = pad BY <2>1 DEF Inv
  <2>2. CASE pad' \in {AllZero, AllFf} BY <2>2, ZeroBlank
  <2> QED BY <1>1, <2>1, <2>2
<1>4. Inv' BY <1>1, <1>2, <1>3 DEF Inv
<1> DEFINE map == [m \in Name |-> Data(pad, m)]
<1>5. map' = map
  <2>1. CASE pad' = pad BY <2>1
  <2>2. CASE ~HasMagic(pad) /\ pad' \in {AllZero, AllFf}
    <3>1. Blank(pad) BY <2>2 DEF Inv, Good
    <3>2. map = TM!Empty BY <3>1, ClearedMap
    <3>3. map' = TM!Empty BY <2>2, ZeroBlank, ClearedMap
    <3> QED BY <3>2, <3>3
  <2> QED BY <1>1, <2>1, <2>2
<1>6. Data(pad, n) \in Value => map[n] # None /\ map[n] = Data(pad, n) BY NoneAssumption
<1>7. TM!Get(n) BY <1>1, <1>2, <1>5, <1>6 DEF TM!Get
<1> QED BY <1>4, <1>7 DEF TM!Next

\* kerSysScratchPadClearAll is a clear of the map.
LEMMA ClearStep ==
    ASSUME Inv, ClearAll
    PROVE  Inv' /\ TM!Next
<1>1. /\ last' = <<"clear">> /\ spill' = spill /\ pad' \in {AllZero, AllFf}
      /\ ret' \in {<<"ok">>, <<"fail">>}
  BY DEF ClearAll, SetSharedBlks
<1>2. Inv' BY <1>1, ZeroBlank DEF Inv
<1> DEFINE map == [m \in Name |-> Data(pad, m)]
<1>3. map' = TM!Empty BY <1>1, ZeroBlank, ClearedMap
<1>4. TM!Clear BY <1>1, <1>3 DEF TM!Clear, TM!Fail
<1> QED BY <1>2, <1>4 DEF TM!Next

\* A call that gets no memory is a call of the map that fails.
LEMMA NoMemoryStep ==
    ASSUME Inv, NoMemory
    PROVE  Inv' /\ TM!Next
<1>1. ret' = <<"fail">> /\ pad' = pad /\ spill' = spill BY DEF NoMemory, Refuse
<1>2. Inv' BY <1>1 DEF Inv
<1> DEFINE map == [m \in Name |-> Data(pad, m)]
<1>3. map' = map BY <1>1
<1>4. CASE last' = <<"clear">>
  <2>1. TM!Clear BY <1>1, <1>3, <1>4 DEF TM!Clear, TM!Fail
  <2> QED BY <1>2, <2>1 DEF TM!Next
<1>5. CASE \E n \in Name : last' = <<"get", n>>
  <2>1. PICK n \in Name : last' = <<"get", n>> BY <1>5
  <2>2. TM!Get(n) BY <1>1, <1>3, <2>1 DEF TM!Get
  <2> QED BY <1>2, <2>2 DEF TM!Next
<1>6. CASE \E n \in Name, v \in Value \cup {None} : last' = <<"set", n, v>>
  <2>1. PICK n \in Name, v \in Value \cup {None} : last' = <<"set", n, v>> BY <1>6
  <2>2. TM!Set(n, v) BY <1>1, <1>3, <2>1 DEF TM!Set, TM!Fail
  <2> QED BY <1>2, <2>2 DEF TM!Next
<1> QED BY <1>4, <1>5, <1>6 DEF NoMemory

\* Every step keeps the invariant, and is a step of the map or changes nothing of it.
LEMMA NextStep == Inv /\ [Next]_vars => Inv' /\ [TM!Next]_(TM!vars)
<1> SUFFICES ASSUME Inv, [Next]_vars PROVE Inv' /\ [TM!Next]_(TM!vars) OBVIOUS
<1>1. ASSUME NEW n \in Name, Get(n) PROVE Inv' /\ TM!Next BY <1>1, GetStep
<1>2. ASSUME NEW n \in Name, NEW l \in Lengths, NEW v \in Val, Set(n, l, v) PROVE Inv' /\ TM!Next
  <2>1. l \in Lengths \cup {0} OBVIOUS
  <2> QED BY <1>2, <2>1, SetStep
<1>3. ASSUME NEW n \in Name, Set(n, 0, None) PROVE Inv' /\ TM!Next
  <2>1. 0 \in Lengths \cup {0} OBVIOUS
  <2> QED BY <1>3, <2>1, SetStep
<1>4. CASE UNCHANGED vars
  <2>1. pad' = pad /\ spill' = spill /\ last' = last /\ ret' = ret BY <1>4 DEF vars
  <2>2. Inv' BY <2>1 DEF Inv
  <2>3. UNCHANGED TM!vars BY <2>1 DEF TM!vars
  <2> QED BY <2>2, <2>3
<1> QED BY <1>1, <1>2, <1>3, <1>4, ClearStep, NoMemoryStep DEF Next

\* PadSound, for any sizes, names, values and lengths, of a device that no version with
\* another magic number left its tokens on: the loops of bcm63xx_flash.c never leave the
\* pad, no write goes past its end, no name has two tokens, and a get returns whole data.
THEOREM PadStaysSound ==
    ASSUME NewPads
    PROVE  Spec => []PadSound
<1>1. Init => Inv BY InitInv
<1>2. Inv /\ [Next]_vars => Inv' BY NextStep
<1>3. Inv => PadSound BY InvSound
<1> QED BY <1>1, <1>2, <1>3, PTL DEF Spec

\* ImplementsTokenMap, under the same condition: the list of tokens in the flash is the
\* map that TokenMap describes, step by step.  kerSysScratchPadSet moves tokens about and
\* never changes, loses or brings back one that the call does not name, unless its write
\* fails, which loses them all and returns -1.
THEOREM PadImplementsTokenMap ==
    ASSUME NewPads
    PROVE  Spec => ImplementsTokenMap
<1>1. Init => Inv BY InitInv
<1>2. Inv /\ [Next]_vars => Inv' BY NextStep
<1>3. Init => TM!Init
  <2> SUFFICES ASSUME Init PROVE TM!Init OBVIOUS
  <2>1. Blank(pad) BY ZeroBlank DEF Init, NewPads
  <2>2. [m \in Name |-> Data(pad, m)] = TM!Empty BY <2>1, ClearedMap
  <2> QED BY <2>2 DEF Init, TM!Init
<1>4. Inv /\ [Next]_vars => [TM!Next]_(TM!vars) BY NextStep
<1> QED BY <1>1, <1>2, <1>3, <1>4, PTL DEF Spec, ImplementsTokenMap, TM!Spec
=============================================================================
