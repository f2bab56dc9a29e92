--------------------------- MODULE ComReceiverProofs ---------------------------
(***************************************************************************)
(* Theorems about the serial receiver.  The ring and the whole line are     *)
(* both read by functions that call themselves; that each has the equation  *)
(* of its definition, and that both go the same way, is shown by a smallest  *)
(* counterexample (Smallest).  The invariant Reader says that less than a    *)
(* package waits in the ring, that the ring ends with the last bytes heard,  *)
(* and that, whatever comes later, a reader of the whole line finds what has *)
(* been carried out and then goes on where the ring does.                    *)
(***************************************************************************)
EXTENDS ComReceiver, SequenceTheorems, WellFoundedInduction, TLAPS

-----------------------------------------------------------------------------
(* Sequences.                                                              *)

\* Packages strung together three at a time, and bytes.
LEMMA Associates ==
    \A a, b, c \in Seq(Seq(Nat)) : (a \o b) \o c = a \o (b \o c)
  <1> PICK T : T = Seq(Nat)
    OBVIOUS
  <1>1. \A a, b, c \in Seq(T) : (a \o b) \o c = a \o (b \o c)
    BY ConcatAssociative, SMTT(60)
  <1> QED BY <1>1

LEMMA AssociatesBytes ==
    \A a, b, c \in Seq(Nat) : (a \o b) \o c = a \o (b \o c)
  <1> PICK T : T = Nat
    OBVIOUS
  <1>1. \A a, b, c \in Seq(T) : (a \o b) \o c = a \o (b \o c)
    BY ConcatAssociative
  <1> QED BY <1>1

\* What follows in a joined sequence of bytes.
LEMMA Joined ==
    ASSUME NEW a \in Seq(Nat), NEW b \in Seq(Nat)
    PROVE  /\ a \o b \in Seq(Nat) /\ Len(a \o b) = Len(a) + Len(b)
           /\ \A i \in 1 .. Len(a) : (a \o b)[i] = a[i]
           /\ \A i \in 1 .. Len(b) : (a \o b)[Len(a) + i] = b[i]
  <1>1. a \o b \in Seq(Nat) /\ Len(a \o b) = Len(a) + Len(b)
    OBVIOUS
  <1>2. \A i \in 1 .. Len(a) : (a \o b)[i] = a[i]
    OBVIOUS
  <1>3. \A i \in 1 .. Len(b) : (a \o b)[Len(a) + i] = b[i]
    OBVIOUS
  <1> QED BY <1>1, <1>2, <1>3

\* A part of a sequence of bytes.
LEMMA Part ==
    ASSUME NEW s \in Seq(Nat), NEW a \in Int, NEW b \in Int, a <= b, \A i \in a .. b : s[i] \in Nat
    PROVE  /\ SubSeq(s, a, b) \in Seq(Nat) /\ Len(SubSeq(s, a, b)) = b - a + 1
           /\ \A k \in 1 .. b - a + 1 : SubSeq(s, a, b)[k] = s[a + k - 1]
  <1>1. SubSeq(s, a, b) \in Seq(Nat)
    BY SubSeqProperties
  <1>2. Len(SubSeq(s, a, b)) = b - a + 1
    BY SubSeqProperties
  <1>3. \A k \in 1 .. b - a + 1 : SubSeq(s, a, b)[k] = s[a + k - 1]
    BY SubSeqProperties
  <1> QED BY <1>1, <1>2, <1>3

USE SerialAssumption

-----------------------------------------------------------------------------
(* The ring.                                                               *)

\* A set of numbers has a smallest.
LEMMA Smallest ==
    ASSUME NEW S \in SUBSET Nat, S # {} PROVE \E n \in S : \A m \in S : n <= m
  <1>1. PICK x \in S : \A y \in S : ~ <<y, x>> \in OpToRel(<, Nat)
    BY NatLessThanWellFounded, WFMin
  <1>2. \A x1 \in Nat, y \in Nat : y < x1 => <<y, x1>> \in OpToRel(<, Nat)
    BY DEF OpToRel
  <1>3. \A y \in S : x \in Nat /\ y \in Nat /\ ~ (y < x)
    BY <1>1, <1>2
  <1> QED BY <1>3

\* Where the indices wrap round.
LEMMA Wraps ==
    /\ \A x \in Int : 0 <= x /\ x < Size => x % Size = x
    /\ \A x \in Int : Size <= x /\ x < 2 * Size => x % Size = x - Size
    /\ \A x \in Int : -Size <= x /\ x < 0 => x % Size = x + Size
  <1>1. ASSUME NEW x \in Int, 0 <= x, x < Size PROVE x % Size = x
    BY <1>1
  <1>2. ASSUME NEW x \in Int, Size <= x, x < 2 * Size PROVE x % Size = x - Size
    BY <1>2
  <1>3. ASSUME NEW x \in Int, -Size <= x, x < 0 PROVE x % Size = x + Size
    BY <1>3
  <1> QED BY <1>1, <1>2, <1>3
\* The search goes past at least one byte, and past no more than a package.
LEMMA Advances == \A p : Advance(p) \in {1, PackLen}
  BY DEF Advance

\* One round of the loop over the ring, where f tells what the next ones do.
Round(f, ring, e, n) ==
    IF Incomplete(n) THEN [left |-> n, found |-> << >>]
    ELSE LET p == PackageAt(ring, e - n)
             rest == f[n - Advance(p)]
         IN [left |-> rest.left, found |-> (IF Valid(p) THEN <<p>> ELSE << >>) \o rest.found]

\* The loop over the ring comes to an end.
LEMMA LoopEnds ==
    ASSUME NEW ring, NEW e
    PROVE  Loop(ring, e) = [n \in Index |-> Round(Loop(ring, e), ring, e, n)]
  <1> DEFINE Upto(f, n) == f = [m \in 0 .. n |-> Round(f, ring, e, m)]
             Ends(n) == \E f : Upto(f, n)
  <1>1. \A n \in Nat : ~Incomplete(n) => \A p : n - Advance(p) \in 0 .. n - 1
    BY Advances DEF Incomplete
  <1>2. Ends(0)
    <2> DEFINE f == [m \in 0 .. 0 |-> [left |-> 0, found |-> << >>]]
    <2>1. \A m \in 0 .. 0 : Round(f, ring, e, m) = [left |-> 0, found |-> << >>]
      BY DEF Round, Incomplete
    <2>2. Upto(f, 0)
      BY <2>1
    <2> QED BY <2>2
  <1>3. ASSUME NEW n \in Nat, Ends(n) PROVE Ends(n + 1)
    <2> PICK f : Upto(f, n)
      BY <1>3
    <2> DEFINE g == [m \in 0 .. n + 1 |-> IF m \in 0 .. n THEN f[m] ELSE Round(f, ring, e, m)]
    <2>1. \A m \in 0 .. n : g[m] = f[m]
      OBVIOUS
    <2>2. g[n + 1] = Round(f, ring, e, n + 1)
      OBVIOUS
    <2>3. \A m \in 0 .. n + 1 : Round(g, ring, e, m) = Round(f, ring, e, m)
      <3> SUFFICES ASSUME NEW m \in 0 .. n + 1 PROVE Round(g, ring, e, m) = Round(f, ring, e, m)
        OBVIOUS
      <3>1. CASE Incomplete(m)
        BY <3>1 DEF Round
      <3>2. CASE ~Incomplete(m)
        <4>1. \A p : m - Advance(p) \in 0 .. n
          BY <1>1, <3>2
        <4>2. \A p : g[m - Advance(p)] = f[m - Advance(p)]
          BY <2>1, <4>1
        <4> HIDE DEF g
        <4> QED BY <4>2 DEF Round
      <3> QED BY <3>1, <3>2
    <2>4. \A m \in 0 .. n : f[m] = Round(f, ring, e, m)
      OBVIOUS
    <2>5. \A m \in 0 .. n + 1 : g[m] = Round(g, ring, e, m)
      <3> SUFFICES ASSUME NEW m \in 0 .. n + 1 PROVE g[m] = Round(g, ring, e, m)
        OBVIOUS
      <3>1. m \in 0 .. n \/ m = n + 1
        OBVIOUS
      <3> HIDE DEF g
      <3> QED BY <2>1, <2>2, <2>3, <2>4, <3>1
    <2>6. g = [m \in 0 .. n + 1 |-> g[m]]
      OBVIOUS
    <2>7. Upto(g, n + 1)
      <3> HIDE DEF g
      <3> QED BY <2>5, <2>6
    <2> QED BY <2>7
  <1>4. \A n \in Nat : Ends(n)
    <2> DEFINE Bad == {n \in Nat : ~Ends(n)}
    <2> SUFFICES ASSUME Bad # {} PROVE FALSE
      OBVIOUS
    <2>1. PICK n \in Bad : \A m \in Bad : n <= m
      <3> HIDE DEF Ends
      <3> QED BY Smallest
    <2> HIDE DEF Ends
    <2>2. n # 0 /\ n \in Nat
      BY <1>2
    <2>3. n - 1 \in Nat /\ n - 1 \notin Bad
      BY <2>1, <2>2
    <2>4. Ends(n - 1)
      BY <2>3
    <2>5. Ends((n - 1) + 1)
      BY <1>3, <2>3, <2>4
    <2> QED BY <2>2, <2>5
  <1>5. \E f : f = [n \in Index |-> Round(f, ring, e, n)]
    <2>1. Size - 1 \in Nat
      OBVIOUS
    <2>2. Ends(Size - 1)
      BY <1>4, <2>1
    <2> QED BY <2>2 DEF Index
  <1>6. Loop(ring, e) = CHOOSE f : f = [n \in Index |-> Round(f, ring, e, n)]
    BY DEF Loop, Round
  <1> QED BY <1>5, <1>6

-----------------------------------------------------------------------------
(* The whole line.                                                         *)

\* The packages of s from i on, where f tells those from the places behind.
FromPlace(f, s, i) ==
    LET p == SubSeq(s, i, i + PackLen - 1)
    IN  IF i + PackLen - 1 > Len(s) THEN << >>
        ELSE IF Line!IsPackage(p) THEN <<p>> \o f[i + PackLen]
        ELSE f[i + 1]

\* The reader of the whole line comes to its end.
LEMMA LineEnds ==
    ASSUME NEW s \in Seq(Nat)
    PROVE  Line!PackagesFrom(s) =
             [i \in 1 .. Len(s) + 1 |-> FromPlace(Line!PackagesFrom(s), s, i)]
  <1> DEFINE L == Len(s) + 1
             Back(f, n) == f = [i \in L - n .. L |-> FromPlace(f, s, i)]
             Ends(n) == \E f : Back(f, n)
  <1>0. L \in Nat \ {0} /\ Len(s) \in Nat /\ L = Len(s) + 1 /\ PackLen \in Nat /\ PackLen > 3
    OBVIOUS
  <1>1. ASSUME NEW f, NEW g, NEW i \in Nat,
               i + PackLen - 1 <= Len(s) => g[i + PackLen] = f[i + PackLen] /\ g[i + 1] = f[i + 1]
        PROVE  FromPlace(g, s, i) = FromPlace(f, s, i)
    <2>1. CASE i + PackLen - 1 > Len(s)
      BY <2>1 DEF FromPlace
    <2>2. CASE ~ (i + PackLen - 1 > Len(s))
      <3>1. i + PackLen - 1 <= Len(s)
        BY <1>0, <2>2
      <3> QED BY <1>1, <3>1 DEF FromPlace
    <2> QED BY <2>1, <2>2
  <1> HIDE DEF L
  <1>2. Ends(0)
    <2> DEFINE f == [i \in L - 0 .. L |-> << >>]
    <2>1. \A i \in L - 0 .. L : FromPlace(f, s, i) = << >>
      <3>1. \A i \in L - 0 .. L : i + PackLen - 1 > Len(s)
        BY <1>0
      <3> QED BY <3>1 DEF FromPlace
    <2>2. Back(f, 0)
      BY <2>1
    <2> QED BY <2>2
  <1>3. ASSUME NEW n \in Nat, n < Len(s), Ends(n) PROVE Ends(n + 1)
    <2> PICK f : Back(f, n)
      BY <1>3
    <2> DEFINE low == L - (n + 1)
               g == [i \in low .. L |-> IF i = low THEN FromPlace(f, s, low) ELSE f[i]]
    <2>0. low \in Nat /\ L - n = low + 1 /\ low < L
      BY <1>0, <1>3 DEF L
    <2> HIDE DEF low
    <2>1. \A i \in low + 1 .. L : g[i] = f[i]
      BY <1>0, <2>0
    <2>2. g[low] = FromPlace(f, s, low)
      BY <1>0, <2>0
    <2>3. \A i \in low .. L : FromPlace(g, s, i) = FromPlace(f, s, i)
      <3> SUFFICES ASSUME NEW i \in low .. L PROVE FromPlace(g, s, i) = FromPlace(f, s, i)
        OBVIOUS
      <3>1. i \in Nat
        BY <1>0, <2>0
      <3>2. i + PackLen - 1 <= Len(s) => i + PackLen \in low + 1 .. L /\ i + 1 \in low + 1 .. L
        BY <1>0, <2>0, <3>1
      <3> HIDE DEF g
      <3> QED BY <1>1, <2>1, <3>1, <3>2
    <2>4. \A i \in low + 1 .. L : f[i] = FromPlace(f, s, i)
      BY <2>0
    <2>5. \A i \in low .. L : g[i] = FromPlace(g, s, i)
      <3> SUFFICES ASSUME NEW i \in low .. L PROVE g[i] = FromPlace(g, s, i)
        OBVIOUS
      <3>1. i = low \/ i \in low + 1 .. L
        BY <1>0, <2>0
      <3> HIDE DEF g
      <3> QED BY <2>1, <2>2, <2>3, <2>4, <3>1
    <2>6. g = [i \in low .. L |-> g[i]]
      OBVIOUS
    <2>7. Back(g, n + 1)
      <3> HIDE DEF g
      <3> QED BY <2>5, <2>6 DEF low
    <2> HIDE DEF g
    <2> QED BY <2>7
  <1>4. \A n \in Nat : n <= Len(s) => Ends(n)
    <2> DEFINE Bad == {n \in Nat : n <= Len(s) /\ ~Ends(n)}
    <2> SUFFICES ASSUME Bad # {} PROVE FALSE
      OBVIOUS
    <2>1. PICK n \in Bad : \A m \in Bad : n <= m
      <3> HIDE DEF Ends
      <3> QED BY Smallest
    <2> HIDE DEF Ends
    <2>2. n # 0 /\ n \in Nat /\ n <= Len(s) /\ ~Ends(n)
      BY <1>2
    <2>3. n - 1 \in Nat /\ n - 1 < Len(s) /\ n - 1 \notin Bad
      BY <2>1, <2>2
    <2>4. Ends(n - 1)
      BY <2>3
    <2>5. Ends((n - 1) + 1)
      BY <1>3, <2>3, <2>4
    <2> QED BY <2>2, <2>5
  <1>5. \E f : f = [i \in 1 .. Len(s) + 1 |-> FromPlace(f, s, i)]
    <2>1. Len(s) \in Nat /\ L - Len(s) = 1
      BY DEF L
    <2>2. Ends(Len(s))
      BY <1>4, <2>1
    <2> QED BY <2>1, <2>2 DEF L
  <1>6. Line!PackagesFrom(s) = CHOOSE f : f = [i \in 1 .. Len(s) + 1 |-> FromPlace(f, s, i)]
    BY DEF Line!PackagesFrom, FromPlace
  <1> QED BY <1>5, <1>6

\* What lies in the ring from a place on is bytes.
LEMMA PackageType ==
    ASSUME NEW ring \in [Index -> Nat], NEW i \in Int
    PROVE  PackageAt(ring, i) \in Seq(Nat)
  <1>1. \A k \in 1 .. PackLen : Plus(i, k - 1) \in Index
    BY DEF Plus, Index
  <1> QED BY <1>1 DEF PackageAt

\* The loop finds packages and leaves less than one.
LEMMA LoopType ==
    ASSUME NEW ring \in [Index -> Nat], NEW e \in Int
    PROVE  \A n \in Index : /\ Loop(ring, e)[n].found \in Seq(Seq(Nat))
                            /\ Loop(ring, e)[n].left \in 0 .. n
                            /\ Loop(ring, e)[n].left < PackLen
  <1> DEFINE f == Loop(ring, e)
             Good(n) == /\ f[n].found \in Seq(Seq(Nat))
                        /\ f[n].left \in 0 .. n /\ f[n].left < PackLen
             Bad == {n \in Index : ~Good(n)}
  <1> SUFFICES ASSUME Bad # {} PROVE FALSE
    OBVIOUS
  <1>0. Bad \subseteq Nat
    BY DEF Index
  <1>1. PICK n \in Bad : \A m \in Bad : n <= m
    <2> HIDE DEF Bad
    <2> QED BY <1>0, Smallest
  <1>2. n \in Index /\ ~Good(n) /\ \A m \in Index : m < n => Good(m)
    <2> HIDE DEF Good
    <2>1. \A m \in Index : m \in Nat
      BY DEF Index
    <2> QED BY <1>0, <1>1, <2>1
  <1>3. f[n] = Round(f, ring, e, n)
    BY <1>2, LoopEnds
  <1> HIDE DEF f, Bad
  <1>4. CASE Incomplete(n)
    <2>1. f[n] = [left |-> n, found |-> << >>] /\ n < PackLen
      BY <1>3, <1>4 DEF Round, Incomplete
    <2> QED BY <1>2, <2>1 DEF Index
  <1>5. CASE ~Incomplete(n)
    <2> DEFINE p == PackageAt(ring, e - n)
               m == n - Advance(p)
               q == IF Valid(p) THEN <<p>> ELSE << >>
    <2>1. m \in Index /\ m < n
      <3>1. Advance(p) \in {1, PackLen}
        BY Advances
      <3> HIDE DEF p
      <3> QED BY <1>2, <1>5, <3>1 DEF Incomplete, Index
    <2>2. p \in Seq(Nat)
      BY <1>2, PackageType DEF Index
    <2>3. f[n] = [left |-> f[m].left, found |-> q \o f[m].found]
      BY <1>3, <1>5 DEF Round
    <2> HIDE DEF p, m
    <2>4. q \in Seq(Seq(Nat))
      BY <2>2
    <2> HIDE DEF q
    <2>5. Good(m)
      BY <1>2, <2>1
    <2>6. q \o f[m].found \in Seq(Seq(Nat))
      BY <2>4, <2>5
    <2>7. f[n].left = f[m].left /\ f[n].found = q \o f[m].found
      BY <2>3
    <2> QED BY <1>2, <2>1, <2>5, <2>6, <2>7 DEF Index
  <1> QED BY <1>4, <1>5

\* So does the reader of the whole line.
LEMMA LineType ==
    ASSUME NEW s \in Seq(Nat)
    PROVE  \A i \in 1 .. Len(s) + 1 : Line!PackagesFrom(s)[i] \in Seq(Seq(Nat))
  <1> DEFINE f == Line!PackagesFrom(s)
             L == Len(s) + 1
             Good(i) == f[i] \in Seq(Seq(Nat))
             Bad == {n \in 0 .. Len(s) : ~Good(L - n)}
  <1>0. Len(s) \in Nat /\ L = Len(s) + 1 /\ PackLen \in Nat /\ PackLen > 3
    OBVIOUS
  <1> HIDE DEF L
  <1> SUFFICES ASSUME Bad # {} PROVE FALSE
    <2>1. \A i \in 1 .. L : L - i \in 0 .. Len(s) /\ L - (L - i) = i
      BY <1>0
    <2>2. ASSUME Bad = {}, NEW i \in 1 .. L PROVE Good(i)
      <3> HIDE DEF Good
      <3>1. Good(L - (L - i))
        BY <2>1, <2>2
      <3> QED BY <2>1, <3>1
    <2>3. Bad = {} => \A i \in 1 .. L : Good(i)
      <3> HIDE DEF Bad, Good
      <3> QED BY <2>2
    <2> QED BY <2>3 DEF L
  <1>1. PICK n \in Bad : \A m \in Bad : n <= m
    <2>1. Bad \subseteq Nat
      BY <1>0
    <2> HIDE DEF Bad
    <2> QED BY <2>1, Smallest
  <1>2. n \in 0 .. Len(s) /\ ~Good(L - n) /\ \A m \in 0 .. Len(s) : m < n => Good(L - m)
    <2> HIDE DEF Good
    <2> QED BY <1>0, <1>1
  <1> DEFINE i == L - n
             p == SubSeq(s, i, i + PackLen - 1)
  <1>3. i \in 1 .. L /\ i \in Nat
    BY <1>0, <1>2
  <1>4. f[i] = FromPlace(f, s, i)
    BY <1>0, <1>3, LineEnds
  <1> HIDE DEF f, Bad
  <1>5. CASE i + PackLen - 1 > Len(s)
    BY <1>2, <1>4, <1>5 DEF FromPlace
  <1>6. CASE ~ (i + PackLen - 1 > Len(s))
    <2>1. /\ n - PackLen \in 0 .. Len(s) /\ n - PackLen < n /\ L - (n - PackLen) = i + PackLen
          /\ n - 1 \in 0 .. Len(s) /\ n - 1 < n /\ L - (n - 1) = i + 1
      BY <1>0, <1>2, <1>6
    <2>2. Good(i + PackLen) /\ Good(i + 1)
      <3> HIDE DEF Good, i
      <3> QED BY <1>2, <2>1
    <2>3. p \in Seq(Nat)
      BY <1>0, <1>3, <1>6
    <2> HIDE DEF p, i
    <2>4. <<p>> \o f[i + PackLen] \in Seq(Seq(Nat))
      BY <2>2, <2>3
    <2>5. f[i] \in {<<p>> \o f[i + PackLen], f[i + 1]}
      BY <1>4, <1>6 DEF FromPlace, p
    <2> QED BY <1>2, <2>2, <2>4, <2>5 DEF i
  <1> QED BY <1>5, <1>6

\* The last n places before e hold the last bytes of the first M of s.
Holds(ring, e, n, s, M) ==
    \A j \in 1 .. n : ring[(e - j) % Size] = s[M - j + 1]

\* What the loop reads from the ring is what lies on the line.
LEMMA SamePackage ==
    ASSUME NEW s \in Seq(Nat), NEW M \in 0 .. Len(s), NEW e \in Index, NEW ring,
           NEW n \in Index, n <= M, PackLen <= n, Holds(ring, e, n, s, M)
    PROVE  PackageAt(ring, e - n) = SubSeq(s, M - n + 1, M - n + PackLen)
  <1>1. /\ Len(s) \in Nat /\ M \in Nat /\ M <= Len(s) /\ n \in Nat /\ e \in Nat
        /\ PackLen \in Nat /\ PackLen > 3 /\ n <= M /\ PackLen <= n
    BY DEF Index
  <1>2. SubSeq(s, M - n + 1, M - n + PackLen) =
          [k \in 1 .. PackLen |-> s[M - n + k]]
    <2> DEFINE a == M - n + 1
               b == M - n + PackLen
    <2>1. /\ a \in 1 .. Len(s) /\ b \in a .. Len(s) /\ b - a + 1 = PackLen
          /\ \A k \in 1 .. PackLen : a + k - 1 = M - n + k
      BY <1>1
    <2> HIDE DEF a, b
    <2>2. /\ SubSeq(s, a, b) \in Seq(Nat) /\ Len(SubSeq(s, a, b)) = PackLen
          /\ \A k \in 1 .. PackLen : SubSeq(s, a, b)[k] = s[M - n + k]
      <3>1. /\ a \in Int /\ b \in Int /\ a <= b
            /\ \A i \in a .. b : s[i] \in Nat
        BY <1>1, <2>1
      <3> QED BY <2>1, <3>1, Part
    <2>3. SubSeq(s, a, b) = [k \in 1 .. PackLen |-> SubSeq(s, a, b)[k]]
      BY <2>2, LenProperties
    <2> QED BY <2>2, <2>3 DEF a, b
  <1>3. \A k \in 1 .. PackLen : ring[Plus(e - n, k - 1)] = s[M - n + k]
    <2> SUFFICES ASSUME NEW k \in 1 .. PackLen PROVE ring[Plus(e - n, k - 1)] = s[M - n + k]
      OBVIOUS
    <2> DEFINE j == n - k + 1
    <2>1. j \in 1 .. n /\ e - n + (k - 1) = e - j /\ M - n + k = M - j + 1
      BY <1>1
    <2> HIDE DEF j
    <2> QED BY <2>1 DEF Holds, Plus
  <1> QED BY <1>2, <1>3 DEF PackageAt

\* The loop over what the ring holds goes the way of the reader of the whole
\* line, and stops short of its end.
LEMMA SameWay ==
    ASSUME NEW s \in Seq(Nat), NEW M \in 0 .. Len(s), NEW e \in Index,
           NEW ring \in [Index -> Nat], NEW h \in Index, h <= M, Holds(ring, e, h, s, M)
    PROVE  LET r == Loop(ring, e)[h] IN
           Line!PackagesFrom(s)[M - h + 1] = r.found \o Line!PackagesFrom(s)[M - r.left + 1]
  <1> DEFINE f == Loop(ring, e)
             g == Line!PackagesFrom(s)
             Good(n) == g[M - n + 1] = f[n].found \o g[M - f[n].left + 1]
             Bad == {n \in 0 .. h : ~Good(n)}
  <1>0. /\ Len(s) \in Nat /\ M \in Nat /\ M <= Len(s) /\ h \in Nat /\ e \in Nat
        /\ PackLen \in Nat /\ PackLen > 3 /\ h <= M /\ h < Size /\ Size \in Nat
    BY DEF Index
  <1>1. \A i \in 1 .. Len(s) + 1 : g[i] = FromPlace(g, s, i) /\ g[i] \in Seq(Seq(Nat))
    BY LineEnds, LineType
  <1>2. \A n \in Index : f[n] = Round(f, ring, e, n)
    BY LoopEnds
  <1>3. \A n \in Index : /\ f[n].found \in Seq(Seq(Nat))
                         /\ f[n].left \in 0 .. n
    <2>1. e \in Int
      BY <1>0
    <2>2. \A n \in Index : f[n].found \in Seq(Seq(Nat))
      BY <2>1, LoopType
    <2>3. \A n \in Index : f[n].left \in 0 .. n
      BY <2>1, LoopType
    <2> QED BY <2>2, <2>3
  <1> SUFFICES ASSUME Bad # {} PROVE FALSE
    <2> HIDE DEF f, g
    <2>1. Bad = {} => Good(h)
      <3> HIDE DEF Good
      <3> QED BY <1>0
    <2>2. Good(h)
      BY <2>1
    <2> QED BY <2>2 DEF f, g
  <1> HIDE DEF f, g
  <1>4. PICK n \in Bad : \A m \in Bad : n <= m
    <2>1. Bad \subseteq Nat
      <3> HIDE DEF Good
      <3> QED BY <1>0
    <2> HIDE DEF Bad
    <2> QED BY <2>1, Smallest
  <1>5. n \in 0 .. h /\ ~Good(n) /\ \A m \in 0 .. h : m < n => Good(m)
    <2> HIDE DEF Good
    <2> QED BY <1>0, <1>4
  <1> HIDE DEF Bad
  <1>6. n \in Index /\ n \in Nat /\ n <= M /\ n <= h
    <2>1. n \in 0 .. h
      BY <1>5
    <2> HIDE DEF Good
    <2> QED BY <1>0, <2>1 DEF Index
  <1>7. CASE n < PackLen
    <2>1. f[n] = [left |-> n, found |-> << >>]
      BY <1>2, <1>6, <1>7 DEF Round, Incomplete
    <2>2. M - n + 1 \in 1 .. Len(s) + 1
      BY <1>0, <1>6
    <2>3. f[n].left = n /\ f[n].found = << >> /\ g[M - n + 1] \in Seq(Seq(Nat))
      BY <1>1, <2>1, <2>2
    <2>4. g[M - n + 1] = << >> \o g[M - n + 1]
      BY <2>3
    <2> QED BY <1>5, <2>3, <2>4
  <1>8. CASE ~ (n < PackLen)
    <2> DEFINE p == PackageAt(ring, e - n)
               m == n - Advance(p)
               i == M - n + 1
    <2>1. p = SubSeq(s, i, i + PackLen - 1)
      <3>1. Holds(ring, e, n, s, M)
        <4> SUFFICES ASSUME NEW j \in 1 .. n PROVE ring[(e - j) % Size] = s[M - j + 1]
          BY DEF Holds
        <4>1. h \in Nat /\ n \in Nat /\ n <= h
          BY <1>0, <1>6
        <4>2. j \in 1 .. h
          BY <4>1
        <4> QED BY <4>2 DEF Holds
      <3>2. p = SubSeq(s, M - n + 1, M - n + PackLen)
        BY <1>0, <1>6, <1>8, <3>1, SamePackage
      <3>3. M - n + PackLen = (M - n + 1) + PackLen - 1
        BY <1>0, <1>6
      <3> QED BY <3>2, <3>3
    <2>2. Line!IsPackage(p) <=> Valid(p)
      BY DEF Line!IsPackage, Valid, CheckByte
    <2>3. Advance(p) = (IF Valid(p) THEN PackLen ELSE 1)
      BY DEF Advance
    <2> HIDE DEF p
    <2>4. i \in 1 .. Len(s) + 1 /\ i + PackLen - 1 <= Len(s) /\ i \in Nat
      BY <1>0, <1>6, <1>8
    <2>5. /\ m \in 0 .. h /\ m < n /\ m \in Index
          /\ M - m + 1 = i + (IF Valid(p) THEN PackLen ELSE 1)
      <3> DEFINE a == Advance(p)
      <3>1. a \in 1 .. PackLen /\ a = (IF Valid(p) THEN PackLen ELSE 1)
        BY <1>0, <2>3
      <3> HIDE DEF a, Good
      <3>2. /\ n - a \in 0 .. h /\ n - a < n /\ n - a \in Index
            /\ M - (n - a) + 1 = M - n + 1 + a
        BY <1>0, <1>6, <1>8, <3>1 DEF Index
      <3> QED BY <3>1, <3>2 DEF a
    <2> HIDE DEF i, m
    <2>6. g[i] = (IF Valid(p) THEN <<p>> \o g[M - m + 1] ELSE g[M - m + 1])
      <3>1. g[i] = IF Line!IsPackage(p) THEN <<p>> \o g[i + PackLen] ELSE g[i + 1]
        <4>1. g[i] = FromPlace(g, s, i)
          BY <1>1, <2>4
        <4>2. ~ (i + PackLen - 1 > Len(s))
          BY <1>0, <2>4
        <4> QED BY <2>1, <4>1, <4>2 DEF FromPlace
      <3> QED BY <2>2, <2>5, <3>1
    <2> DEFINE q == IF Valid(p) THEN <<p>> ELSE << >>
    <2>7. f[n] = [left |-> f[m].left, found |-> q \o f[m].found]
      BY <1>2, <1>6, <1>8 DEF Round, Incomplete, p, m
    <2>8. p \in Seq(Nat)
      BY <1>0, <2>1, <2>4, SMTT(30)
    <2>9. q \in Seq(Seq(Nat)) /\ g[M - m + 1] \in Seq(Seq(Nat))
      BY <1>0, <1>1, <1>5, <2>5, <2>8, SMTT(30)
    <2>10. g[i] = q \o g[M - m + 1]
      <3>1. CASE Valid(p)
        BY <2>6, <3>1
      <3>2. CASE ~Valid(p)
        BY <2>6, <2>9, <3>2, ConcatEmptySeq
      <3> QED BY <3>1, <3>2
    <2> HIDE DEF q
    <2>11. /\ f[m].found \in Seq(Seq(Nat)) /\ g[M - f[m].left + 1] \in Seq(Seq(Nat))
           /\ f[n].left = f[m].left /\ f[n].found = q \o f[m].found
      <3>1. f[m].left \in Nat /\ f[m].left <= m /\ m <= h
        BY <1>0, <1>3, <2>5
      <3>2. M - f[m].left + 1 \in 1 .. Len(s) + 1
        <4> DEFINE l == f[m].left
        <4>1. l \in Nat /\ l <= M
          BY <1>0, <2>5, <3>1
        <4> HIDE DEF l
        <4>2. M - l + 1 \in 1 .. Len(s) + 1
          BY <1>0, <4>1
        <4> QED BY <4>2 DEF l
      <3>3. f[n].left = f[m].left /\ f[n].found = q \o f[m].found
        BY <2>7, SMTT(30)
      <3> QED BY <1>1, <1>3, <2>5, <3>2, <3>3
    <2>12. g[M - m + 1] = f[m].found \o g[M - f[m].left + 1]
      BY <1>5, <2>5
    <2>13. q \o (f[m].found \o g[M - f[m].left + 1]) = (q \o f[m].found) \o g[M - f[m].left + 1]
      BY <2>9, <2>11, Associates
    <2>14. g[i] = f[n].found \o g[M - f[n].left + 1]
      BY <2>10, <2>11, <2>12, <2>13
    <2> QED BY <1>5, <2>14 DEF i
  <1> QED BY <1>7, <1>8

-----------------------------------------------------------------------------
(* The places of the ring.                                                 *)

\* Where the indices are after k bytes, and where the last ones lie.
LEMMA Places ==
    ASSUME NEW b \in Index, NEW k \in Index, NEW j \in Index, j > 0
    PROVE  /\ Plus(b, k) \in Index /\ (Plus(b, k) - j) % Size \in Index
           /\ j <= k => Held(b, (Plus(b, k) - j) % Size) = k - j
           /\ j > k => /\ (Plus(b, k) - j) % Size = (b - (j - k)) % Size
                       /\ Held(b, (Plus(b, k) - j) % Size) = Size - (j - k)
  <1> DEFINE e == Plus(b, k)
             x == (e - j) % Size
  <1>0. /\ b \in Nat /\ b < Size /\ k \in Nat /\ k < Size /\ j \in Nat /\ j < Size /\ j > 0
        /\ Size \in Nat
    BY DEF Index
  <1>1. e = IF b + k < Size THEN b + k ELSE b + k - Size
    <2>1. e = (b + k) % Size
      BY DEF Plus
    <2>2. b + k < Size => e = b + k
      BY <1>0, <2>1, Wraps
    <2>3. ~ (b + k < Size) => e = b + k - Size
      <3> HIDE DEF e
      <3> QED BY <1>0, <2>1, Wraps
    <2> HIDE DEF e
    <2> QED BY <2>2, <2>3
  <1> HIDE DEF e
  <1>2. e \in Nat /\ e < Size
    BY <1>0, <1>1
  <1>3. x = IF e - j < 0 THEN e - j + Size ELSE e - j
    <2>1. e - j \in Int /\ -Size <= e - j /\ e - j < Size
      BY <1>0, <1>2
    <2> QED BY <1>0, <2>1, Wraps
  <1> HIDE DEF x
  <1>4. x \in Nat /\ x < Size
    BY <1>0, <1>2, <1>3
  <1>5. Held(b, x) = IF x - b < 0 THEN x - b + Size ELSE x - b
    <2>1. x - b \in Int /\ -Size <= x - b /\ x - b < Size
      BY <1>0, <1>4
    <2> QED BY <1>0, <2>1, Wraps DEF Held
  <1>6. j <= k => Held(b, x) = k - j
    BY <1>0, <1>1, <1>2, <1>3, <1>4, <1>5
  <1>7. j > k => Held(b, x) = Size - (j - k)
    BY <1>0, <1>1, <1>2, <1>3, <1>4, <1>5
  <1>8. ASSUME j > k PROVE x = (b - (j - k)) % Size
    <2> DEFINE y == b - (j - k)
    <2>1. y \in Int /\ -Size <= y /\ y < Size /\ x = IF y < 0 THEN y + Size ELSE y
      BY <1>0, <1>1, <1>2, <1>3, <1>8
    <2> HIDE DEF y
    <2>2. x = y % Size
      BY <1>0, <2>1, Wraps
    <2> QED BY <2>2 DEF y
  <1> QED BY <1>2, <1>4, <1>6, <1>7, <1>8 DEF Index, e, x

\* What the ring holds is a number of bytes, k more after k have come.
LEMMA HeldMore ==
    ASSUME NEW b \in Index, NEW e \in Index
    PROVE  /\ Held(b, e) \in Index
           /\ \A k \in Nat : Held(b, e) + k < Size => Held(b, Plus(e, k)) = Held(b, e) + k
  <1>0. b \in Nat /\ b < Size /\ e \in Nat /\ e < Size /\ Size \in Nat
    BY DEF Index
  <1>1. Held(b, e) = IF e - b < 0 THEN e - b + Size ELSE e - b
    <2>1. e - b \in Int /\ -Size <= e - b /\ e - b < Size
      BY <1>0
    <2> QED BY <1>0, <2>1, Wraps DEF Held
  <1>2. ASSUME NEW k \in Nat, Held(b, e) + k < Size PROVE Held(b, Plus(e, k)) = Held(b, e) + k
    <2> DEFINE x == Plus(e, k)
    <2>1. k < Size
      BY <1>0, <1>1, <1>2
    <2>2. x = IF e + k < Size THEN e + k ELSE e + k - Size
      <3>1. x = (e + k) % Size
        BY DEF Plus
      <3> HIDE DEF x
      <3>2. e + k < Size => x = e + k
        BY <1>0, <3>1, Wraps
      <3>3. ~ (e + k < Size) => x = e + k - Size
        BY <1>0, <2>1, <3>1, Wraps
      <3> QED BY <3>2, <3>3
    <2> HIDE DEF x
    <2>3. x \in Nat /\ x < Size
      BY <1>0, <2>1, <2>2
    <2>4. Held(b, x) = IF x - b < 0 THEN x - b + Size ELSE x - b
      <3>1. x - b \in Int /\ -Size <= x - b /\ x - b < Size
        BY <1>0, <2>3
      <3> QED BY <1>0, <3>1, Wraps DEF Held
    <2>5. Held(b, x) = Held(b, e) + k
      BY <1>0, <1>1, <1>2, <2>1, <2>2, <2>3, <2>4
    <2> QED BY <2>5 DEF x
  <1> QED BY <1>0, <1>1, <1>2 DEF Index

\* Going back n places from e leaves n bytes in the ring.
LEMMA HeldBack ==
    ASSUME NEW e \in Index, NEW n \in Index
    PROVE  (e - n) % Size \in Index /\ Held((e - n) % Size, e) = n
  <1>0. n \in Nat /\ n < Size /\ e \in Nat /\ e < Size /\ Size \in Nat
    BY DEF Index
  <1> DEFINE x == (e - n) % Size
  <1>1. x = IF e - n < 0 THEN e - n + Size ELSE e - n
    <2>1. e - n \in Int /\ -Size <= e - n /\ e - n < Size
      BY <1>0
    <2> QED BY <1>0, <2>1, Wraps
  <1> HIDE DEF x
  <1>2. x \in Nat /\ x < Size
    BY <1>0, <1>1
  <1>3. Held(x, e) = IF e - x < 0 THEN e - x + Size ELSE e - x
    <2>1. e - x \in Int /\ -Size <= e - x /\ e - x < Size
      BY <1>0, <1>2
    <2> QED BY <1>0, <2>1, Wraps DEF Held
  <1>4. Held(x, e) = n
    BY <1>0, <1>1, <1>2, <1>3
  <1> QED BY <1>2, <1>4 DEF Index, x

\* The ring after a read: k bytes of what came lie behind end.
Filled(ring, e, s, k) ==
    [i \in Index |-> IF Held(e, i) < k THEN s[Held(e, i) + 1] ELSE ring[i]]

Fits(ring, e, n, s, M) ==
    /\ ring \in [Index -> Nat] /\ s \in Seq(Nat) /\ Len(s) = M /\ Holds(ring, e, n, s, M)

\* A read that fits puts its bytes behind those that wait.
LEMMA ReadFits ==
    ASSUME NEW ring \in [Index -> Nat], NEW e \in Index, NEW l \in Index,
           NEW k \in Nat, l + k < Size,
           NEW s \in Seq(Nat), k <= Len(s), NEW t \in Seq(Nat), l <= Len(t),
           Holds(ring, e, l, t, Len(t))
    PROVE  Fits(Filled(ring, e, s, k), Plus(e, k), l + k, t \o SubSeq(s, 1, k), Len(t) + k)
  <1> DEFINE u == t \o SubSeq(s, 1, k)
             r == Filled(ring, e, s, k)
             q == SubSeq(s, 1, k)
  <1>0. /\ Size \in Nat /\ k \in Index /\ l \in Nat /\ Len(t) \in Nat /\ Len(s) \in Nat
        /\ l < Size /\ k < Size
    BY DEF Index
  <1>1. q \in Seq(Nat) /\ Len(q) = k /\ \A i \in 1 .. k : q[i] = s[i]
    <2>1. CASE k = 0
      <3>1. q = << >>
        BY <2>1
      <3> HIDE DEF q
      <3> QED BY <2>1, <3>1
    <2>2. CASE k # 0
      <3>1. 1 <= k /\ \A i \in 1 .. k : s[i] \in Nat
        BY <1>0, <2>2
      <3>2. /\ q \in Seq(Nat) /\ Len(q) = k - 1 + 1
            /\ \A i \in 1 .. k - 1 + 1 : q[i] = s[1 + i - 1]
        BY <1>0, <3>1, Part
      <3> HIDE DEF q
      <3> QED BY <1>0, <3>2
    <2> QED BY <2>1, <2>2
  <1> HIDE DEF q
  <1>2. u = t \o q
    BY DEF q
  <1> HIDE DEF u
  <1>3. /\ u \in Seq(Nat) /\ Len(u) = Len(t) + k
        /\ \A i \in 1 .. Len(t) : u[i] = t[i]
        /\ \A i \in 1 .. k : u[Len(t) + i] = s[i]
    BY <1>1, <1>2, Joined
  <1>4. \A i \in Index : Held(e, i) \in Nat
    <2> SUFFICES ASSUME NEW i \in Index PROVE Held(e, i) \in Nat
      OBVIOUS
    <2>1. Held(e, i) \in Index
      BY HeldMore
    <2> QED BY <2>1 DEF Index
  <1>5. r \in [Index -> Nat]
    <2>1. \A i \in Index : Held(e, i) < k => s[Held(e, i) + 1] \in Nat
      <3> SUFFICES ASSUME NEW i \in Index, Held(e, i) < k PROVE s[Held(e, i) + 1] \in Nat
        OBVIOUS
      <3>1. Held(e, i) + 1 \in 1 .. Len(s)
        <4>1. Held(e, i) \in Nat
          BY <1>4
        <4> QED BY <1>0, <4>1, SMTT(30)
      <3> QED BY <3>1
    <2> QED BY <2>1 DEF Filled
  <1>6. ASSUME NEW j \in 1 .. l + k PROVE r[(Plus(e, k) - j) % Size] = u[Len(u) - j + 1]
    <2> DEFINE x == (Plus(e, k) - j) % Size
    <2>0. j \in Index /\ j > 0 /\ j \in Nat
      BY <1>0 DEF Index
    <2>1. /\ x \in Index
          /\ j <= k => Held(e, x) = k - j
          /\ j > k => x = (e - (j - k)) % Size /\ Held(e, x) = Size - (j - k)
      BY <1>0, <2>0, Places
    <2> HIDE DEF x
    <2>2. r[x] = IF Held(e, x) < k THEN s[Held(e, x) + 1] ELSE ring[x]
      BY <2>1 DEF Filled
    <2>3. CASE j <= k
      <3>1. r[x] = s[(k - j) + 1]
        BY <1>0, <2>0, <2>1, <2>2, <2>3
      <3>2. k - j + 1 \in 1 .. k /\ Len(u) - j + 1 = Len(t) + (k - j + 1)
        <4>1. Len(u) = Len(t) + k
          BY <1>3
        <4> QED BY <1>0, <2>0, <2>3, <4>1
      <3> QED BY <1>3, <3>1, <3>2 DEF x
    <2>4. CASE j > k
      <3>1. r[x] = ring[(e - (j - k)) % Size]
        <4>1. ~ (Held(e, x) < k)
          BY <1>0, <2>0, <2>1, <2>4
        <4> QED BY <2>1, <2>2, <2>4, <4>1
      <3>2. j - k \in 1 .. l
        BY <1>0, <2>0, <2>4
      <3>3. ring[(e - (j - k)) % Size] = t[Len(t) - (j - k) + 1]
        BY <3>2 DEF Holds
      <3>4. Len(t) - (j - k) + 1 \in 1 .. Len(t) /\ Len(t) - (j - k) + 1 = Len(u) - j + 1
        BY <1>0, <1>3, <2>0, <3>2
      <3> QED BY <1>3, <3>1, <3>3, <3>4 DEF x
    <2> QED BY <1>0, <2>0, <2>3, <2>4
  <1>7. Holds(r, Plus(e, k), l + k, u, Len(u))
    <2> HIDE DEF r
    <2> QED BY <1>6 DEF Holds
  <1> QED BY <1>3, <1>5, <1>7 DEF Fits, u, r

-----------------------------------------------------------------------------
(* The inductive invariant.                                                *)

Types ==
    /\ tty \in Seq(Byte) /\ heard \in Seq(Nat) /\ done \in Seq(Seq(Nat))
    /\ buf \in [Index -> Nat] /\ start \in Index /\ end \in Index

\* Less than a package waits in the ring: the last bytes heard.
Waiting ==
    LET left == Held(start, end) IN
    /\ left < PackLen /\ left <= Len(heard)
    /\ Holds(buf, end, left, heard, Len(heard))

\* Whatever comes later, the reader of the whole line finds what has been
\* carried out and what starts among the bytes that wait, or behind them.
Ahead(hd, dn, left) ==
    \A t \in Seq(Nat) :
        Line!Packages(hd \o t) = dn \o Line!PackagesFrom(hd \o t)[Len(hd) - left + 1]

Carried == Ahead(heard, done, Held(start, end))

Reader == Types /\ Waiting /\ Carried

LEMMA ReaderStarts == Init => Reader
  <1> SUFFICES ASSUME Init PROVE Reader
    OBVIOUS
  <1>1. Types
    <2>1. buf \in [Index -> Nat] /\ 0 \in Index
      BY DEF Init, Index
    <2> QED BY <2>1 DEF Init, Types
  <1>2. Held(start, end) = 0 /\ Len(heard) = 0
    <2>1. 0 - 0 = 0
      OBVIOUS
    <2>2. 0 % Size = 0
      BY Wraps
    <2> QED BY <2>1, <2>2 DEF Init, Held
  <1>3. Waiting
    BY <1>2 DEF Waiting, Holds
  <1>4. Carried
    <2> SUFFICES ASSUME NEW t \in Seq(Nat)
                 PROVE  Line!Packages(heard \o t) =
                          done \o Line!PackagesFrom(heard \o t)[Len(heard) - Held(start, end) + 1]
      BY DEF Carried, Ahead
    <2>1. Len(heard) - Held(start, end) + 1 = 1
      BY <1>2
    <2>2. heard \o t = t
      BY DEF Init
    <2>3. Line!PackagesFrom(t)[1] \in Seq(Seq(Nat))
      BY LineType
    <2>4. << >> \o Line!PackagesFrom(t)[1] = Line!PackagesFrom(t)[1]
      BY <2>3
    <2> QED BY <2>1, <2>2, <2>4 DEF Init, Line!Packages
  <1> QED BY <1>1, <1>3, <1>4 DEF Reader

\* A read of n bytes of which k find a place, and the search behind it.
Reading(n, k, r) ==
    /\ 0 < n /\ n <= Len(tty) /\ k <= n /\ Held(start, end) + k < Size
    /\ k < n => n >= Size - (PackLen - 1)
    /\ r = Loop(Filled(buf, end, tty, k), Plus(end, k))[Held(start, end) + k]
    /\ tty' = SubSeq(tty, n + 1, Len(tty))
    /\ buf' = Filled(buf, end, tty, k)
    /\ end' = Plus(end, k) /\ start' = (Plus(end, k) - r.left) % Size
    /\ heard' = heard \o SubSeq(tty, 1, k) /\ done' = done \o r.found

LEMMA Reads ==
    ASSUME Types, Waiting, com_receiver_func
    PROVE  \E n, k \in Nat : \E r : Reading(n, k, r)
  <1> DEFINE n == IF Len(tty) < Size THEN Len(tty) ELSE Size
             k == Stored(n)
             l == Held(start, end)
             ring == [i \in Index |-> IF Held(end, i) < k THEN tty[Held(end, i) + 1] ELSE buf[i]]
             e == Plus(end, k)
             r == Search(ring, start, e)
  <1>1. tty # << >> /\ tty \in Seq(Byte) /\ l \in Nat /\ l < PackLen /\ Size \in Nat /\ PackLen < Size
    <2>1. l \in Index
      BY HeldMore DEF Types
    <2> HIDE DEF l
    <2>2. l \in Nat
      BY <2>1 DEF Index
    <2>3. l < PackLen
      BY DEF Waiting, l
    <2> QED BY <2>2, <2>3 DEF com_receiver_func, Types
  <1>2. Len(tty) \in Nat /\ Len(tty) > 0
    BY <1>1
  <1>3. n \in Nat /\ 0 < n /\ n <= Len(tty)
    BY <1>1, <1>2
  <1>4. k = IF n > Size - 1 - l THEN Size - 1 - l ELSE n
    BY DEF Stored
  <1>5. /\ tty' = SubSeq(tty, n + 1, Len(tty)) /\ buf' = ring /\ end' = e
        /\ start' = (e - r.left) % Size /\ heard' = heard \o SubSeq(tty, 1, k)
        /\ done' = done \o r.found
    BY DEF com_receiver_func
  <1> HIDE DEF l, n, k
  <1>6. k \in Nat /\ k <= n /\ l + k < Size /\ (k < n => n >= Size - (PackLen - 1))
    BY <1>1, <1>3, <1>4
  <1>7. Held(start, e) = l + k
    BY <1>6, HeldMore DEF Types, l
  <1>8. ring = Filled(buf, end, tty, k)
    BY DEF Filled
  <1>9. r = Loop(ring, e)[l + k]
    BY <1>7 DEF Search
  <1> HIDE DEF ring, r
  <1>10. Reading(n, k, r)
    BY <1>3, <1>5, <1>6, <1>8, <1>9 DEF Reading, l
  <1> QED BY <1>3, <1>6, <1>10

\* What a read does to the line and to the ring.
LEMMA ReadingWaits ==
    ASSUME Types, Waiting, NEW n \in Nat, NEW k \in Nat, NEW r, Reading(n, k, r)
    PROVE  /\ heard' \in Seq(Nat) /\ Len(heard') = Len(heard) + k
           /\ buf' \in [Index -> Nat] /\ end' \in Index /\ start' \in Index
           /\ r.found \in Seq(Seq(Nat)) /\ Held(start', end') = r.left
           /\ r.left \in 0 .. Held(start, end) + k /\ r.left < PackLen
           /\ Held(start, end) + k <= Len(heard')
           /\ Holds(buf', end', Held(start, end) + k, heard', Len(heard'))
  <1> DEFINE l == Held(start, end)
  <1>0. /\ tty \in Seq(Nat) /\ Len(tty) \in Nat /\ Len(heard) \in Nat /\ Size \in Nat
        /\ heard \in Seq(Nat) /\ buf \in [Index -> Nat] /\ end \in Index /\ start \in Index
    <2>1. tty \in Seq(Byte)
      BY DEF Types
    <2>2. tty \in Seq(Nat)
      BY <2>1, SeqMonotonic
    <2> QED BY <2>2 DEF Types
  <1>1. l \in Index /\ l \in Nat /\ l <= Len(heard) /\ Holds(buf, end, l, heard, Len(heard))
    <2>1. l \in Index
      BY <1>0, HeldMore
    <2>2. l <= Len(heard) /\ Holds(buf, end, l, heard, Len(heard))
      BY DEF Waiting
    <2> HIDE DEF l
    <2> QED BY <2>1, <2>2 DEF Index
  <1>2. /\ n <= Len(tty) /\ k <= n /\ l + k < Size
        /\ r = Loop(Filled(buf, end, tty, k), Plus(end, k))[l + k]
        /\ buf' = Filled(buf, end, tty, k) /\ end' = Plus(end, k)
        /\ start' = (Plus(end, k) - r.left) % Size
        /\ heard' = heard \o SubSeq(tty, 1, k)
    BY DEF Reading
  <1> HIDE DEF l
  <1>3. k <= Len(tty) /\ l + k \in Index /\ k \in Index
    <2>1. k <= Len(tty)
      BY <1>0, <1>2
    <2>2. l + k < Size /\ k < Size
      BY <1>0, <1>1, <1>2
    <2> QED BY <1>1, <2>1, <2>2 DEF Index
  <1>4. /\ buf' \in [Index -> Nat] /\ heard' \in Seq(Nat) /\ Len(heard') = Len(heard) + k
        /\ Holds(buf', end', l + k, heard', Len(heard'))
    <2>1. Fits(Filled(buf, end, tty, k), Plus(end, k), l + k, heard \o SubSeq(tty, 1, k), Len(heard) + k)
      BY <1>0, <1>1, <1>2, <1>3, ReadFits
    <2>2. Fits(buf', end', l + k, heard', Len(heard) + k)
      BY <1>2, <2>1
    <2> QED BY <2>2 DEF Fits
  <1>5. end' \in Index
    <2>1. Plus(end, k) \in Int /\ Size > 0
      BY <1>0 DEF Plus, Index
    <2>2. \A x \in Int : x % Size \in Index
      BY DEF Index
    <2>3. end + k \in Int
      BY <1>0 DEF Index
    <2> QED BY <1>2, <2>2, <2>3 DEF Plus
  <1>6. /\ r.found \in Seq(Seq(Nat)) /\ r.left \in 0 .. l + k /\ r.left < PackLen
    <2>1. r = Loop(buf', end')[l + k]
      BY <1>2
    <2>2. end' \in Int
      BY <1>5 DEF Index
    <2> QED BY <1>3, <1>4, <2>1, <2>2, LoopType
  <1>7. r.left \in Index
    BY <1>1, <1>2, <1>6 DEF Index
  <1>8. start' \in Index /\ Held(start', end') = r.left
    BY <1>2, <1>5, <1>7, HeldBack
  <1>9. l + k <= Len(heard')
    BY <1>0, <1>1, <1>4
  <1> QED BY <1>4, <1>5, <1>6, <1>8, <1>9 DEF l

\* A read leaves carried out what the reader of the whole line finds.
LEMMA ReadingCarries ==
    ASSUME Types, Waiting, Carried, NEW n \in Nat, NEW k \in Nat, NEW r, Reading(n, k, r)
    PROVE  Ahead(heard', done', r.left)
  <1> DEFINE l == Held(start, end)
             M == Len(heard')
             q == SubSeq(tty, 1, k)
  <1>0. /\ heard' \in Seq(Nat) /\ M = Len(heard) + k /\ M \in Nat
        /\ buf' \in [Index -> Nat] /\ end' \in Index
        /\ r.found \in Seq(Seq(Nat)) /\ r.left \in 0 .. l + k
        /\ l + k <= M /\ Holds(buf', end', l + k, heard', M)
    <2>1. heard' \in Seq(Nat) /\ M = Len(heard) + k
      BY ReadingWaits
    <2>2. buf' \in [Index -> Nat] /\ end' \in Index
      BY ReadingWaits
    <2>3. r.found \in Seq(Seq(Nat)) /\ r.left \in 0 .. l + k
      BY ReadingWaits
    <2>4. l + k <= M /\ Holds(buf', end', l + k, heard', M)
      BY ReadingWaits
    <2> QED BY <2>1, <2>2, <2>3, <2>4
  <1>1. /\ Len(heard) \in Nat /\ heard \in Seq(Nat) /\ done \in Seq(Seq(Nat))
        /\ l \in Index /\ l \in Nat /\ Size \in Nat
    <2>1. l \in Index
      BY HeldMore DEF Types
    <2> HIDE DEF l
    <2> QED BY <2>1 DEF Types, Index
  <1>2. /\ k <= Len(tty) /\ l + k < Size
        /\ r = Loop(buf', end')[l + k]
        /\ heard' = heard \o q /\ done' = done \o r.found
    <2>1. n <= Len(tty) /\ k <= n /\ Len(tty) \in Nat
      BY DEF Reading, Types
    <2>2. k <= Len(tty)
      BY <2>1
    <2> QED BY <2>2 DEF Reading
  <1>3. q \in Seq(Nat)
    <2>1. tty \in Seq(Nat)
      <3>1. tty \in Seq(Byte)
        BY DEF Types
      <3> QED BY <3>1, SeqMonotonic
    <2>2. \A i \in 1 .. k : tty[i] \in Nat
      BY <1>2, <2>1
    <2> QED BY <2>2, SubSeqProperties
  <1> HIDE DEF l, M, q
  <1> SUFFICES ASSUME NEW t \in Seq(Nat)
               PROVE  Line!Packages(heard' \o t) =
                        done' \o Line!PackagesFrom(heard' \o t)[M - r.left + 1]
    BY DEF Ahead, M
  <1> DEFINE s == heard' \o t
             g == Line!PackagesFrom(s)
  <1>4. s \in Seq(Nat) /\ Len(s) = M + Len(t) /\ Len(t) \in Nat /\ \A i \in 1 .. M : s[i] = heard'[i]
    <2>1. /\ heard' \o t \in Seq(Nat) /\ Len(heard' \o t) = Len(heard') + Len(t)
          /\ \A i \in 1 .. Len(heard') : (heard' \o t)[i] = heard'[i]
      BY <1>0, Joined
    <2>2. Len(t) \in Nat
      OBVIOUS
    <2> QED BY <2>1, <2>2 DEF M
  <1>5. s = heard \o (q \o t) /\ q \o t \in Seq(Nat)
    <2>1. q \o t \in Seq(Nat)
      BY <1>3, Joined
    <2>2. (heard \o q) \o t = heard \o (q \o t)
      BY <1>1, <1>3, AssociatesBytes
    <2> QED BY <1>2, <2>1, <2>2
  <1>6. Line!Packages(s) = done \o g[Len(heard) - l + 1]
    <2>1. Ahead(heard, done, l)
      BY DEF Carried, l
    <2> HIDE DEF s
    <2>2. Line!Packages(heard \o (q \o t)) =
             done \o Line!PackagesFrom(heard \o (q \o t))[Len(heard) - l + 1]
      BY <1>5, <2>1 DEF Ahead
    <2> QED BY <1>5, <2>2
  <1> HIDE DEF s
  <1>7. M \in 0 .. Len(s) /\ l + k \in Index
    <2>1. M \in Nat /\ Len(s) \in Nat /\ M <= Len(s)
      BY <1>0, <1>4
    <2>2. l + k \in Index
      BY <1>1, <1>2 DEF Index
    <2> QED BY <2>1, <2>2
  <1>8. Holds(buf', end', l + k, s, M)
    <2> SUFFICES ASSUME NEW j \in 1 .. l + k PROVE buf'[(end' - j) % Size] = s[M - j + 1]
      BY DEF Holds
    <2>1. M - j + 1 \in 1 .. M
      BY <1>0, <1>1
    <2>2. buf'[(end' - j) % Size] = heard'[M - j + 1]
      BY <1>0 DEF Holds
    <2> QED BY <1>4, <2>1, <2>2
  <1>9. g[M - (l + k) + 1] = r.found \o g[M - r.left + 1]
    <2>1. g[M - (l + k) + 1] =
            Loop(buf', end')[l + k].found \o g[M - Loop(buf', end')[l + k].left + 1]
      BY <1>0, <1>4, <1>7, <1>8, SameWay
    <2> QED BY <1>2, <2>1
  <1>10. M - (l + k) + 1 = Len(heard) - l + 1
    BY <1>0, <1>1
  <1>11. g[M - r.left + 1] \in Seq(Seq(Nat))
    <2> DEFINE m == r.left
    <2>1. m \in Nat /\ m <= M
      BY <1>0, <1>1
    <2> HIDE DEF m
    <2>2. M - m + 1 \in 1 .. Len(s) + 1
      BY <1>0, <1>4, <2>1
    <2>3. g[M - m + 1] \in Seq(Seq(Nat))
      BY <1>4, <2>2, LineType
    <2> QED BY <2>3 DEF m
  <1> HIDE DEF g
  <1>12. done \o (r.found \o g[M - r.left + 1]) = (done \o r.found) \o g[M - r.left + 1]
    BY <1>0, <1>1, <1>11, Associates
  <1>13. Line!Packages(s) = done' \o g[M - r.left + 1]
    BY <1>2, <1>6, <1>9, <1>10, <1>12
  <1> QED BY <1>13 DEF s, g

\* Every step keeps the invariant.
LEMMA ReaderStep == Reader /\ [Next]_vars => Reader'
  <1> SUFFICES ASSUME Reader, [Next]_vars PROVE Reader'
    OBVIOUS
  <1>0. Types /\ Waiting /\ Carried
    BY DEF Reader
  <1>1. ASSUME NEW b \in Byte, Comes(b) PROVE Reader'
    <2>1. Types'
      BY <1>0, <1>1 DEF Comes, Types
    <2>2. Waiting' /\ Carried'
      BY <1>0, <1>1 DEF Comes, Waiting, Carried, Held
    <2> QED BY <2>1, <2>2 DEF Reader
  <1>2. CASE com_receiver_func
    <2>1. PICK n \in Nat, k \in Nat : \E r : Reading(n, k, r)
      BY <1>0, <1>2, Reads
    <2>2. PICK r : Reading(n, k, r)
      BY <2>1
    <2>3. /\ heard' \in Seq(Nat) /\ buf' \in [Index -> Nat] /\ end' \in Index /\ start' \in Index
          /\ r.found \in Seq(Seq(Nat))
      BY <1>0, <2>2, ReadingWaits
    <2>4. Held(start', end') = r.left /\ r.left \in 0 .. Held(start, end) + k /\ r.left < PackLen
      BY <1>0, <2>2, ReadingWaits
    <2>5. /\ Held(start, end) + k <= Len(heard')
          /\ Holds(buf', end', Held(start, end) + k, heard', Len(heard'))
      BY <1>0, <2>2, ReadingWaits
    <2>6. Ahead(heard', done', r.left)
      BY <1>0, <2>2, ReadingCarries
    <2>7. tty' \in Seq(Byte)
      <3>1. tty \in Seq(Byte) /\ n <= Len(tty) /\ tty' = SubSeq(tty, n + 1, Len(tty))
        BY <1>0, <2>2 DEF Types, Reading
      <3>2. \A i \in n + 1 .. Len(tty) : tty[i] \in Byte
        BY <3>1
      <3>3. n + 1 \in Int /\ Len(tty) \in Int
        BY <3>1
      <3> QED BY <3>1, <3>2, <3>3, SubSeqProperties
    <2>8. done' \in Seq(Seq(Nat))
      <3>1. done \in Seq(Seq(Nat)) /\ done' = done \o r.found
        BY <1>0, <2>2 DEF Types, Reading
      <3> QED BY <2>3, <3>1
    <2>9. Types'
      BY <2>3, <2>7, <2>8 DEF Types, Index
    <2>10. Held(start', end') \in Nat /\ Held(start', end') <= Held(start, end) + k
      <3>1. Held(start, end) \in Nat
        <4>1. Held(start, end) \in Index
          BY <1>0, HeldMore DEF Types
        <4> QED BY <4>1 DEF Index
      <3> QED BY <2>4, <3>1
    <2>11. Waiting'
      <3>1. /\ Held(start', end') < PackLen
            /\ Held(start', end') <= Len(heard')
        <4>1. Held(start, end) \in Index /\ Len(heard') \in Nat
          BY <1>0, <2>3, HeldMore DEF Types
        <4> QED BY <2>4, <2>5, <2>10, <4>1 DEF Index
      <3>2. Holds(buf', end', Held(start', end'), heard', Len(heard'))
        <4> DEFINE m == Held(start', end')
                   h == Held(start, end) + k
        <4>1. m \in Nat /\ h \in Nat /\ m <= h
          <5>1. Held(start, end) \in Index
            BY <1>0, HeldMore DEF Types
          <5> QED BY <2>10, <5>1 DEF Index
        <4> HIDE DEF m, h
        <4>2. \A j \in 1 .. m : j \in 1 .. h
          BY <4>1
        <4>3. Holds(buf', end', h, heard', Len(heard'))
          BY <2>5 DEF h
        <4>4. Holds(buf', end', m, heard', Len(heard'))
          BY <4>2, <4>3 DEF Holds
        <4> QED BY <4>4 DEF m
      <3> QED BY <3>1, <3>2 DEF Waiting, Held, Holds
    <2>12. Carried'
      <3>1. Ahead(heard', done', Held(start', end'))
        BY <2>4, <2>6
      <3> QED BY <3>1 DEF Carried, Held, Ahead
    <2> QED BY <2>9, <2>11, <2>12 DEF Reader
  <1>3. CASE UNCHANGED vars
    <2>1. Types' /\ Waiting' /\ Carried'
      BY <1>0, <1>3 DEF vars, Types, Waiting, Carried, Held
    <2> QED BY <2>1 DEF Reader
  <1> QED BY <1>1, <1>2, <1>3 DEF Next

LEMMA ReaderAlways == Spec => []Reader
  BY ReaderStarts, ReaderStep, PTL DEF Spec

-----------------------------------------------------------------------------
(* Theorems.                                                               *)

\* Less than a package ever waits in the ring between two reads, and they are
\* the last bytes heard, in their order.
THEOREM LessThanAPackageWaits == Spec => []Waiting
  <1>1. Reader => Waiting
    BY DEF Reader
  <1> QED BY <1>1, ReaderAlways, PTL

\* Only a read that brings more than the ring has left loses bytes.
THEOREM LosesOnlyBursts == Spec => OnlyBurstsLose
  <1> DEFINE Loses == Len(heard') - Len(heard) < Len(tty) - Len(tty')
                        => Len(tty) - Len(tty') >= Size - (PackLen - 1)
  <1>1. ASSUME Reader, [Next]_vars PROVE [Loses]_vars
    <2>0. Types /\ Waiting /\ Len(heard) \in Nat /\ Len(tty) \in Nat
      BY <1>1 DEF Reader, Types
    <2>1. ASSUME NEW b \in Byte, Comes(b) PROVE Loses
      <3>1. heard' = heard /\ tty' = Append(tty, b) /\ tty \in Seq(Byte)
        BY <2>0, <2>1 DEF Comes, Types
      <3>2. Len(tty') = Len(tty) + 1
        BY <3>1
      <3>3. Len(heard') = Len(heard)
        BY <3>1
      <3> QED BY <2>0, <3>2, <3>3
    <2>2. CASE com_receiver_func
      <3>1. PICK n \in Nat, k \in Nat : \E r : Reading(n, k, r)
        BY <2>0, <2>2, Reads
      <3>2. PICK r : Reading(n, k, r)
        BY <3>1
      <3>3. Len(heard') = Len(heard) + k
        BY <2>0, <3>2, ReadingWaits
      <3>4. n <= Len(tty) /\ (k < n => n >= Size - (PackLen - 1))
        BY <3>2 DEF Reading
      <3>5. Len(tty') = Len(tty) - n
        <4>1. tty' = SubSeq(tty, n + 1, Len(tty)) /\ tty \in Seq(Byte)
          BY <2>0, <3>2 DEF Reading, Types
        <4>2. CASE n = Len(tty)
          BY <4>1, <4>2
        <4>3. CASE n < Len(tty)
          BY <4>1, <4>3
        <4> QED BY <2>0, <3>4, <4>2, <4>3
      <3> QED BY <2>0, <3>3, <3>4, <3>5
    <2> QED BY <1>1, <2>1, <2>2 DEF Next
  <1> QED BY <1>1, ReaderAlways, PTL DEF Spec, OnlyBurstsLose

\* What is carried out is what a reader of the whole line finds.
LEMMA CarriesAll == Reader => done = Line!Packages(heard)
  <1> SUFFICES ASSUME Reader PROVE done = Line!Packages(heard)
    OBVIOUS
  <1> DEFINE l == Held(start, end)
             i == Len(heard) - l + 1
             g == Line!PackagesFrom(heard)
  <1>1. /\ heard \in Seq(Nat) /\ done \in Seq(Seq(Nat)) /\ Len(heard) \in Nat
        /\ l < PackLen /\ l <= Len(heard) /\ l \in Index /\ Ahead(heard, done, l)
    <2>1. l \in Index
      BY HeldMore DEF Reader, Types
    <2> QED BY <2>1 DEF Reader, Types, Waiting, Carried
  <1>2. heard \o << >> = heard
    BY <1>1
  <1>3. Line!Packages(heard) = done \o g[i]
    <2>1. << >> \in Seq(Nat)
      OBVIOUS
    <2> HIDE DEF l
    <2>2. Line!Packages(heard \o << >>) = done \o Line!PackagesFrom(heard \o << >>)[i]
      BY <1>1, <2>1 DEF Ahead
    <2> QED BY <1>2, <2>2
  <1> HIDE DEF l
  <1>4. i \in 1 .. Len(heard) + 1 /\ i + PackLen - 1 > Len(heard)
    BY <1>1 DEF Index
  <1> HIDE DEF i
  <1>5. g[i] = FromPlace(g, heard, i)
    BY <1>1, <1>4, LineEnds
  <1>6. g[i] = << >>
    BY <1>4, <1>5 DEF FromPlace
  <1>7. done \o << >> = done
    BY <1>1
  <1> QED BY <1>3, <1>6, <1>7

\* The receiver keeps the promise of SerialLine.
THEOREM ImplementsLine == Spec => LineSpec
  <1>1. Init => Line!Init
    BY DEF Init, Line!Init
  <1>2. ASSUME Reader, Reader', [Next]_vars PROVE [Line!Hear]_(Line!lineVars)
    <2>1. done' = Line!Packages(heard')
      <3>1. (Reader => done = Line!Packages(heard))'
        BY CarriesAll, PTL
      <3> QED BY <1>2, <3>1
    <2>2. ASSUME NEW b \in Byte, Comes(b) PROVE UNCHANGED <<heard, done>>
      BY <2>2 DEF Comes
    <2>3. ASSUME com_receiver_func PROVE Line!IsPrefix(heard, heard')
      <3>0. Types /\ Waiting /\ Len(heard) \in Nat /\ heard \in Seq(Nat) /\ tty \in Seq(Nat)
        <4>1. tty \in Seq(Byte)
          BY <1>2 DEF Reader, Types
        <4>2. tty \in Seq(Nat)
          BY <4>1, SeqMonotonic
        <4> QED BY <1>2, <4>2 DEF Reader, Types
      <3>1. PICK n \in Nat, k \in Nat : \E r : Reading(n, k, r)
        BY <3>0, <2>3, Reads
      <3>2. PICK r : Reading(n, k, r)
        BY <3>1
      <3>3. heard' = heard \o SubSeq(tty, 1, k) /\ k <= n /\ n <= Len(tty)
        BY <3>2 DEF Reading
      <3>4. SubSeq(tty, 1, k) \in Seq(Nat)
        <4>1. \A i \in 1 .. k : tty[i] \in Nat
          BY <3>0, <3>3
        <4> QED BY <4>1, SubSeqProperties
      <3> DEFINE q == SubSeq(tty, 1, k)
      <3> HIDE DEF q
      <3>5. /\ heard' \in Seq(Nat) /\ Len(heard') = Len(heard) + Len(q) /\ Len(q) \in Nat
            /\ \A i \in 1 .. Len(heard) : heard'[i] = heard[i]
        BY <3>0, <3>3, <3>4, Joined DEF q
      <3>6. SubSeq(heard, 1, Len(heard)) = SubSeq(heard', 1, Len(heard))
        <4>1. CASE Len(heard) = 0
          BY <4>1
        <4>2. CASE Len(heard) # 0
          <5> DEFINE L == Len(heard)
          <5> HIDE DEF L
          <5>1. L \in Nat /\ 1 <= L /\ \A i \in 1 .. L : heard[i] \in Nat /\ heard'[i] = heard[i]
            BY <3>0, <3>5, <4>2 DEF L
          <5>2. /\ SubSeq(heard, 1, L) \in Seq(Nat) /\ Len(SubSeq(heard, 1, L)) = L - 1 + 1
                /\ \A i \in 1 .. L - 1 + 1 : SubSeq(heard, 1, L)[i] = heard[1 + i - 1]
            BY <3>0, <5>1, Part
          <5>3. /\ SubSeq(heard', 1, L) \in Seq(Nat) /\ Len(SubSeq(heard', 1, L)) = L - 1 + 1
                /\ \A i \in 1 .. L - 1 + 1 : SubSeq(heard', 1, L)[i] = heard'[1 + i - 1]
            BY <3>5, <5>1, Part
          <5>4. \A i \in 1 .. L : SubSeq(heard, 1, L)[i] = SubSeq(heard', 1, L)[i]
            BY <5>1, <5>2, <5>3
          <5>5. Len(SubSeq(heard, 1, L)) = L /\ Len(SubSeq(heard', 1, L)) = L
            BY <5>1, <5>2, <5>3
          <5> QED BY <5>2, <5>3, <5>4, <5>5, SeqEqual DEF L
        <4> QED BY <4>1, <4>2
      <3> QED BY <3>0, <3>5, <3>6 DEF Line!IsPrefix
    <2> QED BY <1>2, <2>1, <2>2, <2>3 DEF Next, vars, Line!Hear, Line!lineVars
  <1> QED BY <1>1, <1>2, ReaderAlways, PTL DEF Spec, LineSpec, Line!Spec
=============================================================================
