------------------------- MODULE OverlayFeedProofs -------------------------
(***************************************************************************)
(* OverlayFeed implements OverlayQueue: however the reads cut the pieces,  *)
(* what the overlay thread draws are whole messages of the board server,   *)
(* in the order of sending.  A step of the feed is a step of the queue of  *)
(* the headers in transit; what the ring holds is cut only where a message *)
(* may be cut, because behind every header stays the text it asks for.     *)
(***************************************************************************)
EXTENDS OverlayFeed, SequenceTheorems, WellFoundedInduction, TLAPS

-----------------------------------------------------------------------------
(* Sequences strung together.                                              *)

\* A set of numbers has a smallest.
LEMMA Smallest ==
    ASSUME NEW S \in SUBSET Nat, S # {} PROVE \E n \in S : \A m \in S : n <= m
  <1>1. PICK x \in S : \A y \in S : ~ <<y, x>> \in OpToRel(<, Nat)
    BY NatLessThanWellFounded, WFMin
  <1>2. \A x1 \in Nat, y \in Nat : y < x1 => <<y, x1>> \in OpToRel(<, Nat)
    BY DEF OpToRel
  <1>3. \A y \in S : x \in Nat /\ y \in Nat /\ ~ (y < x)
    BY <1>1, <1>2
  <1> QED BY <1>3

\* The first i of seqs strung together, where f tells what the first i - 1 are.
Strung(f, seqs, i) == IF i = 1 THEN seqs[i] ELSE f[i - 1] \o seqs[i]

\* Stringing together comes to its end.
LEMMA StringingEnds ==
    ASSUME NEW seqs, Len(seqs) \in Nat, Len(seqs) # 0
    PROVE  \E f : /\ f = [i \in 1 .. Len(seqs) |-> Strung(f, seqs, i)]
                  /\ FlattenSeq(seqs) = f[Len(seqs)]
  <1> DEFINE L == Len(seqs)
             Upto(f, n) == f = [i \in 1 .. n |-> Strung(f, seqs, i)]
             Ends(n) == \E f : Upto(f, n)
  <1>0. L \in Nat /\ 1 <= L
    OBVIOUS
  <1>1. Ends(0)
    <2> DEFINE f == [i \in 1 .. 0 |-> << >>]
    <2>1. Upto(f, 0)
      OBVIOUS
    <2> QED BY <2>1
  <1>2. ASSUME NEW n \in Nat, Ends(n) PROVE Ends(n + 1)
    <2> PICK f : Upto(f, n)
      BY <1>2
    <2> DEFINE g == [i \in 1 .. n + 1 |-> IF i \in 1 .. n THEN f[i] ELSE Strung(f, seqs, i)]
    <2>1. \A i \in 1 .. n : g[i] = f[i]
      OBVIOUS
    <2>2. g[n + 1] = Strung(f, seqs, n + 1)
      OBVIOUS
    <2>3. g = [i \in 1 .. n + 1 |-> g[i]]
      OBVIOUS
    <2>4. \A i \in 1 .. n : f[i] = Strung(f, seqs, i)
      OBVIOUS
    <2> HIDE DEF g
    <2>5. \A i \in 1 .. n + 1 : Strung(g, seqs, i) = Strung(f, seqs, i)
      <3> SUFFICES ASSUME NEW i \in 1 .. n + 1 PROVE Strung(g, seqs, i) = Strung(f, seqs, i)
        OBVIOUS
      <3>1. i = 1 \/ i - 1 \in 1 .. n
        OBVIOUS
      <3> QED BY <2>1, <3>1 DEF Strung
    <2>6. \A i \in 1 .. n + 1 : g[i] = Strung(g, seqs, i)
      <3> SUFFICES ASSUME NEW i \in 1 .. n + 1 PROVE g[i] = Strung(g, seqs, i)
        OBVIOUS
      <3>1. i \in 1 .. n \/ i = n + 1
        OBVIOUS
      <3> QED BY <2>1, <2>2, <2>4, <2>5, <3>1
    <2>7. Upto(g, n + 1)
      BY <2>3, <2>6
    <2> QED BY <2>7
  <1>3. \A n \in Nat : Ends(n)
    <2> DEFINE Bad == {n \in Nat : ~Ends(n)}
    <2> SUFFICES ASSUME Bad # {} PROVE FALSE
      OBVIOUS
    <2>1. PICK n \in Bad : \A m \in Bad : n <= m
      <3> HIDE DEF Ends
      <3> QED BY Smallest
    <2> HIDE DEF Ends
    <2>2. n # 0 /\ n \in Nat
      BY <1>1
    <2>3. n - 1 \in Nat /\ n - 1 \notin Bad
      BY <2>1, <2>2
    <2>4. Ends(n - 1)
      BY <2>3
    <2>5. Ends((n - 1) + 1)
      BY <1>2, <2>3, <2>4
    <2> QED BY <2>2, <2>5
  <1> DEFINE F == CHOOSE f : Upto(f, L)
  <1>4. Upto(F, L)
    <2>1. Ends(L)
      BY <1>0, <1>3
    <2> HIDE DEF L
    <2> QED BY <2>1
  <1>5. FlattenSeq(seqs) = F[L]
    BY DEF FlattenSeq, Strung
  <1> HIDE DEF F
  <1> QED BY <1>4, <1>5

\* Nothing strung together is nothing.
LEMMA StrungNone == FlattenSeq(<< >>) = << >>
  BY DEF FlattenSeq

\* What a row of sequences over S comes to is a sequence over S.
LEMMA StrungType ==
    ASSUME NEW S, NEW seqs \in Seq(Seq(S)) PROVE FlattenSeq(seqs) \in Seq(S)
  <1> DEFINE L == Len(seqs)
  <1>0. L \in Nat /\ \A i \in 1 .. L : seqs[i] \in Seq(S)
    OBVIOUS
  <1>1. CASE L = 0
    <2>1. seqs = << >>
      BY <1>1
    <2>2. FlattenSeq(seqs) = << >>
      BY <2>1, StrungNone
    <2> QED BY <2>2
  <1>2. CASE L # 0
    <2>1. PICK f : f = [i \in 1 .. L |-> Strung(f, seqs, i)] /\ FlattenSeq(seqs) = f[L]
      BY <1>0, <1>2, StringingEnds
    <2> DEFINE Bad == {i \in 1 .. L : f[i] \notin Seq(S)}
    <2> SUFFICES ASSUME Bad # {} PROVE FALSE
      <3>1. L \in 1 .. L
        BY <1>0, <1>2
      <3> QED BY <2>1, <3>1
    <2>2. PICK n \in Bad : \A m \in Bad : n <= m
      <3>1. Bad \subseteq Nat
        BY <1>0
      <3> HIDE DEF Bad
      <3> QED BY <3>1, Smallest
    <2>3. n \in 1 .. L /\ n \in Nat /\ f[n] \notin Seq(S)
      BY <1>0
    <2>4. f[n] = Strung(f, seqs, n)
      BY <2>1, <2>3
    <2>5. n # 1 => n - 1 \in 1 .. L /\ n - 1 \notin Bad
      BY <1>0, <2>2, <2>3
    <2>6. n # 1 => f[n - 1] \in Seq(S)
      BY <2>5
    <2> HIDE DEF Bad
    <2>7. seqs[n] \in Seq(S)
      BY <1>0, <2>3
    <2>8. f[n] \in Seq(S)
      BY <2>4, <2>6, <2>7 DEF Strung
    <2> QED BY <2>3, <2>8
  <1> QED BY <1>1, <1>2

\* One more at the end.
LEMMA StrungOneMore ==
    ASSUME NEW S, NEW s \in Seq(Seq(S)), NEW x \in Seq(S)
    PROVE  FlattenSeq(Append(s, x)) = FlattenSeq(s) \o x
  <1> DEFINE t == Append(s, x)
             L == Len(s)
  <1>0. /\ L \in Nat /\ t \in Seq(Seq(S)) /\ Len(t) = L + 1 /\ t[L + 1] = x
        /\ \A i \in 1 .. L : t[i] = s[i]
    OBVIOUS
  <1> HIDE DEF t
  <1>1. PICK g : g = [i \in 1 .. L + 1 |-> Strung(g, t, i)] /\ FlattenSeq(t) = g[L + 1]
    <2>1. Len(t) \in Nat /\ Len(t) # 0
      BY <1>0
    <2> QED BY <1>0, <2>1, StringingEnds
  <1>2. g[L + 1] = Strung(g, t, L + 1)
    <2>1. L + 1 \in 1 .. L + 1
      BY <1>0
    <2> QED BY <1>1, <2>1
  <1>3. CASE L = 0
    <2>1. s = << >>
      BY <1>3
    <2>2. FlattenSeq(s) = << >>
      BY <2>1, StrungNone
    <2>3. FlattenSeq(t) = x
      BY <1>0, <1>1, <1>2, <1>3 DEF Strung
    <2>4. << >> \o x = x
      OBVIOUS
    <2> QED BY <2>2, <2>3, <2>4 DEF t
  <1>4. CASE L # 0
    <2>1. PICK f : f = [i \in 1 .. L |-> Strung(f, s, i)] /\ FlattenSeq(s) = f[L]
      BY <1>0, <1>4, StringingEnds
    <2> DEFINE Bad == {i \in 1 .. L : f[i] # g[i]}
    <2>2. Bad = {}
      <3> SUFFICES ASSUME Bad # {} PROVE FALSE
        OBVIOUS
      <3>1. PICK n \in Bad : \A m \in Bad : n <= m
        <4>1. Bad \subseteq Nat
          BY <1>0
        <4> HIDE DEF Bad
        <4> QED BY <4>1, Smallest
      <3>2. n \in 1 .. L /\ n \in Nat /\ f[n] # g[n]
        BY <1>0
      <3>3. n # 1 => n - 1 \in 1 .. L /\ n - 1 \notin Bad
        BY <1>0, <3>1, <3>2
      <3>4. n # 1 => f[n - 1] = g[n - 1]
        BY <3>3
      <3> HIDE DEF Bad
      <3>5. f[n] = Strung(f, s, n)
        BY <2>1, <3>2
      <3>6. n \in 1 .. L + 1
        BY <1>0, <3>2
      <3>7. g[n] = Strung(g, t, n)
        BY <1>1, <3>6
      <3>8. s[n] = t[n]
        BY <1>0, <3>2
      <3> QED BY <3>2, <3>4, <3>5, <3>7, <3>8 DEF Strung
    <2>3. L \in 1 .. L
      BY <1>0, <1>4
    <2>4. f[L] = g[L]
      BY <2>2, <2>3
    <2>5. L + 1 # 1 /\ (L + 1) - 1 = L
      BY <1>0, <1>4
    <2>6. Strung(g, t, L + 1) = g[(L + 1) - 1] \o t[L + 1]
      BY <2>5 DEF Strung
    <2>7. FlattenSeq(t) = FlattenSeq(s) \o x
      BY <1>0, <1>1, <1>2, <2>1, <2>4, <2>5, <2>6
    <2> QED BY <2>7 DEF t
  <1> QED BY <1>3, <1>4

\* The parts of a sequence that grow to the whole.
LEMMA Grows ==
    ASSUME NEW S, NEW s \in Seq(S)
    PROVE  /\ SubSeq(s, 1, 0) = << >> /\ SubSeq(s, 1, Len(s)) = s
           /\ \A n \in 0 .. Len(s) : SubSeq(s, 1, n) \in Seq(S)
           /\ \A n \in 1 .. Len(s) : SubSeq(s, 1, n) = Append(SubSeq(s, 1, n - 1), s[n])
  <1>1. SubSeq(s, 1, 0) = << >>
    BY SubSeqEmpty
  <1>2. SubSeq(s, 1, Len(s)) = s
    BY SubSeqFull
  <1>3. ASSUME NEW n \in 0 .. Len(s)
        PROVE  /\ SubSeq(s, 1, n) \in Seq(S) /\ Len(SubSeq(s, 1, n)) = n
               /\ \A i \in 1 .. n : SubSeq(s, 1, n)[i] = s[i]
    <2>1. \A i \in 1 .. n : s[i] \in S
      OBVIOUS
    <2>2. SubSeq(s, 1, n) \in Seq(S)
      BY <2>1, SubSeqProperties
    <2>3. Len(SubSeq(s, 1, n)) = n
      BY <2>1
    <2>4. \A i \in 1 .. n : SubSeq(s, 1, n)[i] = s[i]
      BY <2>1
    <2> QED BY <2>2, <2>3, <2>4
  <1>4. ASSUME NEW n \in 1 .. Len(s) PROVE SubSeq(s, 1, n) = Append(SubSeq(s, 1, n - 1), s[n])
    <2> DEFINE a == SubSeq(s, 1, n)
               b == SubSeq(s, 1, n - 1)
    <2>0. n \in 0 .. Len(s) /\ n - 1 \in 0 .. Len(s) /\ s[n] \in S
      OBVIOUS
    <2>1. a \in Seq(S) /\ Len(a) = n /\ \A i \in 1 .. n : a[i] = s[i]
      BY <1>3, <2>0
    <2>2. b \in Seq(S) /\ Len(b) = n - 1 /\ \A i \in 1 .. n - 1 : b[i] = s[i]
      BY <1>3, <2>0
    <2> HIDE DEF a, b
    <2>3. /\ Append(b, s[n]) \in Seq(S) /\ Len(Append(b, s[n])) = n
          /\ \A i \in 1 .. n : Append(b, s[n])[i] = s[i]
      BY <2>0, <2>2
    <2>4. a = Append(b, s[n])
      BY <2>1, <2>3, SeqEqual
    <2> QED BY <2>4 DEF a, b
  <1> QED BY <1>1, <1>2, <1>3, <1>4

\* ConcatAssociative in the form that the solver can instantiate.
LEMMA Associates ==
    \A S : \A a, b, c \in Seq(S) : (a \o b) \o c = a \o (b \o c)
  BY ConcatAssociative

\* Two rows one behind the other.
LEMMA StrungTogether ==
    ASSUME NEW S, NEW s \in Seq(Seq(S)), NEW t \in Seq(Seq(S))
    PROVE  FlattenSeq(s \o t) = FlattenSeq(s) \o FlattenSeq(t)
  <1> DEFINE P(n) == SubSeq(t, 1, n)
             Good(n) == FlattenSeq(s \o P(n)) = FlattenSeq(s) \o FlattenSeq(P(n))
             Bad == {n \in 0 .. Len(t) : ~Good(n)}
  <1>0. Len(t) \in Nat /\ \A n \in 1 .. Len(t) : t[n] \in Seq(S)
    OBVIOUS
  <1>1. /\ P(0) = << >> /\ P(Len(t)) = t
        /\ \A n \in 0 .. Len(t) : P(n) \in Seq(Seq(S))
        /\ \A n \in 1 .. Len(t) : P(n) = Append(P(n - 1), t[n])
    <2> DEFINE T == Seq(S)
    <2>1. t \in Seq(T)
      OBVIOUS
    <2> HIDE DEF T
    <2>2. /\ SubSeq(t, 1, 0) = << >> /\ SubSeq(t, 1, Len(t)) = t
          /\ \A n \in 0 .. Len(t) : SubSeq(t, 1, n) \in Seq(T)
          /\ \A n \in 1 .. Len(t) : SubSeq(t, 1, n) = Append(SubSeq(t, 1, n - 1), t[n])
      BY <2>1, Grows
    <2> QED BY <2>2 DEF T
  <1> HIDE DEF P
  <1> SUFFICES ASSUME Bad # {} PROVE FALSE
    <2>1. Bad = {} => Good(Len(t))
      <3> HIDE DEF Good
      <3> QED BY <1>0
    <2> QED BY <1>1, <2>1
  <1>2. PICK n \in Bad : \A m \in Bad : n <= m
    <2>1. Bad \subseteq Nat
      <3> HIDE DEF Good
      <3> QED BY <1>0
    <2> HIDE DEF Bad
    <2> QED BY <2>1, Smallest
  <1>3. n \in 0 .. Len(t) /\ n \in Nat /\ ~Good(n)
    <2> HIDE DEF Good
    <2> QED BY <1>0
  <1>4. n # 0
    <2>1. ASSUME n = 0 PROVE Good(n)
      <3>1. s \o << >> = s /\ FlattenSeq(s) \in Seq(S)
        BY StrungType
      <3>2. FlattenSeq(s) \o << >> = FlattenSeq(s)
        BY <3>1
      <3> QED BY <1>1, <2>1, <3>1, <3>2, StrungNone
    <2> QED BY <1>3, <2>1
  <1>5. n - 1 \in 0 .. Len(t) /\ n - 1 \notin Bad /\ n \in 1 .. Len(t)
    <2> HIDE DEF Good
    <2> QED BY <1>0, <1>2, <1>3, <1>4
  <1> DEFINE q == P(n - 1)
             x == t[n]
  <1>6. Good(n - 1)
    BY <1>5
  <1>7. P(n) = Append(q, x) /\ q \in Seq(Seq(S)) /\ x \in Seq(S)
    BY <1>0, <1>1, <1>5
  <1>8. FlattenSeq(s \o q) = FlattenSeq(s) \o FlattenSeq(q)
    BY <1>6
  <1> HIDE DEF q, x, Bad
  <1>9. s \o Append(q, x) = Append(s \o q, x) /\ s \o q \in Seq(Seq(S))
    <2> DEFINE T == Seq(S)
    <2>1. s \in Seq(T) /\ q \in Seq(T) /\ x \in T
      BY <1>7
    <2> HIDE DEF T
    <2>2. s \o q \in Seq(T)
      BY <2>1
    <2>3. Append(q, x) \in Seq(T) /\ Append(s \o q, x) \in Seq(T)
      BY <2>1, <2>2
    <2>4. s \o Append(q, x) \in Seq(T)
      BY <2>1, <2>3
    <2>5. Len(s \o Append(q, x)) = Len(Append(s \o q, x))
      BY <2>1, <2>2, <2>3
    <2>6. \A i \in 1 .. Len(s \o Append(q, x)) : (s \o Append(q, x))[i] = Append(s \o q, x)[i]
      BY <2>1, <2>2, <2>3
    <2>7. s \o Append(q, x) = Append(s \o q, x)
      BY <2>3, <2>4, <2>5, <2>6, SeqEqual
    <2> QED BY <2>2, <2>7 DEF T
  <1>10. FlattenSeq(s \o P(n)) = (FlattenSeq(s) \o FlattenSeq(q)) \o x
    <2> DEFINE r == s \o q
    <2>1. r \in Seq(Seq(S)) /\ s \o P(n) = Append(r, x)
      BY <1>7, <1>9
    <2> HIDE DEF r
    <2>2. FlattenSeq(Append(r, x)) = FlattenSeq(r) \o x
      BY <1>7, <2>1, StrungOneMore
    <2> QED BY <1>8, <2>1, <2>2 DEF r
  <1>11. FlattenSeq(P(n)) = FlattenSeq(q) \o x
    BY <1>7, StrungOneMore
  <1>12. FlattenSeq(s) \in Seq(S) /\ FlattenSeq(q) \in Seq(S)
    BY <1>7, StrungType
  <1>13. (FlattenSeq(s) \o FlattenSeq(q)) \o x = FlattenSeq(s) \o (FlattenSeq(q) \o x)
    <2> DEFINE a == FlattenSeq(s)
               b == FlattenSeq(q)
    <2>1. a \in Seq(S) /\ b \in Seq(S) /\ x \in Seq(S)
      BY <1>7, <1>12
    <2> HIDE DEF a, b
    <2>2. (a \o b) \o x = a \o (b \o x)
      BY <2>1, Associates
    <2> QED BY <2>2 DEF a, b
  <1>14. Good(n)
    BY <1>10, <1>11, <1>13
  <1> QED BY <1>3, <1>14

-----------------------------------------------------------------------------
(* What is picked out of a sequence.                                       *)

\* What is picked out of a sequence over S is one.
LEMMA OnlyType ==
    ASSUME NEW S, NEW s \in Seq(S), NEW T PROVE Only(s, T) \in Seq(S)
  <1> DEFINE row == [k \in DOMAIN s |-> IF s[k] \in T THEN <<s[k]>> ELSE << >>]
  <1>1. row \in Seq(Seq(S))
    <2>1. DOMAIN s = 1 .. Len(s) /\ Len(s) \in Nat /\ \A k \in 1 .. Len(s) : s[k] \in S
      OBVIOUS
    <2> DEFINE Q == Seq(S)
    <2>2. \A k \in 1 .. Len(s) : (IF s[k] \in T THEN <<s[k]>> ELSE << >>) \in Q
      BY <2>1
    <2> HIDE DEF Q
    <2>3. row \in Seq(Q)
      BY <2>1, <2>2
    <2> QED BY <2>3 DEF Q
  <1> HIDE DEF row
  <1>2. FlattenSeq(row) \in Seq(S)
    BY <1>1, StrungType
  <1> QED BY <1>2 DEF Only, row

\* Picking out goes through a concatenation.
LEMMA OnlyTogether ==
    ASSUME NEW S, NEW s \in Seq(S), NEW t \in Seq(S), NEW T
    PROVE  Only(s \o t, T) = Only(s, T) \o Only(t, T)
  <1> DEFINE Row(u) == [k \in DOMAIN u |-> IF u[k] \in T THEN <<u[k]>> ELSE << >>]
             Q == Seq(S)
  <1>1. ASSUME NEW u \in Seq(S)
        PROVE  /\ Row(u) \in Seq(Q) /\ Len(Row(u)) = Len(u)
               /\ \A k \in 1 .. Len(u) : Row(u)[k] = IF u[k] \in T THEN <<u[k]>> ELSE << >>
    <2>1. DOMAIN u = 1 .. Len(u) /\ Len(u) \in Nat /\ \A k \in 1 .. Len(u) : u[k] \in S
      OBVIOUS
    <2>2. \A k \in 1 .. Len(u) : (IF u[k] \in T THEN <<u[k]>> ELSE << >>) \in Q
      BY <2>1
    <2> HIDE DEF Q
    <2>3. Row(u) \in Seq(Q) /\ Len(Row(u)) = Len(u)
      BY <2>1, <2>2
    <2> QED BY <2>1, <2>3
  <1>2. s \o t \in Seq(S) /\ Len(s \o t) = Len(s) + Len(t) /\ Len(s) \in Nat /\ Len(t) \in Nat
    OBVIOUS
  <1>3. \A k \in 1 .. Len(s) + Len(t) : (s \o t)[k] = IF k <= Len(s) THEN s[k] ELSE t[k - Len(s)]
    OBVIOUS
  <1>4. Row(s \o t) = Row(s) \o Row(t)
    <2> DEFINE a == Row(s)
               b == Row(t)
               c == Row(s \o t)
    <2>1. /\ a \in Seq(Q) /\ Len(a) = Len(s) /\ b \in Seq(Q) /\ Len(b) = Len(t)
          /\ c \in Seq(Q) /\ Len(c) = Len(s) + Len(t)
      BY <1>1, <1>2
    <2>2. \A k \in 1 .. Len(s) : a[k] = IF s[k] \in T THEN <<s[k]>> ELSE << >>
      BY <1>1
    <2>3. \A k \in 1 .. Len(t) : b[k] = IF t[k] \in T THEN <<t[k]>> ELSE << >>
      BY <1>1
    <2>4. \A k \in 1 .. Len(s) + Len(t) : c[k] = IF (s \o t)[k] \in T THEN <<(s \o t)[k]>> ELSE << >>
      BY <1>1, <1>2
    <2> HIDE DEF a, b, c, Q
    <2>5. a \o b \in Seq(Q) /\ Len(a \o b) = Len(c)
      BY <2>1
    <2>6. \A k \in 1 .. Len(s) + Len(t) : (a \o b)[k] = IF k <= Len(s) THEN a[k] ELSE b[k - Len(s)]
      BY <2>1
    <2>7. ASSUME NEW k \in 1 .. Len(c) PROVE c[k] = (a \o b)[k]
      <3>0. k \in 1 .. Len(s) + Len(t)
        BY <2>1
      <3>1. CASE k <= Len(s)
        <4>1. k \in 1 .. Len(s)
          BY <1>2, <3>0, <3>1
        <4> QED BY <1>3, <2>2, <2>4, <2>6, <3>0, <3>1, <4>1
      <3>2. CASE ~ (k <= Len(s))
        <4>1. k - Len(s) \in 1 .. Len(t)
          BY <1>2, <3>0, <3>2
        <4> QED BY <1>3, <2>3, <2>4, <2>6, <3>0, <3>2, <4>1
      <3> QED BY <3>1, <3>2
    <2>8. c = a \o b
      BY <2>1, <2>5, <2>7, SeqEqual
    <2> QED BY <2>8 DEF a, b, c
  <1>5. Row(s) \in Seq(Seq(S)) /\ Row(t) \in Seq(Seq(S))
    BY <1>1
  <1> HIDE DEF Row
  <1>6. FlattenSeq(Row(s) \o Row(t)) = FlattenSeq(Row(s)) \o FlattenSeq(Row(t))
    BY <1>5, StrungTogether
  <1> QED BY <1>4, <1>6 DEF Only, Row

\* One element is picked out or not.
LEMMA OnlyOne ==
    ASSUME NEW x, NEW T PROVE Only(<<x>>, T) = IF x \in T THEN <<x>> ELSE << >>
  <1> DEFINE S == {x}
             y == IF x \in T THEN <<x>> ELSE << >>
  <1>1. y \in Seq(S) /\ << >> \in Seq(Seq(S))
    <2>1. x \in S
      OBVIOUS
    <2> HIDE DEF S
    <2>2. <<x>> \in Seq(S) /\ << >> \in Seq(S) /\ << >> \in Seq(Seq(S))
      BY <2>1
    <2> QED BY <2>2
  <1>2. [k \in DOMAIN <<x>> |-> IF <<x>>[k] \in T THEN <<<<x>>[k]>> ELSE << >>] = <<y>>
    OBVIOUS
  <1>3. Append(<< >>, y) = <<y>>
    OBVIOUS
  <1> HIDE DEF y
  <1>4. FlattenSeq(Append(<< >>, y)) = FlattenSeq(<< >>) \o y
    BY <1>1, StrungOneMore
  <1>5. << >> \o y = y
    BY <1>1
  <1>6. FlattenSeq(<<y>>) = y
    BY <1>3, <1>4, <1>5, StrungNone
  <1> QED BY <1>2, <1>6 DEF Only, y

\* Nothing is picked out of nothing.
LEMMA OnlyNone == ASSUME NEW T PROVE Only(<< >>, T) = << >>
  <1>1. [k \in DOMAIN << >> |-> IF << >>[k] \in T THEN <<<< >>[k]>> ELSE << >>] = << >>
    OBVIOUS
  <1> QED BY <1>1, StrungNone DEF Only

-----------------------------------------------------------------------------
(* Beginnings and ends of sequences.                                       *)

\* The first part of a concatenation is a prefix of it.
LEMMA Begins ==
    ASSUME NEW S, NEW a \in Seq(S), NEW b \in Seq(S) PROVE Queue!IsPrefix(a, a \o b)
  <1> DEFINE L == Len(a)
  <1>1. L \in Nat /\ Len(b) \in Nat /\ Len(a \o b) = L + Len(b) /\ a \o b \in Seq(S)
    OBVIOUS
  <1>2. \A i \in 1 .. L : a[i] \in S /\ (a \o b)[i] = a[i]
    OBVIOUS
  <1>3. SubSeq(a, 1, L) \in Seq(S) /\ SubSeq(a \o b, 1, L) \in Seq(S)
    BY <1>1, <1>2
  <1>4. Len(SubSeq(a, 1, L)) = L /\ Len(SubSeq(a \o b, 1, L)) = L
    BY <1>1, <1>2
  <1>5. \A i \in 1 .. L : SubSeq(a, 1, L)[i] = SubSeq(a \o b, 1, L)[i]
    BY <1>1, <1>2
  <1>6. SubSeq(a, 1, L) = SubSeq(a \o b, 1, L)
    BY <1>3, <1>4, <1>5, SeqEqual
  <1> QED BY <1>1, <1>6 DEF Queue!IsPrefix

\* The second part of a concatenation is a suffix of it.
LEMMA Ends ==
    ASSUME NEW S, NEW a \in Seq(S), NEW b \in Seq(S) PROVE Queue!IsSuffix(b, a \o b)
  <1> DEFINE L == Len(b)
             p == Queue!Reverse(b)
             q == Queue!Reverse(a \o b)
  <1>0. L \in Nat /\ Len(a) \in Nat /\ Len(a \o b) = Len(a) + L /\ a \o b \in Seq(S)
    OBVIOUS
  <1>1. /\ p \in Seq(S) /\ Len(p) = L /\ \A i \in 1 .. L : p[i] = b[L - i + 1]
    <2>1. \A i \in 1 .. L : L - i + 1 \in 1 .. L
      BY <1>0
    <2>2. \A i \in 1 .. L : b[L - i + 1] \in S
      BY <2>1
    <2>3. p = [i \in 1 .. L |-> b[L - i + 1]]
      BY DEF Queue!Reverse
    <2> HIDE DEF p, L
    <2> QED BY <1>0, <2>2, <2>3
  <1>2. /\ q \in Seq(S) /\ Len(q) = Len(a) + L
        /\ \A i \in 1 .. Len(a) + L : q[i] = (a \o b)[Len(a) + L - i + 1]
    <2> DEFINE c == a \o b
               M == Len(a) + L
    <2>1. M \in Nat /\ c \in Seq(S) /\ Len(c) = M
      BY <1>0
    <2>2. q = [i \in 1 .. M |-> c[M - i + 1]]
      BY <1>0 DEF Queue!Reverse
    <2> HIDE DEF q, M, c
    <2>3. \A i \in 1 .. M : M - i + 1 \in 1 .. M
      BY <2>1
    <2>4. \A i \in 1 .. M : c[M - i + 1] \in S
      BY <2>1, <2>3
    <2>5. q \in Seq(S) /\ Len(q) = M /\ \A i \in 1 .. M : q[i] = c[M - i + 1]
      BY <2>1, <2>2, <2>4
    <2> QED BY <2>5 DEF M, c
  <1> HIDE DEF p, q
  <1>3. ASSUME NEW i \in 1 .. L PROVE q[i] = p[i]
    <2>1. /\ Len(a) + L - i + 1 \in 1 .. Len(a) + Len(b) /\ ~ (Len(a) + L - i + 1 <= Len(a))
          /\ Len(a) + L - i + 1 - Len(a) = L - i + 1 /\ i \in 1 .. Len(a) + L
      BY <1>0
    <2>2. (a \o b)[Len(a) + L - i + 1] = b[L - i + 1]
      BY <2>1, ConcatProperties
    <2> QED BY <1>1, <1>2, <2>1, <2>2
  <1>4. SubSeq(p, 1, L) \in Seq(S) /\ SubSeq(q, 1, L) \in Seq(S)
    BY <1>0, <1>1, <1>2
  <1>5. Len(SubSeq(p, 1, L)) = L /\ Len(SubSeq(q, 1, L)) = L
    BY <1>0, <1>1, <1>2
  <1>6. \A i \in 1 .. L : SubSeq(p, 1, L)[i] = SubSeq(q, 1, L)[i]
    BY <1>0, <1>1, <1>2, <1>3
  <1>7. SubSeq(p, 1, L) = SubSeq(q, 1, L)
    BY <1>4, <1>5, <1>6, SeqEqual
  <1>8. Queue!IsPrefix(p, q)
    BY <1>0, <1>1, <1>2, <1>7 DEF Queue!IsPrefix
  <1> QED BY <1>8 DEF Queue!IsSuffix, p, q

-----------------------------------------------------------------------------
(* Messages in pieces.                                                     *)

USE FeedAssumption

Piece == [chn : Channels, fits : BOOLEAN, text : BOOLEAN, part : {"header", "text"}]
Message == Header(Channels)

\* Behind every header that asks for a text comes its text.
Whole(s) ==
    \A i \in 1 .. Len(s) : s[i].part = "header" /\ s[i].text
        => i < Len(s) /\ s[i + 1] = [s[i] EXCEPT !.part = "text"]

\* A header is a piece.
LEMMA MessageIsPiece == Message \subseteq Piece
  BY DEF Message, Piece, Header

\* The pieces that are headers are the messages.
LEMMA HeadersAreMessages ==
    \A p \in Piece : p \in Message <=> p.part = "header"
  BY DEF Message, Piece, Header

\* A message in pieces is whole, and its header is the message.
LEMMA PiecesOfMessage ==
    ASSUME NEW m \in Message
    PROVE  /\ Queue!Pieces(m) \in Seq(Piece) /\ Whole(Queue!Pieces(m))
           /\ Only(Queue!Pieces(m), Message) = <<m>>
  <1> DEFINE t == [m EXCEPT !.part = "text"]
  <1>1. m \in Piece /\ m.part = "header" /\ m.text \in BOOLEAN
    BY MessageIsPiece DEF Message, Header
  <1>2. t \in Piece /\ t.part = "text" /\ t \notin Message
    <2>1. t \in Piece
      BY DEF Message, Header, Piece
    <2>2. t.part = "text"
      BY <1>1 DEF Piece
    <2> QED BY <2>1, <2>2, HeadersAreMessages
  <1> HIDE DEF t
  <1>3. CASE m.text
    <2>1. Queue!Pieces(m) = <<m, t>>
      BY <1>3 DEF Queue!Pieces, t
    <2>2. <<m, t>> \in Seq(Piece)
      BY <1>1, <1>2
    <2>3. Whole(<<m, t>>)
      <3> DEFINE s == <<m, t>>
      <3>1. Len(s) = 2 /\ s[1] = m /\ s[2] = t
        OBVIOUS
      <3> HIDE DEF s
      <3>2. \A i \in 1 .. Len(s) : i = 1 \/ i = 2
        BY <3>1
      <3>3. s[2].part # "header"
        BY <1>2, <3>1
      <3>4. 1 < Len(s) /\ s[1 + 1] = [s[1] EXCEPT !.part = "text"]
        BY <3>1 DEF t
      <3>5. Whole(s)
        BY <3>2, <3>3, <3>4 DEF Whole
      <3> QED BY <3>5 DEF s
    <2>4. <<m, t>> = <<m>> \o <<t>>
      <3>1. <<m, t>> = Append(<<m>>, t)
        OBVIOUS
      <3>2. <<m>> \in Seq(Piece) /\ t \in Piece
        BY <1>1, <1>2
      <3>3. Append(<<m>>, t) = <<m>> \o <<t>>
        BY <3>2, AppendIsConcat
      <3> QED BY <3>1, <3>3
    <2>5. Only(<<m, t>>, Message) = Only(<<m>>, Message) \o Only(<<t>>, Message)
      <3> DEFINE a == <<m>>
                 b == <<t>>
      <3>1. a \in Seq(Piece) /\ b \in Seq(Piece)
        BY <1>1, <1>2
      <3> HIDE DEF a, b
      <3>2. Only(a \o b, Message) = Only(a, Message) \o Only(b, Message)
        BY <3>1, OnlyTogether
      <3> QED BY <2>4, <3>2 DEF a, b
    <2>6. Only(<<m>>, Message) = <<m>> /\ Only(<<t>>, Message) = << >>
      BY <1>2, OnlyOne
    <2>7. <<m>> \o << >> = <<m>>
      BY <1>1
    <2> QED BY <2>1, <2>2, <2>3, <2>5, <2>6, <2>7
  <1>4. CASE ~m.text
    <2>1. Queue!Pieces(m) = <<m>>
      BY <1>4 DEF Queue!Pieces
    <2>2. <<m>> \in Seq(Piece) /\ Whole(<<m>>)
      BY <1>1, <1>4 DEF Whole
    <2>3. Only(<<m>>, Message) = <<m>>
      BY OnlyOne
    <2> QED BY <2>1, <2>2, <2>3
  <1> QED BY <1>3, <1>4

\* Two wholes behind each other are whole.
LEMMA WholeTogether ==
    ASSUME NEW s \in Seq(Piece), NEW t \in Seq(Piece), Whole(s), Whole(t)
    PROVE  Whole(s \o t)
  <1>0. Len(s) \in Nat /\ Len(t) \in Nat /\ Len(s \o t) = Len(s) + Len(t)
    OBVIOUS
  <1>1. \A i \in 1 .. Len(s) : (s \o t)[i] = s[i]
    OBVIOUS
  <1>2. \A i \in 1 .. Len(t) : (s \o t)[Len(s) + i] = t[i]
    OBVIOUS
  <1> SUFFICES ASSUME NEW i \in 1 .. Len(s) + Len(t),
                      (s \o t)[i].part = "header", (s \o t)[i].text
               PROVE  /\ i < Len(s) + Len(t)
                      /\ (s \o t)[i + 1] = [(s \o t)[i] EXCEPT !.part = "text"]
    BY <1>0 DEF Whole
  <1> DEFINE u == s \o t
  <1> HIDE DEF u
  <1>3. CASE i \in 1 .. Len(s)
    <2>1. u[i] = s[i]
      BY <1>1, <1>3 DEF u
    <2>2. i < Len(s) /\ s[i + 1] = [s[i] EXCEPT !.part = "text"]
      BY <1>1, <1>3 DEF Whole
    <2>3. i + 1 \in 1 .. Len(s) /\ i < Len(s) + Len(t)
      BY <1>0, <1>3, <2>2
    <2> QED BY <1>1, <1>3, <2>2, <2>3
  <1>4. CASE i \notin 1 .. Len(s)
    <2> DEFINE j == i - Len(s)
    <2>1. j \in 1 .. Len(t) /\ i = Len(s) + j /\ j \in Nat
      BY <1>0, <1>4
    <2> HIDE DEF j
    <2>2. (s \o t)[i] = t[j]
      BY <1>2, <2>1
    <2>3. j < Len(t) /\ t[j + 1] = [t[j] EXCEPT !.part = "text"]
      BY <2>1, <2>2 DEF Whole
    <2>4. j + 1 \in 1 .. Len(t) /\ i + 1 = Len(s) + (j + 1) /\ i < Len(s) + Len(t)
      <3>1. j < Len(t)
        BY <2>3
      <3> QED BY <1>0, <2>1, <3>1
    <2>5. (s \o t)[i + 1] = t[j + 1]
      BY <1>2, <2>4
    <2> QED BY <2>2, <2>3, <2>4, <2>5
  <1> QED BY <1>3, <1>4

\* So is what is left when a beginning is taken away.
LEMMA WholeRest ==
    ASSUME NEW s \in Seq(Piece), NEW t \in Seq(Piece), Whole(s \o t) PROVE Whole(t)
  <1>0. Len(s) \in Nat /\ Len(t) \in Nat /\ Len(s \o t) = Len(s) + Len(t)
    OBVIOUS
  <1>1. \A i \in 1 .. Len(t) : (s \o t)[Len(s) + i] = t[i]
    OBVIOUS
  <1> SUFFICES ASSUME NEW i \in 1 .. Len(t), t[i].part = "header", t[i].text
               PROVE  i < Len(t) /\ t[i + 1] = [t[i] EXCEPT !.part = "text"]
    BY DEF Whole
  <1> DEFINE j == Len(s) + i
  <1>2. j \in 1 .. Len(s \o t) /\ (s \o t)[j] = t[i] /\ j \in Nat
    BY <1>0, <1>1
  <1>3. j < Len(s \o t) /\ (s \o t)[j + 1] = [(s \o t)[j] EXCEPT !.part = "text"]
    <2> HIDE DEF j
    <2> QED BY <1>2 DEF Whole
  <1>4. i < Len(t) /\ i + 1 \in 1 .. Len(t) /\ j + 1 = Len(s) + (i + 1)
    <2>1. Len(s) + i < Len(s) + Len(t)
      BY <1>0, <1>3
    <2>2. i \in Nat
      OBVIOUS
    <2> QED BY <1>0, <2>1, <2>2
  <1>5. (s \o t)[j + 1] = t[i + 1]
    BY <1>1, <1>4
  <1> QED BY <1>2, <1>3, <1>4, <1>5

\* Messages one behind the other, in pieces.
LEMMA PiecesOfMessages ==
    ASSUME NEW ms \in Seq(Message)
    PROVE  LET x == FlattenSeq([k \in DOMAIN ms |-> Queue!Pieces(ms[k])])
           IN  x \in Seq(Piece) /\ Whole(x)
  <1> DEFINE Q == Seq(Piece)
             row == [k \in DOMAIN ms |-> Queue!Pieces(ms[k])]
             P(n) == SubSeq(row, 1, n)
             Good(n) == Whole(FlattenSeq(P(n)))
             Bad == {n \in 0 .. Len(row) : ~Good(n)}
  <1>0. DOMAIN ms = 1 .. Len(ms) /\ Len(ms) \in Nat /\ \A k \in 1 .. Len(ms) : ms[k] \in Message
    OBVIOUS
  <1>1. \A k \in 1 .. Len(ms) : Queue!Pieces(ms[k]) \in Q /\ Whole(Queue!Pieces(ms[k]))
    BY <1>0, PiecesOfMessage
  <1>2. row \in Seq(Q) /\ Len(row) = Len(ms) /\ \A k \in 1 .. Len(row) : row[k] \in Q /\ Whole(row[k])
    <2> HIDE DEF Q
    <2>1. row \in Seq(Q) /\ Len(row) = Len(ms)
      BY <1>0, <1>1
    <2> QED BY <1>0, <1>1, <2>1
  <1> HIDE DEF row
  <1>3. /\ P(0) = << >> /\ P(Len(row)) = row
        /\ \A n \in 0 .. Len(row) : P(n) \in Seq(Q)
        /\ \A n \in 1 .. Len(row) : P(n) = Append(P(n - 1), row[n])
    <2> HIDE DEF Q
    <2> QED BY <1>2, Grows
  <1>4. Len(row) \in Nat
    BY <1>0, <1>2
  <1> HIDE DEF P
  <1> SUFFICES ASSUME Bad # {} PROVE FALSE
    <2>1. Bad = {} => Good(Len(row))
      <3> HIDE DEF Good
      <3> QED BY <1>4
    <2>2. FlattenSeq(row) \in Seq(Piece)
      BY <1>2, StrungType
    <2> QED BY <1>3, <2>1, <2>2 DEF row
  <1>5. PICK n \in Bad : \A m \in Bad : n <= m
    <2>1. Bad \subseteq Nat
      <3> HIDE DEF Good
      <3> QED BY <1>4
    <2> HIDE DEF Bad
    <2> QED BY <2>1, Smallest
  <1>6. n \in 0 .. Len(row) /\ n \in Nat /\ ~Good(n)
    <2> HIDE DEF Good
    <2> QED BY <1>4
  <1>7. n # 0
    <2>1. Whole(<< >>)
      BY DEF Whole
    <2> QED BY <1>3, <1>6, <2>1, StrungNone
  <1>8. n - 1 \in 0 .. Len(row) /\ n - 1 \notin Bad /\ n \in 1 .. Len(row)
    <2> HIDE DEF Good
    <2> QED BY <1>4, <1>5, <1>6, <1>7
  <1>9. Good(n - 1)
    BY <1>8
  <1> DEFINE q == P(n - 1)
  <1>10. P(n) = Append(q, row[n]) /\ q \in Seq(Seq(Piece)) /\ row[n] \in Seq(Piece) /\ Whole(row[n])
    BY <1>2, <1>3, <1>8
  <1>11. Whole(FlattenSeq(q))
    BY <1>9
  <1> HIDE DEF q, Bad
  <1>12. FlattenSeq(P(n)) = FlattenSeq(q) \o row[n]
    BY <1>10, StrungOneMore
  <1>13. FlattenSeq(q) \in Seq(Piece)
    BY <1>10, StrungType
  <1>14. Whole(FlattenSeq(q) \o row[n])
    BY <1>10, <1>11, <1>13, WholeTogether
  <1> QED BY <1>6, <1>12, <1>14

-----------------------------------------------------------------------------
(* The steps of the queue.                                                 *)

FeedInv ==
    /\ ring \in Seq(Piece) /\ net \in Seq(Piece) /\ clockFits \in BOOLEAN
    /\ Whole(ring \o net)

\* The queue's contents, by the name of the set of headers.
LEMMA InTransitIsOnly == InTransit = Only(ring \o net, Message)
  BY DEF InTransit, Message

\* What is put behind the rest is sent.
LEMMA Sending ==
    ASSUME FeedInv, NEW x \in Seq(Piece), Whole(x), net' = net \o x, ring' = ring,
           shown' = shown, clockFits' \in BOOLEAN
    PROVE  FeedInv' /\ Queue!Send
  <1> DEFINE r == ring \o net
  <1>1. r \in Seq(Piece) /\ net' \in Seq(Piece) /\ ring' \in Seq(Piece) /\ Whole(r)
    BY DEF FeedInv
  <1>2. ring' \o net' = r \o x
    <2>1. ring \in Seq(Piece) /\ net \in Seq(Piece)
      BY DEF FeedInv
    <2> QED BY <2>1, Associates
  <1> HIDE DEF r
  <1>3. Whole(r \o x)
    BY <1>1, WholeTogether
  <1>4. FeedInv'
    <2>1. Whole(ring' \o net')
      BY <1>2, <1>3
    <2> QED BY <1>1, <2>1 DEF FeedInv, Whole
  <1>5. Only(r \o x, Message) = Only(r, Message) \o Only(x, Message)
    BY <1>1, OnlyTogether
  <1>6. Only(r, Message) \in Seq(Piece) /\ Only(x, Message) \in Seq(Piece)
    BY <1>1, OnlyType
  <1> DEFINE q == Only(r, Message)
             p == Only(x, Message)
  <1> HIDE DEF q, p
  <1>7. Queue!IsPrefix(q, q \o p)
    BY <1>6, Begins DEF q, p
  <1>8. InTransit = q
    BY InTransitIsOnly DEF q, r
  <1>9. InTransit' = q \o p
    <2>1. (InTransit = Only(ring \o net, Message))'
      BY InTransitIsOnly, PTL
    <2>2. InTransit' = Only(ring' \o net', Message)
      BY <2>1 DEF Only, Message, Header, Channels
    <2> QED BY <1>2, <1>5, <2>2 DEF q, p
  <1> QED BY <1>4, <1>7, <1>8, <1>9 DEF Queue!Send

\* What is taken from the front is lost.
LEMMA Losing ==
    ASSUME FeedInv, NEW a \in Seq(Piece), ring' \in Seq(Piece), net' \in Seq(Piece),
           clockFits' \in BOOLEAN, ring \o net = a \o (ring' \o net'), shown' = shown
    PROVE  FeedInv' /\ Queue!Lose
  <1> DEFINE r == ring' \o net'
  <1>1. r \in Seq(Piece) /\ Whole(a \o r)
    BY DEF FeedInv
  <1>2. InTransit' = Only(r, Message)
    <2>1. (InTransit = Only(ring \o net, Message))'
      BY InTransitIsOnly, PTL
    <2> QED BY <2>1 DEF Only, Message, Header, Channels
  <1>3. InTransit = Only(a \o r, Message)
    BY InTransitIsOnly
  <1>4. Whole(r)
    <2> HIDE DEF r
    <2> QED BY <1>1, WholeRest
  <1>5. FeedInv'
    BY <1>4 DEF FeedInv, Whole
  <1> HIDE DEF r
  <1>6. Only(a \o r, Message) = Only(a, Message) \o Only(r, Message)
    BY <1>1, OnlyTogether, SMTT(30)
  <1>7. Only(a, Message) \in Seq(Piece) /\ Only(r, Message) \in Seq(Piece)
    BY <1>1, OnlyType
  <1>8. Queue!IsSuffix(Only(r, Message), Only(a, Message) \o Only(r, Message))
    BY <1>7, Ends
  <1> QED BY <1>2, <1>3, <1>5, <1>6, <1>8 DEF Queue!Lose

\* A sequence in two parts.
LEMMA Parts ==
    ASSUME NEW s \in Seq(Piece), NEW n \in 0 .. Len(s)
    PROVE  /\ SubSeq(s, 1, n) \in Seq(Piece) /\ SubSeq(s, n + 1, Len(s)) \in Seq(Piece)
           /\ s = SubSeq(s, 1, n) \o SubSeq(s, n + 1, Len(s))
  <1>1. \A i \in 1 .. Len(s) : s[i] \in Piece
    OBVIOUS
  <1>2. \A i \in 1 .. n : s[i] \in Piece
    BY <1>1
  <1>3. \A i \in n + 1 .. Len(s) : s[i] \in Piece
    BY <1>1
  <1>4. SubSeq(s, 1, n) \in Seq(Piece)
    BY <1>2, SubSeqProperties
  <1>5. SubSeq(s, n + 1, Len(s)) \in Seq(Piece)
    BY <1>3, SubSeqProperties
  <1>6. SubSeq(s, 1, n) \o SubSeq(s, n + 1, Len(s)) = SubSeq(s, 1, Len(s))
    <2>1. 1 \in 1 .. Len(s) + 1 /\ n \in 1 - 1 .. Len(s) /\ Len(s) \in n .. Len(s)
      OBVIOUS
    <2> QED BY <2>1, ConcatAdjacentSubSeq
  <1>7. SubSeq(s, 1, Len(s)) = s
    BY SubSeqFull
  <1> QED BY <1>4, <1>5, <1>6, <1>7

\* A read, with or without an overflow, loses messages or none.
LEMMA ReadStep == ASSUME FeedInv, Read PROVE FeedInv' /\ Queue!Lose
  <1>1. PICK n \in 1 .. Len(net) : ring' = Received(ring, n) /\ net' = SubSeq(net, n + 1, Len(net))
    BY DEF Read
  <1>2. shown' = shown /\ clockFits' = clockFits
    BY DEF Read, board
  <1>3. ring \in Seq(Piece) /\ net \in Seq(Piece) /\ clockFits \in BOOLEAN
    BY DEF FeedInv
  <1> DEFINE a == SubSeq(net, 1, n)
             b == SubSeq(net, n + 1, Len(net))
  <1>4. n \in 0 .. Len(net)
    BY <1>3
  <1>5. a \in Seq(Piece) /\ b \in Seq(Piece) /\ net = a \o b
    BY <1>3, <1>4, Parts
  <1>6. net' = b /\ ring' = IF Len(ring) + n >= RingPieces THEN << >> ELSE ring \o a
    BY <1>1 DEF Received
  <1> HIDE DEF a, b
  <1>7. ring \o a \in Seq(Piece) /\ ring \o net = (ring \o a) \o b
    <2>1. (ring \o a) \o b = ring \o (a \o b)
      BY <1>3, <1>5, Associates
    <2> QED BY <1>3, <1>5, <2>1
  <1>8. CASE Len(ring) + n >= RingPieces
    <2>1. ring' \o net' = b /\ ring' \in Seq(Piece) /\ net' \in Seq(Piece)
      BY <1>5, <1>6, <1>8
    <2>2. ring \o net = (ring \o a) \o (ring' \o net')
      BY <1>7, <2>1
    <2> QED BY <1>2, <1>3, <1>7, <2>1, <2>2, Losing
  <1>9. CASE ~ (Len(ring) + n >= RingPieces)
    <2>1. ring' = ring \o a /\ net' = b
      BY <1>6, <1>9
    <2>2. ring' \o net' \in Seq(Piece) /\ ring \o net = ring' \o net'
      BY <1>5, <1>7, <2>1
    <2>3. ring \o net = << >> \o (ring' \o net') /\ << >> \in Seq(Piece)
      BY <2>2
    <2> QED BY <1>2, <1>3, <1>5, <1>7, <2>1, <2>3, Losing
  <1> QED BY <1>8, <1>9

\* The ring gives n of its pieces away from its front.
LEMMA Drops ==
    ASSUME FeedInv, NEW n \in 0 .. Len(ring), ring' = SubSeq(ring, n + 1, Len(ring)),
           net' = net, shown' = shown, clockFits' = clockFits
    PROVE  FeedInv' /\ Queue!Lose
  <1>1. ring \in Seq(Piece) /\ net \in Seq(Piece) /\ clockFits \in BOOLEAN
    BY DEF FeedInv
  <1> DEFINE a == SubSeq(ring, 1, n)
             b == SubSeq(ring, n + 1, Len(ring))
  <1>2. a \in Seq(Piece) /\ b \in Seq(Piece) /\ ring = a \o b
    BY <1>1, Parts
  <1>3. ring' = b
    OBVIOUS
  <1> HIDE DEF a, b
  <1>4. ring \o net = a \o (b \o net)
    BY <1>1, <1>2, Associates
  <1> QED BY <1>1, <1>2, <1>3, <1>4, Losing

\* Drawing takes the first message of the queue, header and text.
LEMMA DrawStep == ASSUME FeedInv, Draw PROVE FeedInv' /\ Queue!Show
  <1> DEFINE m == ring[1]
             n == Wanted
             a == SubSeq(ring, 1, n)
             b == SubSeq(ring, n + 1, Len(ring))
  <1>1. /\ ring \in Seq(Piece) /\ net \in Seq(Piece) /\ clockFits \in BOOLEAN /\ Whole(ring \o net)
    BY DEF FeedInv
  <1>2. ring # << >> /\ m.part = "header" /\ Len(ring) >= n
    BY DEF Draw, Complete
  <1>3. Len(ring) \in Nat /\ 1 \in 1 .. Len(ring) /\ m \in Piece /\ n \in 1 .. 2 /\ n \in 0 .. Len(ring)
    <2>1. Len(ring) \in Nat /\ Len(ring) # 0
      BY <1>1, <1>2
    <2>2. m \in Piece
      BY <1>1, <2>1
    <2>3. n \in 1 .. 2
      BY DEF Wanted
    <2> HIDE DEF n
    <2>4. n \in 0 .. Len(ring)
      BY <1>2, <2>1, <2>3
    <2> QED BY <2>1, <2>2, <2>3, <2>4
  <1>4. m \in Message
    BY <1>2, <1>3, HeadersAreMessages
  <1>5. a \in Seq(Piece) /\ b \in Seq(Piece) /\ ring = a \o b
    <2> HIDE DEF n
    <2> QED BY <1>1, <1>3, Parts
  <1>6. ring' = b /\ net' = net /\ shown' = a /\ clockFits' = clockFits
    BY DEF Draw, link, board
  <1>7. a = Queue!Pieces(m)
    <2> DEFINE u == ring \o net
    <2>1. Len(u) = Len(ring) + Len(net) /\ Len(net) \in Nat /\ \A i \in 1 .. Len(ring) : u[i] = ring[i]
      BY <1>1
    <2>2. CASE m.text
      <3>1. n = 2
        BY <2>2 DEF Wanted
      <3>2. 2 <= Len(ring)
        BY <1>2, <3>1
      <3>3. u[1] = m /\ u[2] = ring[2] /\ 1 \in 1 .. Len(u)
        BY <1>3, <2>1, <3>2
      <3>4. Whole(u)
        BY <1>1
      <3> HIDE DEF u, m
      <3>5. u[1 + 1] = [u[1] EXCEPT !.part = "text"]
        BY <1>2, <2>2, <3>3, <3>4 DEF Whole
      <3>6. ring[2] = [m EXCEPT !.part = "text"]
        BY <3>3, <3>5
      <3>7. SubSeq(ring, 1, 2) = <<ring[1], ring[2]>>
        <4>1. ring[1] \in Piece /\ ring[2] \in Piece
          BY <1>1, <3>2
        <4>2. SubSeq(ring, 1, 2) \in Seq(Piece) /\ Len(SubSeq(ring, 1, 2)) = 2
          BY <1>1, <1>3, <3>2
        <4>3. SubSeq(ring, 1, 2)[1] = ring[1] /\ SubSeq(ring, 1, 2)[2] = ring[2]
          BY <1>1, <1>3, <3>2
        <4> DEFINE s == SubSeq(ring, 1, 2)
        <4>4. s \in Seq(Piece) /\ Len(s) = 2
          BY <4>2
        <4> HIDE DEF s
        <4>5. s = <<s[1], s[2]>>
          BY <4>4
        <4> QED BY <4>3, <4>5 DEF s
      <3> QED BY <2>2, <3>1, <3>6, <3>7 DEF Queue!Pieces, m
    <2>3. CASE ~m.text
      <3>1. n = 1
        BY <2>3 DEF Wanted
      <3>2. SubSeq(ring, 1, 1) = <<ring[1]>>
        <4> DEFINE s == SubSeq(ring, 1, 1)
        <4>1. s \in Seq(Piece) /\ Len(s) = 1 /\ s[1] = ring[1]
          BY <1>1, <1>3
        <4> HIDE DEF s
        <4>2. s = <<s[1]>>
          BY <4>1
        <4> QED BY <4>1, <4>2 DEF s
      <3> QED BY <2>3, <3>1, <3>2 DEF Queue!Pieces
    <2> QED BY <2>2, <2>3
  <1> HIDE DEF a, b, n, m
  <1>8. ring \o net = a \o (b \o net) /\ b \o net \in Seq(Piece)
    BY <1>1, <1>5, Associates
  <1>9. FeedInv'
    <2>1. ring' \in Seq(Piece) /\ net' \in Seq(Piece) /\ clockFits' \in BOOLEAN
      BY <1>1, <1>5, <1>6
    <2>2. Whole(b \o net)
      <3>1. Whole(a \o (b \o net))
        BY <1>1, <1>8
      <3> QED BY <1>5, <1>8, <3>1, WholeRest
    <2>3. Whole(ring' \o net')
      BY <1>6, <2>2
    <2> QED BY <2>1, <2>3 DEF FeedInv, Whole
  <1> DEFINE q == Only(b \o net, Message)
  <1>10. Only(a, Message) = <<m>> /\ q \in Seq(Piece)
    BY <1>4, <1>7, <1>8, PiecesOfMessage, OnlyType
  <1>11. Only(a \o (b \o net), Message) = Only(a, Message) \o q
    <2> HIDE DEF q
    <2> DEFINE c == b \o net
    <2>1. c \in Seq(Piece)
      BY <1>8
    <2> HIDE DEF c
    <2>2. Only(a \o c, Message) = Only(a, Message) \o Only(c, Message)
      BY <1>5, <2>1, OnlyTogether
    <2> QED BY <2>2 DEF c, q
  <1> HIDE DEF q
  <1>12. InTransit = <<m>> \o q
    BY <1>8, <1>10, <1>11, InTransitIsOnly
  <1>13. InTransit' = q
    <2>1. (InTransit = Only(ring \o net, Message))'
      BY InTransitIsOnly, PTL
    <2>2. InTransit' = Only(ring' \o net', Message)
      BY <2>1 DEF Only, Message, Header, Channels
    <2> QED BY <1>6, <2>2 DEF q
  <1>14. InTransit # << >> /\ Head(InTransit) = m /\ Tail(InTransit) = q
    BY <1>3, <1>10, <1>12
  <1> QED BY <1>6, <1>7, <1>9, <1>13, <1>14 DEF Queue!Show

-----------------------------------------------------------------------------
(* What the board server sends.                                            *)

\* What a channel is sent, texts and blanks, are messages.
LEMMA TextIsMessage ==
    ASSUME NEW c \in Channels, NEW fits \in BOOLEAN
    PROVE  Text(c, fits) \in Message /\ Blank(c) \in Message
  BY DEF Text, Blank, Message, Header

\* The messages that a package or the timer has, for some of the channels.
LEMMA SomeMessages ==
    ASSUME NEW C, NEW fits \in BOOLEAN
    PROVE  /\ For(C, EveryBlank) \in Seq(Message)
           /\ For(C, EveryText[fits]) \in Seq(Message)
           /\ For(C, EveryClock[fits]) \in Seq(Message)
  <1>0. /\ DOMAIN InOrder = 1 .. LastChannel + 1 /\ LastChannel + 1 \in Nat
        /\ \A k \in 1 .. LastChannel + 1 : InOrder[k] \in Channels
    BY DEF InOrder, Channels
  <1>1. EveryBlank \in Seq(Message)
    <2>1. \A k \in 1 .. LastChannel + 1 : Blank(InOrder[k]) \in Message
      BY <1>0, TextIsMessage
    <2> QED BY <1>0, <2>1 DEF EveryBlank
  <1>2. \A k \in 1 .. LastChannel + 1 : Text(InOrder[k], fits) \in Message
    BY <1>0, TextIsMessage
  <1>3. EveryText[fits] \in Seq(Message)
    <2>1. EveryText[fits] = [k \in 1 .. LastChannel + 1 |-> Text(InOrder[k], fits)]
      BY <1>0 DEF EveryText
    <2> QED BY <1>0, <1>2, <2>1
  <1>4. EveryClock[fits] \in Seq(Message)
    <2> DEFINE Q == Seq(Message)
               row == [k \in 1 .. LastChannel + 1 |-> <<Text(InOrder[k], fits), Text(InOrder[k], fits)>>]
    <2>1. EveryClock[fits] = FlattenSeq(row)
      BY <1>0 DEF EveryClock
    <2>2. \A k \in 1 .. LastChannel + 1 : <<Text(InOrder[k], fits), Text(InOrder[k], fits)>> \in Q
      BY <1>2
    <2>3. row \in Seq(Q)
      <3> HIDE DEF Q
      <3> QED BY <1>0, <2>2
    <2> HIDE DEF row
    <2> QED BY <2>1, <2>3, StrungType
  <1> QED BY <1>1, <1>3, <1>4, OnlyType DEF For

\* Whatever the connection is like, what reaches it are whole messages.
LEMMA Calls ==
    ASSUME FeedInv, NEW ms \in Seq(Message), osd_callback(ms)
    PROVE  \E x \in Seq(Piece) : Whole(x) /\ net' = net \o x
  <1>1. net \in Seq(Piece)
    BY DEF FeedInv
  <1>2. ASSUME net' = net PROVE \E x \in Seq(Piece) : Whole(x) /\ net' = net \o x
    <2>1. << >> \in Seq(Piece) /\ Whole(<< >>)
      BY DEF Whole
    <2>2. net' = net \o << >>
      BY <1>1, <1>2
    <2> QED BY <2>1, <2>2
  <1>3. ASSUME NEW s \in Seq(Message), Sends(s)
        PROVE  \E x \in Seq(Piece) : Whole(x) /\ net' = net \o x
    <2> DEFINE x == FlattenSeq([k \in DOMAIN s |-> Queue!Pieces(s[k])])
    <2>1. x \in Seq(Piece) /\ Whole(x)
      BY <1>3, PiecesOfMessages
    <2>2. CASE up
      <3>1. net' = net \o x
        BY <1>3, <2>2 DEF Sends
      <3> HIDE DEF x
      <3> QED BY <2>1, <3>1
    <2>3. CASE ~up
      <3>1. net' = net
        BY <1>3, <2>3 DEF Sends
      <3> QED BY <1>2, <3>1
    <2> QED BY <2>2, <2>3
  <1>4. ms # << >> => Tail(ms) \in Seq(Message)
    OBVIOUS
  <1>5. \/ Sends(ms)
        \/ ms # << >> /\ Sends(Tail(ms))
        \/ net' = net
    BY DEF osd_callback
  <1> QED BY <1>2, <1>3, <1>4, <1>5

\* A call of osd_callback puts messages behind the queue.
LEMMA CallStep ==
    ASSUME FeedInv, NEW ms \in Seq(Message), osd_callback(ms),
           ring' = ring, shown' = shown, clockFits' \in BOOLEAN
    PROVE  FeedInv' /\ Queue!Send
  <1>1. PICK x \in Seq(Piece) : Whole(x) /\ net' = net \o x
    BY Calls
  <1> QED BY <1>1, Sending

-----------------------------------------------------------------------------
(* Theorems.                                                               *)

\* Nothing is in transit at the start.
LEMMA FeedStarts == Init => FeedInv /\ Queue!Init
  <1> SUFFICES ASSUME Init PROVE FeedInv /\ Queue!Init
    OBVIOUS
  <1>1. ring = << >> /\ net = << >> /\ shown = << >> /\ clockFits = TRUE
    BY DEF Init
  <1>2. ring \o net = << >> /\ << >> \in Seq(Piece)
    BY <1>1
  <1>3. FeedInv
    BY <1>1, <1>2 DEF FeedInv, Whole
  <1>4. InTransit = << >>
    BY <1>2, InTransitIsOnly, OnlyNone
  <1> QED BY <1>1, <1>3, <1>4 DEF Queue!Init

\* Every step keeps the messages whole and is one of the queue, or none.
LEMMA FeedStep ==
    ASSUME FeedInv, [Next]_vars
    PROVE  FeedInv' /\ [Queue!Next]_(Queue!queueVars)
  <1> DEFINE Goal == FeedInv' /\ [Queue!Next]_(Queue!queueVars)
  <1>0. clockFits \in BOOLEAN
    BY DEF FeedInv
  <1>a. ASSUME FeedInv' /\ (Queue!Send \/ Queue!Lose \/ Queue!Show) PROVE Goal
    BY <1>a DEF Queue!Next
  <1>b. ASSUME ring' = ring, net' = net, shown' = shown, clockFits' \in BOOLEAN PROVE Goal
    <2>1. FeedInv'
      BY <1>b DEF FeedInv, Whole
    <2>2. InTransit' = InTransit
      BY <1>b DEF InTransit, Only, Header
    <2> QED BY <1>b, <2>1, <2>2 DEF Queue!queueVars
  <1>c. ASSUME NEW ms \in Seq(Message), osd_callback(ms), ring' = ring, shown' = shown,
               clockFits' \in BOOLEAN
        PROVE  Goal
    <2>1. FeedInv' /\ Queue!Send
      BY <1>c, CallStep
    <2> QED BY <1>a, <2>1
  <1> SUFFICES Goal
    BY DEF Goal
  <1> HIDE DEF Goal
  <1>1. CASE SetTime
    BY <1>0, <1>1, <1>b DEF SetTime, Command, server, link
  <1>2. ASSUME NEW fits \in BOOLEAN, SetRows(fits) PROVE Goal
    BY <1>2, <1>b DEF SetRows, Command, server, link
  <1>3. ASSUME NEW C, ClearRow(C) PROVE Goal
    <2>1. /\ osd_callback(For(C, EveryBlank)) /\ ring' = ring /\ shown' = shown
          /\ clockFits' = clockFits
      BY <1>3 DEF ClearRow, Command, server, board
    <2>2. For(C, EveryBlank) \in Seq(Message)
      BY <1>0, SomeMessages
    <2> QED BY <1>0, <1>c, <2>1, <2>2
  <1>4. ASSUME NEW C, NEW fits \in BOOLEAN, DrawText(C, fits) PROVE Goal
    <2>1. /\ osd_callback(For(C, EveryText[fits])) /\ ring' = ring /\ shown' = shown
          /\ clockFits' = clockFits
      BY <1>4 DEF DrawText, Command, server, board
    <2>2. For(C, EveryText[fits]) \in Seq(Message)
      BY SomeMessages
    <2> QED BY <1>0, <1>c, <2>1, <2>2
  <1>5. ASSUME NEW C, ClockOn(C) PROVE Goal
    BY <1>0, <1>5, <1>b DEF ClockOn, Command, server, link
  <1>6. ASSUME NEW C, ClockOff(C) PROVE Goal
    <2>1. /\ osd_callback(For(C, EveryClock[clockFits])) /\ ring' = ring /\ shown' = shown
          /\ clockFits' = clockFits
      BY <1>6 DEF ClockOff, Command, server
    <2>2. For(C, EveryClock[clockFits]) \in Seq(Message)
      BY <1>0, SomeMessages
    <2> QED BY <1>0, <1>c, <2>1, <2>2
  <1>7. CASE check_client
    <2> DEFINE C == {c \in Channels : clock[c] /\ timeSet}
    <2>1. /\ osd_callback(For(C, EveryClock[clockFits])) /\ ring' = ring /\ shown' = shown
          /\ clockFits' = clockFits
      BY <1>7 DEF check_client, server, board
    <2> HIDE DEF C
    <2>2. For(C, EveryClock[clockFits]) \in Seq(Message)
      BY <1>0, SomeMessages
    <2> QED BY <1>0, <1>c, <2>1, <2>2
  <1>8. CASE Read
    BY <1>8, <1>a, ReadStep
  <1>9. CASE TakeEnds
    BY <1>0, <1>9, <1>b DEF TakeEnds, board, link
  <1>10. CASE SkipByte
    <2>1. ring \in Seq(Piece) /\ ring # << >> /\ ring' = Tail(ring)
      BY <1>10 DEF SkipByte, Stray, FeedInv
    <2>2. Tail(ring) = SubSeq(ring, 1 + 1, Len(ring)) /\ 1 \in 0 .. Len(ring)
      <3>1. Tail(ring) = SubSeq(ring, 2, Len(ring))
        BY <2>1, TailIsSubSeq
      <3>2. 1 \in 0 .. Len(ring)
        BY <2>1
      <3> QED BY <3>1, <3>2
    <2>3. net' = net /\ shown' = shown /\ clockFits' = clockFits
      BY <1>10 DEF SkipByte, board, link
    <2> QED BY <1>a, <2>1, <2>2, <2>3, Drops
  <1>11. CASE Refuse
    <2>1. /\ ring' = SubSeq(ring, Wanted + 1, Len(ring)) /\ Len(ring) >= Wanted
          /\ net' = net /\ shown' = shown /\ clockFits' = clockFits
      BY <1>11 DEF Refuse, Complete, Behind, board, link
    <2>2. Wanted \in 1 .. 2 /\ Len(ring) \in Nat
      BY DEF Wanted, FeedInv
    <2>3. Wanted \in 0 .. Len(ring)
      BY <2>1, <2>2
    <2> QED BY <1>a, <2>1, <2>3, Drops
  <1>12. CASE Draw
    BY <1>12, <1>a, DrawStep
  <1>13. CASE ServerEnds
    <2>1. ring' = << >> /\ net' = << >> /\ shown' = shown /\ clockFits' = clockFits
      BY <1>13 DEF ServerEnds, board
    <2>2. ring \in Seq(Piece) /\ net \in Seq(Piece)
      BY DEF FeedInv
    <2>3. ring' \in Seq(Piece) /\ net' \in Seq(Piece) /\ ring \o net \in Seq(Piece)
      BY <2>1, <2>2
    <2>4. ring \o net = (ring \o net) \o (ring' \o net')
      BY <2>1, <2>2
    <2>5. FeedInv' /\ Queue!Lose
      BY <1>0, <2>1, <2>3, <2>4, Losing
    <2> QED BY <1>a, <2>5
  <1>14. CASE ServerStarts
    BY <1>0, <1>14, <1>b DEF ServerStarts, board, link
  <1>15. ASSUME NEW c \in Channels, StreamChanges(c) PROVE Goal
    BY <1>0, <1>15, <1>b DEF StreamChanges, board, link, server
  <1>16. CASE UNCHANGED vars
    BY <1>0, <1>16, <1>b DEF vars, board, link, server
  <1>17. CASE Package
    BY <1>1, <1>2, <1>3, <1>4, <1>5, <1>6, <1>17 DEF Package
  <1> QED BY <1>7, <1>8, <1>9, <1>10, <1>11, <1>12, <1>13, <1>14, <1>15, <1>16, <1>17
          DEF Next, osd_pic_receive

\* What is drawn are whole messages, in the order in which they were sent,
\* whatever the ring, the reads, the streams and the AV server do.
THEOREM ImplementsQueue == Spec => QueueSpec
  <1>1. FeedInv /\ [Next]_vars => FeedInv' /\ [Queue!Next]_(Queue!queueVars)
    BY FeedStep
  <1> QED BY <1>1, FeedStarts, PTL DEF Spec, QueueSpec, Queue!Spec

=============================================================================
