---------------------------- MODULE CsvUtilProofs ----------------------------
(***************************************************************************)
(* A reader of RFC 4180 gets back what tasksToCsv wrote, for texts of any     *)
(* characters and length, and any number of tasks.  What the reader and       *)
(* FlattenSeq do is defined by recursion: the first part gives their          *)
(* recursion equations and an induction on sequences; the second follows the  *)
(* reader through a cell, a line and a file.                                   *)
(***************************************************************************)
EXTENDS CsvUtil, SequenceTheorems, WellFoundedInduction, TLAPS

\* Induction on the natural numbers, with a set in the place of a formula.
LEMMA Induction ==
  ASSUME NEW G, 0 \in G, \A n \in Nat : n \in G => n + 1 \in G
  PROVE  \A n \in Nat : n \in G
<1> SUFFICES ASSUME {n \in Nat : n \notin G} # {} PROVE FALSE
  OBVIOUS
<1> DEFINE Bad == {n \in Nat : n \notin G}
<1>1. PICK n \in Bad : \A m \in Bad : ~(<<m, n>> \in OpToRel(<, Nat))
  BY WFMin, NatLessThanWellFounded
<1>2. n \in Nat /\ n # 0 /\ \A m \in Nat : m < n => m \in G
  BY <1>1 DEF OpToRel
<1>3. n - 1 \in Nat /\ n - 1 < n /\ (n - 1) + 1 = n
  BY <1>2
<1>. QED
  BY <1>2, <1>3

-----------------------------------------------------------------------------
(* Recursive functions *)

\* The functions that FlattenSeq and Scan define by recursion.
Joins(f, ss, n) == f = [i \in 1 .. n |-> IF i = 1 THEN ss[i] ELSE f[i - 1] \o ss[i]]
Reads(f, s, t, n) == f = [i \in 0 .. n |-> IF i = 0 THEN s ELSE ReadChar(f[i - 1], t[i])]

\* The function that FlattenSeq defines exists.
LEMMA FlattenExists ==
  ASSUME NEW ss
  PROVE  \A n \in Nat : \E f : Joins(f, ss, n)
<1> DEFINE H(f, i) == IF i = 1 THEN ss[i] ELSE f[i - 1] \o ss[i]
           G == {n \in Nat : \E f : f = [i \in 1 .. n |-> H(f, i)]}
<1>1. \A f, g, i : f[i - 1] = g[i - 1] \/ i = 1 => H(f, i) = H(g, i)
  OBVIOUS
<1> HIDE DEF H
<1>2. 0 \in G
  <2>1. [i \in 1 .. 0 |-> 0] = [i \in 1 .. 0 |-> H([j \in 1 .. 0 |-> 0], i)]
    OBVIOUS
  <2>. QED
    BY <2>1
<1>3. ASSUME NEW n \in Nat, n \in G PROVE n + 1 \in G
  <2>1. PICK f : f = [i \in 1 .. n |-> H(f, i)]
    BY <1>3
  <2> DEFINE g == [i \in 1 .. n + 1 |-> H(f, i)]
  <2>2. \A i \in 1 .. n : i \in 1 .. n + 1 /\ f[i] = H(f, i)
    BY <2>1
  <2>3. \A i \in 1 .. n : g[i] = f[i]
    BY <2>2
  <2>4. \A i \in 1 .. n + 1 : i = 1 \/ i - 1 \in 1 .. n
    OBVIOUS
  <2>5. \A i \in 1 .. n + 1 : i = 1 \/ g[i - 1] = f[i - 1]
    BY <2>3, <2>4
  <2>6. \A i \in 1 .. n + 1 : H(g, i) = H(f, i)
    <3> HIDE DEF g
    <3>. QED
      BY <2>5, <1>1, Zenon
  <2>7. g = [i \in 1 .. n + 1 |-> H(g, i)]
    BY <2>6
  <2>. QED
    BY <2>7, n + 1 \in Nat
<1>4. \A n \in Nat : n \in G
  <2> HIDE DEF G
  <2>. QED
    BY <1>2, <1>3, Induction
<1>. QED
  BY <1>4 DEF H, Joins

\* The states of a reader exist.
LEMMA ScanExists ==
  ASSUME NEW s, NEW t
  PROVE  \A n \in Nat : \E f : Reads(f, s, t, n)
<1> DEFINE H(f, i) == IF i = 0 THEN s ELSE ReadChar(f[i - 1], t[i])
           G == {n \in Nat : \E f : f = [i \in 0 .. n |-> H(f, i)]}
<1>1. \A f, g, i : f[i - 1] = g[i - 1] \/ i = 0 => H(f, i) = H(g, i)
  OBVIOUS
<1> HIDE DEF H
<1>2. 0 \in G
  <2> DEFINE g == [i \in 0 .. 0 |-> H([j \in 0 .. 0 |-> 0], i)]
  <2>1. \A i \in 0 .. 0 : H([j \in 0 .. 0 |-> 0], i) = H(g, i)
    BY <1>1
  <2>2. g = [i \in 0 .. 0 |-> H(g, i)]
    BY <2>1
  <2>. QED
    BY <2>2
<1>3. ASSUME NEW n \in Nat, n \in G PROVE n + 1 \in G
  <2>1. PICK f : f = [i \in 0 .. n |-> H(f, i)]
    BY <1>3
  <2> DEFINE g == [i \in 0 .. n + 1 |-> H(f, i)]
  <2>2. \A i \in 0 .. n : i \in 0 .. n + 1 /\ f[i] = H(f, i)
    BY <2>1
  <2>3. \A i \in 0 .. n : g[i] = f[i]
    BY <2>2
  <2>4. \A i \in 0 .. n + 1 : i = 0 \/ i - 1 \in 0 .. n
    OBVIOUS
  <2>5. \A i \in 0 .. n + 1 : i = 0 \/ g[i - 1] = f[i - 1]
    BY <2>3, <2>4
  <2>6. \A i \in 0 .. n + 1 : H(g, i) = H(f, i)
    <3> HIDE DEF g
    <3>. QED
      BY <2>5, <1>1, Zenon
  <2>7. g = [i \in 0 .. n + 1 |-> H(g, i)]
    BY <2>6
  <2>. QED
    BY <2>7, n + 1 \in Nat
<1>4. \A n \in Nat : n \in G
  <2> HIDE DEF G
  <2>. QED
    BY <1>2, <1>3, Induction
<1>. QED
  BY <1>4 DEF H, Reads

\* FlattenSeq and Scan by their recursion equations.
LEMMA FlattenIs ==
  ASSUME NEW ss, Len(ss) \in Nat \ {0}
  PROVE  \E f : /\ f[1] = ss[1]
                /\ \A i \in 1 .. Len(ss) - 1 : f[i + 1] = f[i] \o ss[i + 1]
                /\ FlattenSeq(ss) = f[Len(ss)]
<1> DEFINE n == Len(ss)
           f == CHOOSE f : Joins(f, ss, n)
<1>1. Joins(f, ss, n)
  BY FlattenExists
<1>2. FlattenSeq(ss) = f[n]
  BY DEF FlattenSeq, Joins
<1> HIDE DEF f
<1>3. \A i \in 1 .. n : f[i] = IF i = 1 THEN ss[i] ELSE f[i - 1] \o ss[i]
  BY <1>1 DEF Joins
<1>4. \A i \in 1 .. n - 1 : i + 1 \in 1 .. n /\ i + 1 # 1 /\ (i + 1) - 1 = i
  OBVIOUS
<1>5. \A i \in 1 .. n - 1 : f[i + 1] = f[i] \o ss[i + 1]
  BY <1>3, <1>4
<1>6. f[1] = ss[1]
  BY <1>3
<1>. QED
  BY <1>2, <1>5, <1>6

\* The states that a reader is in after each character of a text.
LEMMA ScanIs ==
  ASSUME NEW s, NEW t, Len(t) \in Nat
  PROVE  \E f : /\ f[0] = s
                /\ \A i \in 0 .. Len(t) - 1 : f[i + 1] = ReadChar(f[i], t[i + 1])
                /\ Scan(s, t) = f[Len(t)]
<1> DEFINE n == Len(t)
           f == CHOOSE f : Reads(f, s, t, n)
<1>1. Reads(f, s, t, n)
  BY ScanExists
<1>2. Scan(s, t) = f[n]
  BY DEF Scan, Reads
<1> HIDE DEF f
<1>3. \A i \in 0 .. n : f[i] = IF i = 0 THEN s ELSE ReadChar(f[i - 1], t[i])
  BY <1>1 DEF Reads
<1>4. \A i \in 0 .. n - 1 : i + 1 \in 0 .. n /\ i + 1 # 0 /\ (i + 1) - 1 = i
  OBVIOUS
<1>5. \A i \in 0 .. n - 1 : f[i + 1] = ReadChar(f[i], t[i + 1])
  BY <1>3, <1>4
<1>6. f[0] = s
  BY <1>3
<1>. QED
  BY <1>2, <1>5, <1>6

\* Nothing to flatten.
LEMMA FlattenEmpty == FlattenSeq(<<>>) = <<>>
BY DEF FlattenSeq

\* One more sequence to flatten is appended.
LEMMA FlattenAppend ==
  ASSUME NEW S, NEW ss \in Seq(Seq(S)), NEW x \in Seq(S)
  PROVE  FlattenSeq(Append(ss, x)) = FlattenSeq(ss) \o x
<1> DEFINE n == Len(ss)
           tt == Append(ss, x)
<1>1. /\ n \in Nat /\ tt \in Seq(Seq(S)) /\ Len(tt) = n + 1 /\ tt[n + 1] = x
      /\ \A i \in 1 .. n : tt[i] = ss[i]
  OBVIOUS
<1> HIDE DEF tt
<1>2. PICK g : /\ g[1] = tt[1]
               /\ \A i \in 1 .. n : g[i + 1] = g[i] \o tt[i + 1]
               /\ FlattenSeq(tt) = g[n + 1]
  <2>1. Len(tt) \in Nat \ {0} /\ Len(tt) - 1 = n
    BY <1>1
  <2>. QED
    BY <1>1, <2>1, FlattenIs
<1>3. CASE n = 0
  <2>1. ss = <<>>
    BY <1>3
  <2>2. FlattenSeq(tt) = x
    BY <1>1, <1>2, <1>3
  <2>. QED
    BY <2>1, <2>2, FlattenEmpty DEF tt
<1>4. CASE n # 0
  <2>1. PICK f : /\ f[1] = ss[1]
                 /\ \A i \in 1 .. n - 1 : f[i + 1] = f[i] \o ss[i + 1]
                 /\ FlattenSeq(ss) = f[n]
    BY <1>1, <1>4, FlattenIs
  <2> DEFINE G == {k \in Nat : k + 1 \in 1 .. n => f[k + 1] = g[k + 1]}
  <2>2. 0 \in G
    BY <1>1, <1>2, <2>1, <1>4
  <2>3. ASSUME NEW k \in Nat, k \in G PROVE k + 1 \in G
    <3>1. SUFFICES ASSUME (k + 1) + 1 \in 1 .. n PROVE f[(k + 1) + 1] = g[(k + 1) + 1]
      OBVIOUS
    <3>2. k + 1 \in 1 .. n - 1 /\ k + 1 \in 1 .. n
      BY <3>1, <1>1
    <3>3. f[k + 1] = g[k + 1]
      BY <2>3, <3>2
    <3>. QED
      BY <3>1, <3>2, <3>3, <1>1, <1>2, <2>1
  <2>4. \A k \in Nat : k \in G
    <3> HIDE DEF G
    <3>. QED
      BY <2>2, <2>3, Induction
  <2>5. n - 1 \in Nat /\ (n - 1) + 1 = n /\ n \in 1 .. n
    BY <1>1, <1>4
  <2>6. f[n] = g[n]
    BY <2>4, <2>5
  <2>7. FlattenSeq(tt) = g[n] \o x
    BY <1>1, <1>2, <2>5
  <2>. QED
    BY <2>1, <2>6, <2>7 DEF tt
<1>. QED
  BY <1>3, <1>4

\* A reader goes on from where it is: an empty text changes nothing.
LEMMA ScanEmpty ==
  ASSUME NEW s
  PROVE  Scan(s, <<>>) = s
<1>1. Len(<<>>) = 0
  OBVIOUS
<1>. QED
  BY <1>1, ScanIs

\* One more character is read in the state that the text before it leads to.
LEMMA ScanAppend ==
  ASSUME NEW s, NEW t \in Seq(Chars), NEW c \in Chars
  PROVE  Scan(s, Append(t, c)) = ReadChar(Scan(s, t), c)
<1> DEFINE n == Len(t)
           u == Append(t, c)
<1>1. n \in Nat /\ Len(u) = n + 1 /\ u[n + 1] = c /\ \A i \in 1 .. n : u[i] = t[i]
  OBVIOUS
<1> HIDE DEF u
<1>2. PICK f : /\ f[0] = s
               /\ \A i \in 0 .. n - 1 : f[i + 1] = ReadChar(f[i], t[i + 1])
               /\ Scan(s, t) = f[n]
  BY <1>1, ScanIs
<1>3. PICK g : /\ g[0] = s
               /\ \A i \in 0 .. n : g[i + 1] = ReadChar(g[i], u[i + 1])
               /\ Scan(s, u) = g[n + 1]
  <2>1. Len(u) \in Nat /\ Len(u) - 1 = n
    BY <1>1
  <2>. QED
    BY <1>1, <2>1, ScanIs
<1> DEFINE G == {k \in Nat : k \in 0 .. n => f[k] = g[k]}
<1>4. 0 \in G
  BY <1>1, <1>2, <1>3
<1>5. ASSUME NEW k \in Nat, k \in G PROVE k + 1 \in G
  <2>1. SUFFICES ASSUME k + 1 \in 0 .. n PROVE f[k + 1] = g[k + 1]
    OBVIOUS
  <2>2. k \in 0 .. n - 1 /\ k \in 0 .. n /\ k + 1 \in 1 .. n
    BY <2>1, <1>1
  <2>3. f[k] = g[k]
    BY <1>5, <2>2
  <2>. QED
    BY <2>2, <2>3, <1>1, <1>2, <1>3
<1>6. \A k \in Nat : k \in G
  <2> HIDE DEF G
  <2>. QED
    BY <1>4, <1>5, Induction
<1>7. f[n] = g[n] /\ g[n + 1] = ReadChar(g[n], c)
  BY <1>1, <1>3, <1>6
<1>. QED
  BY <1>2, <1>3, <1>7 DEF u

\* Induction on sequences, from the left to the right.
LEMMA SequenceInduction ==
  ASSUME NEW S, NEW G, <<>> \in G,
         \A t \in Seq(S), x \in S : t \in G => Append(t, x) \in G
  PROVE  \A t \in Seq(S) : t \in G
<1> DEFINE H == {n \in Nat : \A t \in Seq(S) : Len(t) = n => t \in G}
<1>1. 0 \in H
  BY EmptySeq
<1>2. ASSUME NEW n \in Nat, n \in H, NEW t \in Seq(S), Len(t) = n + 1
      PROVE  t \in G
  <2> DEFINE front == [i \in 1 .. n |-> t[i]]
  <2>1. front \in Seq(S) /\ Len(front) = n /\ t[n + 1] \in S
    BY <1>2
  <2>2. t = Append(front, t[n + 1])
    BY <1>2, <2>1
  <2> HIDE DEF front
  <2>3. front \in G
    BY <1>2, <2>1
  <2>. QED
    BY <2>1, <2>2, <2>3
<1>3. \A n \in Nat : n \in H => n + 1 \in H
  BY <1>2
<1>4. \A n \in Nat : n \in H
  <2> HIDE DEF H
  <2>. QED
    BY <1>1, <1>3, Induction
<1>. QED
  BY <1>4

\* FlattenSeq gives sequences of what its parts are sequences of.
LEMMA FlattenType ==
  ASSUME NEW S, NEW ss \in Seq(Seq(S))
  PROVE  FlattenSeq(ss) \in Seq(S)
<1> DEFINE G == {tt \in Seq(Seq(S)) : FlattenSeq(tt) \in Seq(S)}
<1>1. <<>> \in G
  BY FlattenEmpty, EmptySeq
<1>2. ASSUME NEW tt \in Seq(Seq(S)), NEW x \in Seq(S), tt \in G PROVE Append(tt, x) \in G
  <2>1. FlattenSeq(Append(tt, x)) = FlattenSeq(tt) \o x
    BY FlattenAppend
  <2>2. FlattenSeq(tt) \o x \in Seq(S)
    BY <1>2
  <2>3. Append(tt, x) \in Seq(Seq(S))
    BY AppendProperties
  <2>. QED
    BY <2>1, <2>2, <2>3
<1> HIDE DEF G
<1>3. \A tt \in Seq(Seq(S)) : tt \in G
  BY <1>1, <1>2, SequenceInduction
<1>. QED
  BY <1>3 DEF G

\* A text of one character.
LEMMA ScanOne ==
  ASSUME NEW s, NEW c \in Chars
  PROVE  Scan(s, <<c>>) = ReadChar(s, c)
<1>1. Append(<<>>, c) = <<c>> /\ <<>> \in Seq(Chars)
  OBVIOUS
<1>. QED
  BY <1>1, ScanAppend, ScanEmpty

\* A text of two characters.
LEMMA ScanTwo ==
  ASSUME NEW s, NEW c \in Chars, NEW d \in Chars
  PROVE  Scan(s, <<c, d>>) = ReadChar(ReadChar(s, c), d)
<1> DEFINE t == Append(<<c>>, d)
           u == <<c, d>>
<1>1. t \in Seq(Chars) /\ Len(t) = 2 /\ t[1] = c /\ t[2] = d /\ <<c>> \in Seq(Chars)
  OBVIOUS
<1>2. u \in Seq(Chars) /\ Len(u) = 2 /\ u[1] = c /\ u[2] = d
  OBVIOUS
<1> HIDE DEF t, u
<1>3. \A i \in 1 .. Len(t) : t[i] = u[i]
  BY <1>1, <1>2
<1>4. t = u
  BY <1>1, <1>2, <1>3, SeqEqual
<1>5. Scan(s, t) = ReadChar(Scan(s, <<c>>), d)
  BY <1>1, ScanAppend DEF t
<1>. QED
  BY <1>4, <1>5, ScanOne DEF u

\* A text and then another one.
LEMMA ScanConcat ==
  ASSUME NEW s, NEW t \in Seq(Chars), NEW u \in Seq(Chars)
  PROVE  Scan(s, t \o u) = Scan(Scan(s, t), u)
<1> DEFINE G == {v \in Seq(Chars) : Scan(s, t \o v) = Scan(Scan(s, t), v)}
<1>1. <<>> \in G
  <2>1. t \o <<>> = t
    OBVIOUS
  <2>. QED
    BY <2>1, ScanEmpty
<1>2. ASSUME NEW v \in Seq(Chars), NEW c \in Chars, v \in G PROVE Append(v, c) \in G
  <2>1. t \o Append(v, c) = Append(t \o v, c) /\ t \o v \in Seq(Chars) /\ Append(v, c) \in Seq(Chars)
    OBVIOUS
  <2>2. Scan(s, Append(t \o v, c)) = ReadChar(Scan(s, t \o v), c)
    BY <2>1, ScanAppend
  <2>3. Scan(Scan(s, t), Append(v, c)) = ReadChar(Scan(Scan(s, t), v), c)
    BY ScanAppend
  <2>. QED
    BY <1>2, <2>1, <2>2, <2>3
<1> HIDE DEF G
<1>3. \A v \in Seq(Chars) : v \in G
  BY <1>1, <1>2, SequenceInduction
<1>. QED
  BY <1>3 DEF G

-----------------------------------------------------------------------------
(* A cell *)

Mode == {"plain", "quoted", "closed"}
ReaderState ==
    [mode : Mode, cell : Seq(Chars), record : Seq(Seq(Chars)), rows : Seq(Seq(Seq(Chars)))]

\* The reader in the middle of a cell of which it has seen the text v.
In(s, m, v) == [s EXCEPT !.mode = m, !.cell = v]

\* The characters that mean something are five different ones.
LEMMA Marks ==
  /\ Quote \in Chars /\ Comma \in Chars /\ Cr \in Chars /\ Lf \in Chars /\ "x" \in Chars
  /\ Quote \notin {Comma, Cr, Lf} /\ Comma \notin {Cr, Lf} /\ Cr # Lf
BY CharsAssumption DEF Quote, Comma, Cr, Lf

\* In leaves a reader's state a state.
LEMMA InIsState ==
  ASSUME NEW s \in ReaderState, NEW m \in Mode, NEW v \in Seq(Chars)
  PROVE  /\ In(s, m, v) \in ReaderState
         /\ In(s, m, v).mode = m /\ In(s, m, v).cell = v
         /\ \A n \in Mode : \A w : In(In(s, m, v), n, w) = In(s, n, w)
BY DEF In, ReaderState

\* Doubled, one character at a time.
LEMMA DoubledAppend ==
  ASSUME NEW v \in Seq(Chars), NEW c \in Chars
  PROVE  /\ Doubled(v) \in Seq(Chars)
         /\ Doubled(Append(v, c)) = Doubled(v) \o (IF c = Quote THEN <<Quote, Quote>> ELSE <<c>>)
<1> DEFINE P(d) == IF d = Quote THEN <<Quote, Quote>> ELSE <<d>>
           F(w) == [i \in DOMAIN w |-> P(w[i])]
<1>1. \A d \in Chars : P(d) \in Seq(Chars)
  BY Marks
<1> HIDE DEF P
<1>2. ASSUME NEW w \in Seq(Chars) PROVE F(w) \in Seq(Seq(Chars)) /\ Len(F(w)) = Len(w)
  <2>1. Len(w) \in Nat /\ DOMAIN w = 1 .. Len(w) /\ \A i \in 1 .. Len(w) : P(w[i]) \in Seq(Chars)
    BY <1>1
  <2>. QED
    BY <2>1
<1>3. F(Append(v, c)) = Append(F(v), P(c))
  <2>1. Append(v, c) \in Seq(Chars) /\ Append(F(v), P(c)) \in Seq(Seq(Chars))
    BY <1>1, <1>2
  <2>2. Len(F(Append(v, c))) = Len(Append(F(v), P(c)))
    BY <1>1, <1>2
  <2>3. \A i \in 1 .. Len(v) + 1 : F(Append(v, c))[i] = Append(F(v), P(c))[i]
    BY <1>1, <1>2
  <2>. QED
    BY <2>1, <2>2, <2>3, <1>2, SeqEqual
<1>4. Doubled(v) = FlattenSeq(F(v)) /\ Doubled(Append(v, c)) = FlattenSeq(F(Append(v, c)))
  BY DEF Doubled, P
<1>5. FlattenSeq(F(v)) \in Seq(Chars)
  BY <1>2, FlattenType
<1>6. FlattenSeq(Append(F(v), P(c))) = FlattenSeq(F(v)) \o P(c)
  BY <1>1, <1>2, FlattenAppend
<1>. QED
  BY <1>3, <1>4, <1>5, <1>6 DEF P

\* Between the quotes a reader takes what Doubled wrote for the text it came from.
LEMMA QuotedScan ==
  ASSUME NEW s \in ReaderState, NEW v \in Seq(Chars)
  PROVE  Scan(In(s, "quoted", <<>>), Doubled(v)) = In(s, "quoted", v)
<1> DEFINE G == {w \in Seq(Chars) : Scan(In(s, "quoted", <<>>), Doubled(w)) = In(s, "quoted", w)}
<1>1. <<>> \in G
  <2>1. Doubled(<<>>) = <<>>
    BY FlattenEmpty DEF Doubled
  <2>. QED
    BY <2>1, ScanEmpty
<1>2. ASSUME NEW w \in Seq(Chars), NEW c \in Chars, w \in G PROVE Append(w, c) \in G
  <2> DEFINE p == IF c = Quote THEN <<Quote, Quote>> ELSE <<c>>
             r == In(s, "quoted", w)
  <2>1. p \in Seq(Chars)
    BY Marks
  <2>2. Scan(In(s, "quoted", <<>>), Doubled(Append(w, c))) = Scan(r, p)
    <3>1. Doubled(w) \in Seq(Chars) /\ Doubled(Append(w, c)) = Doubled(w) \o p
      BY DoubledAppend
    <3>2. Scan(In(s, "quoted", <<>>), Doubled(w) \o p) = Scan(Scan(In(s, "quoted", <<>>), Doubled(w)), p)
      BY <2>1, <3>1, ScanConcat, ZenonT(40)
    <3>. QED
      BY <1>2, <3>1, <3>2
  <2>3. Scan(r, p) = In(s, "quoted", Append(w, c))
    <3>1. r \in ReaderState /\ r.mode = "quoted" /\ r.cell = w
      BY InIsState DEF Mode
    <3>2. CASE c = Quote
      <4>1. Scan(r, p) = ReadChar(ReadChar(r, Quote), Quote)
        BY <3>2, Marks, ScanTwo
      <4>2. ReadChar(r, Quote) = In(s, "closed", w)
        BY <3>1 DEF ReadChar, In, ReaderState
      <4>3. ReadChar(In(s, "closed", w), Quote) = In(s, "quoted", Append(w, Quote))
        <5> DEFINE q == In(s, "closed", w)
        <5>1. q \in ReaderState /\ q.mode = "closed" /\ q.cell = w
          BY InIsState DEF Mode
        <5>2. ReadChar(q, Quote) = [Take(q, Quote) EXCEPT !.mode = "quoted"]
          BY <5>1, Marks DEF ReadChar
        <5>3. [Take(q, Quote) EXCEPT !.mode = "quoted"] = In(s, "quoted", Append(w, Quote))
          BY <5>1 DEF Take, In, ReaderState
        <5>. QED
          BY <5>2, <5>3
      <4>. QED
        BY <4>1, <4>2, <4>3, <3>2
    <3>3. CASE c # Quote
      <4>1. Scan(r, p) = ReadChar(r, c)
        BY <3>3, ScanOne
      <4>2. ReadChar(r, c) = In(s, "quoted", Append(w, c))
        BY <3>1, <3>3 DEF ReadChar, In, ReaderState, Take
      <4>. QED
        BY <4>1, <4>2
    <3>. QED
      BY <3>2, <3>3
  <2>. QED
    BY <2>2, <2>3
<1> HIDE DEF G
<1>3. \A w \in Seq(Chars) : w \in G
  BY <1>1, <1>2, SequenceInduction
<1>. QED
  BY <1>3 DEF G

\* Without quotes it takes a text without separators as it is.
LEMMA PlainScan ==
  ASSUME NEW s \in ReaderState, NEW v \in Seq(Chars), ~Occurs({Quote, Comma, Cr, Lf}, v)
  PROVE  Scan(In(s, "plain", <<>>), v) = In(s, "plain", v)
<1> DEFINE Plain(w) == ~Occurs({Quote, Comma, Cr, Lf}, w)
           G == {w \in Seq(Chars) : Plain(w) => Scan(In(s, "plain", <<>>), w) = In(s, "plain", w)}
<1>1. <<>> \in G
  BY ScanEmpty
<1>2. ASSUME NEW w \in Seq(Chars), NEW c \in Chars, w \in G PROVE Append(w, c) \in G
  <2>1. SUFFICES ASSUME Plain(Append(w, c))
                 PROVE  Scan(In(s, "plain", <<>>), Append(w, c)) = In(s, "plain", Append(w, c))
    OBVIOUS
  <2>2. Plain(w) /\ c \notin {Quote, Comma, Cr, Lf}
    <3>1. /\ DOMAIN Append(w, c) = 1 .. Len(w) + 1 /\ DOMAIN w = 1 .. Len(w)
          /\ Append(w, c)[Len(w) + 1] = c /\ Len(w) + 1 \in 1 .. Len(w) + 1
          /\ \A i \in 1 .. Len(w) : Append(w, c)[i] = w[i] /\ i \in 1 .. Len(w) + 1
      OBVIOUS
    <3>. QED
      BY <2>1, <3>1 DEF Occurs
  <2>3. Scan(In(s, "plain", <<>>), Append(w, c)) = ReadChar(In(s, "plain", w), c)
    BY <1>2, <2>2, ScanAppend
  <2>4. ReadChar(In(s, "plain", w), c) = In(s, "plain", Append(w, c))
    BY <2>2 DEF ReadChar, In, ReaderState, Take
  <2>. QED
    BY <2>3, <2>4
<1> HIDE DEF G
<1>3. \A w \in Seq(Chars) : w \in G
  BY <1>1, <1>2, SequenceInduction
<1>. QED
  BY <1>3 DEF G

\* escape gives texts.
LEMMA EscapeType ==
  ASSUME NEW v \in Seq(Chars)
  PROVE  Doubled(v) \in Seq(Chars) /\ Escape(v) \in Seq(Chars)
<1>1. Quote \in Chars /\ <<Quote>> \in Seq(Chars)
  BY Marks
<1>2. Doubled(v) \in Seq(Chars)
  BY <1>1, DoubledAppend
<1>. QED
  BY <1>1, <1>2 DEF Escape

\* Whatever a cell says, a reader at its begin has it at its end.
LEMMA CellScan ==
  ASSUME NEW s \in ReaderState, NEW v \in Seq(Chars)
  PROVE  \E m \in {"plain", "closed"} : Scan(In(s, "plain", <<>>), Escape(v)) = In(s, m, v)
<1>1. CASE ~Occurs({Quote, Comma, Cr, Lf}, v)
  BY <1>1, PlainScan DEF Escape
<1>2. CASE Occurs({Quote, Comma, Cr, Lf}, v)
  <2> DEFINE d == Doubled(v)
             q == <<Quote>>
             r == In(s, "plain", <<>>)
  <2>1. q \in Seq(Chars) /\ d \in Seq(Chars) /\ Escape(v) = (q \o d) \o q
    BY <1>2, Marks, EscapeType DEF Escape
  <2> HIDE DEF d
  <2>2. q \o d \in Seq(Chars) /\ (q \o d) \o q \in Seq(Chars)
    BY <2>1
  <2>3. Scan(r, (q \o d) \o q) = Scan(Scan(Scan(r, q), d), q)
    <3> HIDE DEF q, r
    <3>1. Scan(r, (q \o d) \o q) = Scan(Scan(r, q \o d), q)
      BY <2>1, <2>2, ScanConcat
    <3>2. Scan(r, q \o d) = Scan(Scan(r, q), d)
      BY <2>1, ScanConcat
    <3>. QED
      BY <3>1, <3>2
  <2>4. Scan(r, q) = In(s, "quoted", <<>>)
    <3>1. r.mode = "plain" /\ r.cell = <<>>
      BY DEF In, ReaderState
    <3>2. ReadChar(r, Quote) = [r EXCEPT !.mode = "quoted"]
      BY <3>1, Marks DEF ReadChar
    <3>3. [r EXCEPT !.mode = "quoted"] = In(s, "quoted", <<>>)
      BY DEF In, ReaderState
    <3>. QED
      BY <3>2, <3>3, Marks, ScanOne
  <2>5. Scan(Scan(r, q), d) = In(s, "quoted", v)
    BY <2>4, QuotedScan DEF d
  <2>6. Scan(In(s, "quoted", v), q) = In(s, "closed", v)
    <3>1. ReadChar(In(s, "quoted", v), Quote) = In(s, "closed", v)
      BY DEF ReadChar, In, ReaderState
    <3>. QED
      BY <3>1, Marks, ScanOne
  <2>. QED
    BY <2>1, <2>2, <2>3, <2>5, <2>6
<1>. QED
  BY <1>1, <1>2

\* A reader that has read the cells of a record, and one that has read a whole one.
WithRecord(s, record) == [s EXCEPT !.record = record]
WithRow(s, record) == [s EXCEPT !.record = <<>>, !.rows = Append(s.rows, record)]

\* What ends a cell and a line, at the end of the text of a cell.
LEMMA Separators ==
  ASSUME NEW s \in ReaderState, NEW m \in {"plain", "closed"}, NEW v \in Seq(Chars)
  PROVE  /\ ReadChar(In(s, m, v), Comma) =
               In(WithRecord(s, Append(s.record, v)), "plain", <<>>)
         /\ ReadChar(In(s, m, v), Cr) = In(s, m, v)
         /\ ReadChar(In(s, m, v), Lf) =
               In(WithRow(s, Append(s.record, v)), "plain", <<>>)
<1> DEFINE r == In(s, m, v)
<1>1. /\ r \in ReaderState /\ r.mode = m /\ r.cell = v /\ r.mode # "quoted"
      /\ r.record = s.record /\ r.rows = s.rows
  BY InIsState DEF Mode, In, ReaderState
<1>2. ReadChar(r, Comma) = EndCell(r) /\ ReadChar(r, Cr) = r /\ ReadChar(r, Lf) = EndRow(r)
  BY <1>1, Marks DEF ReadChar
<1>3. EndCell(r) = In(WithRecord(s, Append(s.record, v)), "plain", <<>>)
  BY <1>1 DEF EndCell, In, ReaderState, WithRecord
<1>4. EndRow(r) = In(WithRow(s, Append(s.record, v)), "plain", <<>>)
  BY <1>1 DEF EndRow, EndCell, In, ReaderState, WithRow
<1>. QED
  BY <1>2, <1>3, <1>4

-----------------------------------------------------------------------------
(* A line *)

Record == {r \in Seq(Seq(Chars)) : r # <<>>}

\* The cells of a line after the first one, each after its comma.
Others(r, k) == [i \in 1 .. k |-> <<Comma>> \o Escape(r[i + 1])]

\* The cells after the first one, one more at a time.
LEMMA OthersAppend ==
  ASSUME NEW r \in Record
  PROVE  /\ Len(r) \in Nat \ {0}
         /\ \A i \in 1 .. Len(r) : r[i] \in Seq(Chars) /\ Escape(r[i]) \in Seq(Chars)
         /\ Others(r, 0) = <<>>
         /\ \A k \in 0 .. Len(r) - 1 : Others(r, k) \in Seq(Seq(Chars))
         /\ \A k \in 0 .. Len(r) - 2 :
               Others(r, k + 1) = Append(Others(r, k), <<Comma>> \o Escape(r[k + 2]))
<1>1. r \in Seq(Seq(Chars)) /\ Len(r) \in Nat \ {0}
  <2>1. r \in Seq(Seq(Chars)) /\ r # <<>>
    BY DEF Record
  <2>. QED
    BY <2>1, EmptySeq
<1>2. ASSUME NEW i \in 1 .. Len(r) PROVE r[i] \in Seq(Chars) /\ Escape(r[i]) \in Seq(Chars)
  <2>1. r[i] \in Seq(Chars)
    BY <1>1, ElementOfSeq
  <2>. QED
    BY <2>1, EscapeType
<1>3. \A i \in 1 .. Len(r) - 1 : <<Comma>> \o Escape(r[i + 1]) \in Seq(Chars)
  BY <1>1, <1>2, Marks
<1>4. Others(r, 0) = <<>>
  BY DEF Others
<1>5. ASSUME NEW j \in 0 .. Len(r) - 1
      PROVE  Others(r, j) \in Seq(Seq(Chars)) /\ Len(Others(r, j)) = j
  <2>1. j \in Nat /\ \A i \in 1 .. j : i \in 1 .. Len(r) - 1
    BY <1>1
  <2>. QED
    BY <2>1, <1>3 DEF Others
<1>6. ASSUME NEW k \in 0 .. Len(r) - 2
      PROVE  Others(r, k + 1) = Append(Others(r, k), <<Comma>> \o Escape(r[k + 2]))
  <2> DEFINE x == <<Comma>> \o Escape(r[k + 2])
             t == Append(Others(r, k), x)
             u == Others(r, k + 1)
  <2>1. /\ k \in Nat /\ k \in 0 .. Len(r) - 1 /\ k + 1 \in 0 .. Len(r) - 1
        /\ k + 1 \in 1 .. Len(r) - 1 /\ (k + 1) + 1 = k + 2
    BY <1>1
  <2>2. x \in Seq(Chars)
    BY <1>3, <2>1
  <2>3. u \in Seq(Seq(Chars)) /\ Len(u) = k + 1
    BY <1>5, <2>1
  <2>4. \A i \in 1 .. k : u[i] = Others(r, k)[i]
    BY <2>1 DEF Others
  <2>5. u[k + 1] = x
    BY <2>1 DEF Others
  <2> HIDE DEF x, u
  <2>6. /\ t \in Seq(Seq(Chars)) /\ Len(t) = k + 1 /\ t[k + 1] = x
        /\ \A i \in 1 .. k : t[i] = Others(r, k)[i]
    BY <1>5, <2>1, <2>2
  <2> HIDE DEF t
  <2>7. \A i \in 1 .. Len(u) : u[i] = t[i]
    BY <2>1, <2>3, <2>4, <2>5, <2>6
  <2>8. u = t
    BY <2>3, <2>6, <2>7, SeqEqual
  <2>. QED
    BY <2>8 DEF t, x, u
<1>. QED
  BY <1>1, <1>2, <1>4, <1>5, <1>6

\* A line without its CRLF, up to the cell k + 1.
LineTo(r, k) == Escape(r[1]) \o FlattenSeq(Others(r, k))

\* The next cell of a line is read after its comma.
LEMMA LineToNext ==
  ASSUME NEW r \in Record
  PROVE  /\ LineTo(r, 0) = Escape(r[1])
         /\ \A k \in 0 .. Len(r) - 1 : LineTo(r, k) \in Seq(Chars)
         /\ \A k \in 0 .. Len(r) - 2 : \A s :
               Scan(s, LineTo(r, k + 1)) = Scan(Scan(Scan(s, LineTo(r, k)), <<Comma>>), Escape(r[k + 2]))
<1> DEFINE first == Escape(r[1])
<1>1. first \in Seq(Chars) /\ Len(r) \in Nat \ {0}
  BY OthersAppend
<1>2. ASSUME NEW k \in 0 .. Len(r) - 1 PROVE FlattenSeq(Others(r, k)) \in Seq(Chars)
  BY OthersAppend, FlattenType
<1> HIDE DEF first
<1>3. LineTo(r, 0) = first
  BY <1>1, OthersAppend, FlattenEmpty DEF LineTo, first
<1>4. ASSUME NEW k \in 0 .. Len(r) - 1 PROVE LineTo(r, k) \in Seq(Chars)
  BY <1>1, <1>2 DEF LineTo, first
<1>5. ASSUME NEW k \in 0 .. Len(r) - 2, NEW s
      PROVE  Scan(s, LineTo(r, k + 1)) = Scan(Scan(Scan(s, LineTo(r, k)), <<Comma>>), Escape(r[k + 2]))
  <2> DEFINE f == FlattenSeq(Others(r, k))
             c == <<Comma>>
             e == Escape(r[k + 2])
  <2>1. k \in 0 .. Len(r) - 1 /\ k + 2 \in 1 .. Len(r)
    BY <1>1
  <2>2. f \in Seq(Chars) /\ c \in Seq(Chars) /\ e \in Seq(Chars)
    BY <1>2, <2>1, OthersAppend, Marks
  <2>3. c \o e \in Seq(Chars)
    BY <2>2
  <2>4. FlattenSeq(Others(r, k + 1)) = f \o (c \o e)
    BY <2>1, <2>3, OthersAppend, FlattenAppend
  <2> HIDE DEF f, c, e
  <2>5. LineTo(r, k + 1) = first \o (f \o (c \o e)) /\ LineTo(r, k) = first \o f
    BY <2>4 DEF LineTo, first, f
  <2>6. f \o (c \o e) \in Seq(Chars)
    BY <2>2, <2>3
  <2>7. Scan(s, first \o (f \o (c \o e))) = Scan(Scan(s, first), f \o (c \o e))
    BY <1>1, <2>6, ScanConcat
  <2>8. Scan(Scan(s, first), f \o (c \o e)) = Scan(Scan(Scan(s, first), f), c \o e)
    BY <2>2, <2>3, ScanConcat
  <2>9. Scan(Scan(Scan(s, first), f), c \o e) = Scan(Scan(Scan(Scan(s, first), f), c), e)
    BY <2>2, ScanConcat
  <2>10. Scan(s, first \o f) = Scan(Scan(s, first), f)
    BY <1>1, <2>2, ScanConcat
  <2>. QED
    BY <2>5, <2>7, <2>8, <2>9, <2>10 DEF c, e
<1>. QED
  BY <1>3, <1>4, <1>5 DEF first

\* The reader at the first character of the cell k + 1 of a line.
Before(s, r, k) == WithRecord(s, SubSeq(r, 1, k))

\* The cells that a reader has of a record, one more at a time.
LEMMA BeforeNext ==
  ASSUME NEW s \in ReaderState, s.record = <<>>, NEW r \in Record
  PROVE  /\ Before(s, r, 0) = s
         /\ \A k \in 0 .. Len(r) : /\ Before(s, r, k) \in ReaderState
                                   /\ Before(s, r, k).record = SubSeq(r, 1, k)
         /\ \A k \in 0 .. Len(r) - 1 :
               /\ Append(SubSeq(r, 1, k), r[k + 1]) = SubSeq(r, 1, k + 1)
               /\ WithRecord(Before(s, r, k), Append(SubSeq(r, 1, k), r[k + 1]))
                     = Before(s, r, k + 1)
               /\ WithRow(Before(s, r, k), Append(SubSeq(r, 1, k), r[k + 1]))
                     = WithRow(s, SubSeq(r, 1, k + 1))
<1>1. r \in Seq(Seq(Chars)) /\ Len(r) \in Nat
  BY OthersAppend DEF Record
<1>2. ASSUME NEW k \in 0 .. Len(r) PROVE SubSeq(r, 1, k) \in Seq(Seq(Chars))
  BY <1>1
<1>3. SubSeq(r, 1, 0) = <<>>
  BY <1>1
<1>4. ASSUME NEW k \in 0 .. Len(r) - 1 PROVE Append(SubSeq(r, 1, k), r[k + 1]) = SubSeq(r, 1, k + 1)
  BY <1>1
<1>5. ASSUME NEW k \in 0 .. Len(r)
      PROVE  Before(s, r, k) \in ReaderState /\ Before(s, r, k).record = SubSeq(r, 1, k)
  BY <1>2 DEF Before, WithRecord, ReaderState
<1>6. Before(s, r, 0) = s
  BY <1>3 DEF Before, WithRecord, ReaderState
<1>7. ASSUME NEW k \in 0 .. Len(r) - 1
      PROVE  WithRecord(Before(s, r, k), Append(SubSeq(r, 1, k), r[k + 1])) = Before(s, r, k + 1)
  BY <1>4 DEF Before, WithRecord, ReaderState
<1>8. ASSUME NEW k \in 0 .. Len(r) - 1
      PROVE  WithRow(Before(s, r, k), Append(SubSeq(r, 1, k), r[k + 1])) = WithRow(s, SubSeq(r, 1, k + 1))
  BY <1>4 DEF Before, WithRecord, WithRow, ReaderState
<1>. QED
  BY <1>4, <1>5, <1>6, <1>7, <1>8

\* The cells of a line up to its CRLF, one more at a time.
LEMMA CellsScan ==
  ASSUME NEW s \in ReaderState, s.record = <<>>, NEW r \in Record, NEW k \in 0 .. Len(r) - 1
  PROVE  \E m \in {"plain", "closed"} :
            Scan(In(s, "plain", <<>>), LineTo(r, k)) = In(Before(s, r, k), m, r[k + 1])
<1> DEFINE Follows(j) == \E m \in {"plain", "closed"} :
                          Scan(In(s, "plain", <<>>), LineTo(r, j)) = In(Before(s, r, j), m, r[j + 1])
           G == {j \in Nat : j < Len(r) => Follows(j)}
<1>1. Len(r) \in Nat \ {0} /\ \A i \in 1 .. Len(r) : r[i] \in Seq(Chars)
  BY OthersAppend
<1>2. Follows(0)
  <2>1. r[1] \in Seq(Chars) /\ LineTo(r, 0) = Escape(r[1]) /\ Before(s, r, 0) = s
    BY <1>1, LineToNext, BeforeNext
  <2>2. \E m \in {"plain", "closed"} : Scan(In(s, "plain", <<>>), Escape(r[1])) = In(s, m, r[1])
    BY <2>1, CellScan
  <2>. QED
    BY <2>1, <2>2
<1>3. ASSUME NEW j \in 0 .. Len(r) - 2, Follows(j) PROVE Follows(j + 1)
  <2> DEFINE b == In(s, "plain", <<>>)
             n == Before(s, r, j + 1)
  <2>1. /\ j \in 0 .. Len(r) - 1 /\ j \in 0 .. Len(r) /\ j + 1 \in 0 .. Len(r)
        /\ j + 1 \in 1 .. Len(r) /\ j + 2 \in 1 .. Len(r) /\ (j + 1) + 1 = j + 2
    BY <1>1
  <2>2. PICK m \in {"plain", "closed"} : Scan(b, LineTo(r, j)) = In(Before(s, r, j), m, r[j + 1])
    BY <1>3
  <2>3. ReadChar(In(Before(s, r, j), m, r[j + 1]), Comma) = In(n, "plain", <<>>)
    <3>1. Before(s, r, j) \in ReaderState /\ Before(s, r, j).record = SubSeq(r, 1, j)
      BY <2>1, BeforeNext
    <3>2. r[j + 1] \in Seq(Chars)
      BY <1>1, <2>1
    <3>3. WithRecord(Before(s, r, j), Append(SubSeq(r, 1, j), r[j + 1])) = n
      BY <2>1, BeforeNext
    <3> HIDE DEF n
    <3>. QED
      BY <3>1, <3>2, <3>3, Separators, ZenonT(40)
  <2>4. Scan(b, LineTo(r, j + 1)) = Scan(In(n, "plain", <<>>), Escape(r[j + 2]))
    <3>1. Scan(b, LineTo(r, j + 1)) = Scan(Scan(Scan(b, LineTo(r, j)), <<Comma>>), Escape(r[j + 2]))
      BY LineToNext
    <3>. QED
      BY <2>2, <2>3, <3>1, Marks, ScanOne
  <2>5. n \in ReaderState /\ r[j + 2] \in Seq(Chars)
    BY <1>1, <2>1, BeforeNext
  <2>6. \E l \in {"plain", "closed"} :
           Scan(In(n, "plain", <<>>), Escape(r[j + 2])) = In(n, l, r[j + 2])
    <3> HIDE DEF n
    <3>. QED
      BY <2>5, CellScan
  <2>. QED
    BY <2>1, <2>4, <2>6
<1>4. \A j \in Nat : j \in G
  <2> HIDE DEF Follows
  <2>1. 0 \in G
    BY <1>1, <1>2
  <2>2. ASSUME NEW j \in Nat, j \in G PROVE j + 1 \in G
    BY <1>1, <1>3, <2>2
  <2> HIDE DEF G
  <2>. QED
    BY <2>1, <2>2, Induction
<1>5. k \in Nat /\ k < Len(r)
  BY <1>1
<1>. QED
  BY <1>4, <1>5

\* A line is read as the record it was written for.
LEMMA LineScan ==
  ASSUME NEW s \in ReaderState, s.record = <<>>, NEW r \in Record
  PROVE  /\ Line(r) \in Seq(Chars)
         /\ WithRow(s, r) \in ReaderState
         /\ Scan(In(s, "plain", <<>>), Line(r)) = In(WithRow(s, r), "plain", <<>>)
<1> DEFINE k == Len(r) - 1
           t == LineTo(r, k)
           b == Before(s, r, k)
<1>1. /\ r \in Seq(Seq(Chars)) /\ Len(r) \in Nat \ {0} /\ k \in 0 .. Len(r) - 1 /\ k + 1 = Len(r)
      /\ k \in 0 .. Len(r) /\ r[k + 1] \in Seq(Chars)
  BY OthersAppend DEF Record
<1>2. Line(r) = t \o <<Cr, Lf>>
  BY DEF Line, LineTo, Others
<1>3. t \in Seq(Chars) /\ <<Cr, Lf>> \in Seq(Chars)
  BY <1>1, LineToNext, Marks
<1>4. PICK m \in {"plain", "closed"} : Scan(In(s, "plain", <<>>), t) = In(b, m, r[k + 1])
  BY <1>1, CellsScan
<1>5. /\ b \in ReaderState /\ b.record = SubSeq(r, 1, k)
      /\ WithRow(b, Append(SubSeq(r, 1, k), r[k + 1])) = WithRow(s, SubSeq(r, 1, k + 1))
  BY <1>1, BeforeNext
<1>6. SubSeq(r, 1, k + 1) = r
  BY <1>1
<1>7. WithRow(s, r) \in ReaderState
  <2>1. <<>> \in Seq(Seq(Chars)) /\ Append(s.rows, r) \in Seq(Seq(Seq(Chars)))
    BY <1>1, EmptySeq, AppendProperties DEF ReaderState
  <2>. QED
    BY <2>1 DEF WithRow, ReaderState
<1> HIDE DEF t, b, k
<1>8. ReadChar(ReadChar(In(b, m, r[k + 1]), Cr), Lf) = In(WithRow(s, r), "plain", <<>>)
  <2> DEFINE v == r[k + 1]
  <2>1. v \in Seq(Chars) /\ WithRow(b, Append(b.record, v)) = WithRow(s, r)
    BY <1>1, <1>5, <1>6
  <2> HIDE DEF v
  <2>2. ReadChar(In(b, m, v), Cr) = In(b, m, v)
    BY <1>5, <2>1, Separators
  <2>3. ReadChar(In(b, m, v), Lf) = In(WithRow(b, Append(b.record, v)), "plain", <<>>)
    BY <1>5, <2>1, Separators
  <2>. QED
    BY <2>1, <2>2, <2>3 DEF v
<1>9. Scan(In(s, "plain", <<>>), t \o <<Cr, Lf>>) = In(WithRow(s, r), "plain", <<>>)
  <2> DEFINE i == In(s, "plain", <<>>)
             e == In(b, m, r[k + 1])
             u == <<Cr, Lf>>
  <2>1. Scan(i, t \o u) = Scan(Scan(i, t), u)
    <3> HIDE DEF i, u
    <3>. QED
      BY <1>3, ScanConcat DEF u
  <2>2. Scan(e, u) = ReadChar(ReadChar(e, Cr), Lf)
    <3> HIDE DEF e
    <3>. QED
      BY Marks, ScanTwo
  <2>. QED
    BY <1>4, <1>8, <2>1, <2>2
<1>10. Line(r) \in Seq(Chars)
  BY <1>2, <1>3
<1>. QED
  BY <1>2, <1>7, <1>9, <1>10

-----------------------------------------------------------------------------
(* A file *)

\* What is written for the records one after the other.
File(rows) == FlattenSeq([i \in DOMAIN rows |-> Line(rows[i])])

\* One more line.
LEMMA FileAppend ==
  ASSUME NEW rows \in Seq(Record), NEW r \in Record
  PROVE  /\ File(rows) \in Seq(Chars)
         /\ File(Append(rows, r)) = File(rows) \o Line(r)
<1> DEFINE F(rr) == [i \in DOMAIN rr |-> Line(rr[i])]
<1>1. \A q \in Record : Line(q) \in Seq(Chars)
  <2>1. Begin \in ReaderState /\ Begin.record = <<>>
    BY DEF Begin, ReaderState, Mode
  <2>. QED
    BY <2>1, LineScan
<1>2. ASSUME NEW rr \in Seq(Record) PROVE F(rr) \in Seq(Seq(Chars)) /\ Len(F(rr)) = Len(rr)
  <2>1. Len(rr) \in Nat /\ DOMAIN rr = 1 .. Len(rr) /\ \A i \in 1 .. Len(rr) : Line(rr[i]) \in Seq(Chars)
    BY <1>1
  <2>. QED
    BY <2>1
<1>3. F(Append(rows, r)) = Append(F(rows), Line(r))
  <2>1. Append(rows, r) \in Seq(Record) /\ Append(F(rows), Line(r)) \in Seq(Seq(Chars))
    BY <1>1, <1>2
  <2>2. Len(F(Append(rows, r))) = Len(Append(F(rows), Line(r)))
    BY <1>1, <1>2
  <2>3. \A i \in 1 .. Len(rows) + 1 : F(Append(rows, r))[i] = Append(F(rows), Line(r))[i]
    BY <1>1, <1>2
  <2>. QED
    BY <2>1, <2>2, <2>3, <1>2, SeqEqual
<1>4. File(rows) = FlattenSeq(F(rows)) /\ File(Append(rows, r)) = FlattenSeq(F(Append(rows, r)))
  BY DEF File
<1>5. FlattenSeq(F(rows)) \in Seq(Chars)
  BY <1>2, FlattenType
<1>6. FlattenSeq(Append(F(rows), Line(r))) = FlattenSeq(F(rows)) \o Line(r)
  BY <1>1, <1>2, FlattenAppend
<1>. QED
  BY <1>3, <1>4, <1>5, <1>6

\* The reader at the first character of the line after some.
After(rows) == [mode |-> "plain", cell |-> <<>>, record |-> <<>>, rows |-> rows]

\* The reader's states between the lines of a file.
LEMMA AfterNext ==
  /\ After(<<>>) = Begin
  /\ \A rows \in Seq(Record) : /\ After(rows) \in ReaderState /\ After(rows).record = <<>>
                               /\ In(After(rows), "plain", <<>>) = After(rows)
  /\ \A rows \in Seq(Record), r \in Record : WithRow(After(rows), r) = After(Append(rows, r))
<1>1. After(<<>>) = Begin
  BY DEF After, Begin
<1>2. ASSUME NEW rows \in Seq(Record)
      PROVE  /\ After(rows) \in ReaderState /\ After(rows).rows = rows /\ After(rows).mode = "plain"
             /\ After(rows).cell = <<>> /\ After(rows).record = <<>>
  <2>1. rows \in Seq(Seq(Seq(Chars)))
    BY DEF Record
  <2>. QED
    BY <2>1 DEF After, ReaderState, Mode
<1>3. ASSUME NEW s \in ReaderState, s.mode = "plain", s.cell = <<>>
      PROVE  In(s, "plain", <<>>) = s
  BY <1>3 DEF In, ReaderState
<1>4. ASSUME NEW rows \in Seq(Record), NEW r \in Record
      PROVE  WithRow(After(rows), r) = After(Append(rows, r))
  <2> DEFINE s == After(rows)
  <2>1. /\ s \in ReaderState /\ s.rows = rows /\ s.mode = "plain"
        /\ s.cell = <<>> /\ s.record = <<>>
    BY <1>2
  <2> HIDE DEF s
  <2>2. DOMAIN s = {"mode", "cell", "record", "rows"}
    BY <2>1 DEF ReaderState
  <2> DEFINE u == [s EXCEPT !.record = <<>>]
             w == [u EXCEPT !.rows = Append(rows, r)]
  <2>3. DOMAIN u = DOMAIN s /\ u.mode = "plain" /\ u.cell = <<>> /\ u.record = <<>>
    BY <2>1, <2>2
  <2>4. WithRow(s, r) = w
    BY <2>1 DEF WithRow
  <2> HIDE DEF u
  <2>5. DOMAIN w = DOMAIN s /\ w.mode = "plain" /\ w.cell = <<>> /\ w.record = <<>> /\ w.rows = Append(rows, r)
    BY <2>2, <2>3
  <2>6. w = [i \in {"mode", "cell", "record", "rows"} |-> w[i]]
    BY <2>2, <2>3
  <2> HIDE DEF w
  <2>7. w = [mode |-> "plain", cell |-> <<>>, record |-> <<>>, rows |-> Append(rows, r)]
    BY <2>5, <2>6
  <2>. QED
    BY <2>4, <2>7 DEF After, s
<1>5. \A rows \in Seq(Record) : In(After(rows), "plain", <<>>) = After(rows)
  BY <1>2, <1>3
<1>. QED
  BY <1>1, <1>2, <1>4, <1>5

\* A file is read as the records it was written for.
LEMMA FileScan ==
  ASSUME NEW rows \in Seq(Record)
  PROVE  ReadCsv(File(rows)) = rows
<1> DEFINE G == {rr \in Seq(Record) : Scan(Begin, File(rr)) = In(After(rr), "plain", <<>>)}
<1>1. <<>> \in G
  <2>1. File(<<>>) = <<>>
    BY FlattenEmpty DEF File
  <2>2. <<>> \in Seq(Record)
    BY EmptySeq
  <2>. QED
    BY <2>1, <2>2, ScanEmpty, AfterNext
<1>2. ASSUME NEW rr \in Seq(Record), NEW r \in Record, rr \in G PROVE Append(rr, r) \in G
  <2>1. /\ File(rr) \in Seq(Chars) /\ Line(r) \in Seq(Chars)
        /\ File(Append(rr, r)) = File(rr) \o Line(r)
    BY FileAppend, AfterNext, LineScan
  <2>2. Scan(Begin, File(rr) \o Line(r)) = Scan(Scan(Begin, File(rr)), Line(r))
    BY <2>1, ScanConcat
  <2>3. Scan(In(After(rr), "plain", <<>>), Line(r)) = In(After(Append(rr, r)), "plain", <<>>)
    BY AfterNext, LineScan
  <2>4. Append(rr, r) \in Seq(Record)
    BY AppendProperties
  <2>. QED
    BY <1>2, <2>1, <2>2, <2>3, <2>4
<1>3. \A rr \in Seq(Record) : rr \in G
  <2> HIDE DEF G
  <2>. QED
    BY <1>1, <1>2, SequenceInduction
<1>4. In(After(rows), "plain", <<>>).rows = rows
  BY AfterNext DEF After
<1>. QED
  BY <1>3, <1>4 DEF ReadCsv

\* Whatever the titles and the descriptions of the tasks say, a reader of RFC 4180
\* gets every record back, in its order, each value in its cell.
THEOREM CsvRoundTrip ==
  ASSUME NEW tasks \in Seq([title : Seq(Chars), description : Seq(Chars)])
  PROVE  ReadCsv(tasksToCsv(tasks)) = Rows(tasks)
<1>1. Header \in Record
  BY Marks DEF Header, Record
<1>2. \A i \in DOMAIN tasks : Cells(tasks[i]) \in Record
  <2>1. ASSUME NEW i \in DOMAIN tasks PROVE Cells(tasks[i]) \in Record
    <3> DEFINE Task == [title : Seq(Chars), description : Seq(Chars)]
    <3>1. tasks[i] \in Task
      <4>1. tasks \in Seq(Task)
        OBVIOUS
      <4> HIDE DEF Task
      <4>. QED
        BY <4>1, ElementOfSeq
    <3>2. tasks[i].title \in Seq(Chars) /\ tasks[i].description \in Seq(Chars) /\ <<"x">> \in Seq(Chars)
      BY <3>1, Marks
    <3>. QED
      BY <3>2 DEF Cells, Record
  <2>. QED
    BY <2>1
<1>3. [i \in DOMAIN tasks |-> Cells(tasks[i])] \in Seq(Record)
  <2>1. Len(tasks) \in Nat /\ DOMAIN tasks = 1 .. Len(tasks)
    OBVIOUS
  <2>. QED
    BY <1>2, <2>1
<1>4. Rows(tasks) \in Seq(Record)
  BY <1>1, <1>3 DEF Rows
<1>5. tasksToCsv(tasks) = File(Rows(tasks))
  BY DEF tasksToCsv, File
<1>. QED
  BY <1>4, <1>5, FileScan

\* In particular for the titles and descriptions that the API accepts, whatever their
\* greatest lengths n and k are.
THEOREM ReadsBackAlways ==
  ASSUME NEW n \in Nat, NEW k \in Nat
  PROVE  ReadsBack(n, k)
<1>1. ASSUME NEW j \in Nat, NEW t \in Text(j) PROVE t \in Seq(Chars)
  BY <1>1 DEF Text
<1>2. ASSUME NEW title \in Titles(n), NEW description \in Text(k)
      PROVE  LET task == [title |-> title, description |-> description]
             IN  ReadCsv(tasksToCsv(<<task, task>>)) = Rows(<<task, task>>)
  <2> DEFINE task == [title |-> title, description |-> description]
  <2>1. title \in Seq(Chars) /\ description \in Seq(Chars)
    BY <1>1 DEF Titles
  <2>2. <<task, task>> \in Seq([title : Seq(Chars), description : Seq(Chars)])
    BY <2>1
  <2>. QED
    BY <2>2, CsvRoundTrip
<1>. QED
  BY <1>2 DEF ReadsBack

=============================================================================
