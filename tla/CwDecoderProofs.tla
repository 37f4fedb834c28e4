--------------------------- MODULE CwDecoderProofs ---------------------------
(***************************************************************************)
(* The decoder shows what was sent, for every text and every sequence of   *)
(* spaced elements, of any length, every configuration of the keyer, any   *)
(* jitter, polls and history.                                              *)
(***************************************************************************)
EXTENDS CwDecoder, FiniteSetTheorems, WellFoundedInduction, TLAPS

-----------------------------------------------------------------------------
(* Induction, and the greatest and least of some numbers.                  *)

LEMMA LeastElement ==
  ASSUME NEW T, T \subseteq Nat, T # {}
  PROVE  Min(T) \in T /\ \A y \in T : Min(T) <= y
<1> DEFINE R == {ss \in Nat \X Nat : ss[1] < ss[2]}
<1>1. IsWellFoundedOn(R, Nat)
  BY NatLessThanWellFounded, Zenon DEF OpToRel
<1>2. PICK x \in T : \A y \in T : ~(<<y, x>> \in R)
  <2> HIDE DEF R
  <2> QED BY <1>1, WFMin
<1>3. \A y \in T : ~(y < x)
  BY <1>2
<1>4. \A y \in T : x <= y
  BY <1>3
<1> QED BY <1>4 DEF Min

LEMMA SetInduction ==
  ASSUME NEW T, 0 \in T, \A n \in Nat : n \in T => n + 1 \in T
  PROVE  Nat \subseteq T
<1> DEFINE U == Nat \ T
<1>1. ASSUME U # {} PROVE FALSE
  <2>1. PICK x \in U : \A y \in U : x <= y BY <1>1, LeastElement
  <2>2. x # 0 /\ x - 1 \in Nat /\ x - 1 \notin U BY <2>1
  <2> QED BY <2>1, <2>2
<1> QED BY <1>1

LEMMA GreatestElement ==
  ASSUME NEW n \in Nat, NEW T, T \subseteq 0..n, T # {}
  PROVE  Max(T) \in T /\ \A y \in T : Max(T) >= y
<1> DEFINE D == {d \in Nat : n - d \in T}
<1>1. D \subseteq Nat /\ D # {}
  <2>1. PICK y \in T : TRUE OBVIOUS
  <2>2. n - y \in Nat /\ n - (n - y) = y BY <2>1
  <2> QED BY <2>1, <2>2
<1>2. PICK d \in D : \A y \in D : d <= y
  <2> HIDE DEF D
  <2> QED BY <1>1, LeastElement
<1>3. ASSUME NEW y \in T PROVE n - d >= y
  <2>1. y \in 0..n /\ n - y \in Nat /\ n - (n - y) = y OBVIOUS
  <2>2. n - y \in D BY <2>1
  <2> QED BY <1>2, <2>1, <2>2
<1> QED BY <1>2, <1>3 DEF Max

LEMMA LargerOfTwo ==
  ASSUME NEW m \in Int, NEW n \in Int
  PROVE  Max({m, n}) = IF m >= n THEN m ELSE n
<1>1. \E x \in {m, n} : \A y \in {m, n} : x >= y
  OBVIOUS
<1>2. Max({m, n}) \in {m, n} /\ \A y \in {m, n} : Max({m, n}) >= y
  BY <1>1 DEF Max
<1> QED BY <1>2

LEMMA SmallerOfTwo ==
  ASSUME NEW m \in Int, NEW n \in Int
  PROVE  Min({m, n}) = IF m <= n THEN m ELSE n
<1>1. \E x \in {m, n} : \A y \in {m, n} : x <= y
  OBVIOUS
<1>2. Min({m, n}) \in {m, n} /\ \A y \in {m, n} : Min({m, n}) <= y
  BY <1>1 DEF Min
<1> QED BY <1>2

-----------------------------------------------------------------------------
(* Folding a sequence.  G is the operation as a function.                  *)

\* The fold's recursion over sets of positions has a solution.
Solution(h, X, b, G, c) ==
  /\ h \in [SUBSET DOMAIN c -> X]
  /\ \A s \in SUBSET DOMAIN c :
       h[s] = IF s = {} THEN b ELSE G[<<h[s \ {Max(s)}], c[Max(s)]>>]

LEMMA FoldExists ==
  ASSUME NEW X, NEW E, NEW b \in X, NEW G \in [X \X E -> X], NEW c \in Seq(E)
  PROVE  \E h : Solution(h, X, b, G, c)
<1> DEFINE Solves(h, n) ==
             /\ h \in [SUBSET (1..n) -> X]
             /\ \A s \in SUBSET (1..n) :
                  h[s] = IF s = {} THEN b ELSE G[<<h[s \ {Max(s)}], c[Max(s)]>>]
           T == {n \in Nat : n <= Len(c) => \E h : Solves(h, n)}
<1>1. 0 \in T
  <2>1. Solves([s \in SUBSET (1..0) |-> b], 0)
    OBVIOUS
  <2> QED BY <2>1
<1> HIDE DEF Solves
<1>2. ASSUME NEW n \in Nat, n \in T PROVE n + 1 \in T
  <2> SUFFICES ASSUME n + 1 <= Len(c) PROVE \E h : Solves(h, n + 1)
    OBVIOUS
  <2>1. n <= Len(c)
    OBVIOUS
  <2>2. PICK g : Solves(g, n)
    BY <1>2, <2>1
  <2> USE DEF Solves
  <2> DEFINE h == [s \in SUBSET (1..(n + 1)) |->
                     IF n + 1 \in s THEN G[<<g[s \ {n + 1}], c[n + 1]>>] ELSE g[s]]
  <2>3. c[n + 1] \in E /\ n + 1 \in 1..(n + 1)
    OBVIOUS
  <2>4. ASSUME NEW s \in SUBSET (1..(n + 1)), n + 1 \in s
        PROVE  s \ {n + 1} \in SUBSET (1..n) /\ Max(s) = n + 1 /\ s # {}
    <3>1. s \subseteq 0..(n + 1) /\ s # {} /\ n + 1 \in Nat
      BY <2>4
    <3>2. Max(s) \in s /\ \A y \in s : Max(s) >= y
      BY <3>1, GreatestElement
    <3>3. Max(s) \in 1..(n + 1) /\ Max(s) >= n + 1
      BY <2>4, <3>2
    <3> QED BY <2>4, <3>3
  <2>5. ASSUME NEW s \in SUBSET (1..(n + 1)), n + 1 \notin s
        PROVE  s \in SUBSET (1..n)
    BY <2>5
  <2>6. h \in [SUBSET (1..(n + 1)) -> X]
    <3> SUFFICES ASSUME NEW s \in SUBSET (1..(n + 1)) PROVE h[s] \in X
      OBVIOUS
    <3>1. CASE n + 1 \in s
      <4>1. g[s \ {n + 1}] \in X BY <2>2, <2>4, <3>1
      <4> QED BY <2>3, <3>1, <4>1
    <3>2. CASE n + 1 \notin s
      BY <2>2, <2>5, <3>2
    <3> QED BY <3>1, <3>2
  <2>7. ASSUME NEW s \in SUBSET (1..n) PROVE h[s] = g[s]
    BY <2>7
  <2>8. ASSUME NEW s \in SUBSET (1..(n + 1))
        PROVE  h[s] = IF s = {} THEN b ELSE G[<<h[s \ {Max(s)}], c[Max(s)]>>]
    <3>1. CASE n + 1 \in s
      BY <2>4, <2>7, <3>1
    <3>2. CASE n + 1 \notin s
      <4>1. s \in SUBSET (1..n) /\ s \ {Max(s)} \in SUBSET (1..n)
        BY <2>5, <3>2
      <4>2. h[s] = g[s] /\ h[s \ {Max(s)}] = g[s \ {Max(s)}]
        BY <2>7, <4>1
      <4> HIDE DEF h
      <4> QED BY <2>2, <4>1, <4>2
    <3> QED BY <3>1, <3>2
  <2> HIDE DEF h
  <2> QED BY <2>6, <2>8
<1> HIDE DEF T
<1>3. Nat \subseteq T
  BY <1>1, <1>2, SetInduction
<1>4. Len(c) \in Nat /\ DOMAIN c = 1..Len(c)
  OBVIOUS
<1>5. \E h : Solves(h, Len(c))
  BY <1>3, <1>4 DEF T
<1> QED BY <1>4, <1>5 DEF Solves, Solution

\* What a solution is on the first so many positions.
Follows(q, G, b, c) ==
  q[0] = b /\ \A i \in Nat : i + 1 <= Len(c) => q[i + 1] = G[<<q[i], c[i + 1]>>]

Reaches(v, G, b, c) == \E q : Follows(q, G, b, c) /\ v = q[Len(c)]

LEMMA FollowsType ==
  ASSUME NEW X, NEW E, NEW b \in X, NEW G \in [X \X E -> X], NEW c \in Seq(E),
         NEW q, Follows(q, G, b, c)
  PROVE  \A i \in 0..Len(c) : q[i] \in X
<1> DEFINE T == {i \in Nat : i <= Len(c) => q[i] \in X}
<1>1. 0 \in T
  BY DEF Follows
<1>2. ASSUME NEW i \in Nat, i \in T PROVE i + 1 \in T
  <2> SUFFICES ASSUME i + 1 <= Len(c) PROVE q[i + 1] \in X
    OBVIOUS
  <2>1. q[i] \in X /\ c[i + 1] \in E
    BY <1>2
  <2> QED BY <2>1 DEF Follows
<1> HIDE DEF T
<1>3. Nat \subseteq T BY <1>1, <1>2, SetInduction
<1> QED BY <1>3 DEF T

LEMMA FollowsPrefix ==
  ASSUME NEW E, NEW G, NEW b, NEW c \in Seq(E), NEW e \in E,
         NEW q, Follows(q, G, b, c), NEW r, Follows(r, G, b, Append(c, e))
  PROVE  r[Len(c) + 1] = G[<<q[Len(c)], e>>]
<1>1. Len(Append(c, e)) = Len(c) + 1 /\ Append(c, e)[Len(c) + 1] = e
      /\ \A i \in 1..Len(c) : Append(c, e)[i] = c[i]
  OBVIOUS
<1> DEFINE T == {i \in Nat : i <= Len(c) => q[i] = r[i]}
<1>2. 0 \in T
  BY DEF Follows
<1>3. ASSUME NEW i \in Nat, i \in T PROVE i + 1 \in T
  <2> SUFFICES ASSUME i + 1 <= Len(c) PROVE q[i + 1] = r[i + 1]
    OBVIOUS
  <2>1. q[i] = r[i] /\ i + 1 <= Len(Append(c, e)) /\ Append(c, e)[i + 1] = c[i + 1]
    BY <1>1, <1>3
  <2>2. q[i + 1] = G[<<q[i], c[i + 1]>>]
    BY DEF Follows
  <2>3. r[i + 1] = G[<<r[i], Append(c, e)[i + 1]>>]
    BY <2>1 DEF Follows
  <2> QED BY <2>1, <2>2, <2>3
<1> HIDE DEF T
<1>4. Nat \subseteq T BY <1>2, <1>3, SetInduction
<1>5. q[Len(c)] = r[Len(c)] /\ Len(c) \in Nat
  BY <1>4 DEF T
<1> QED BY <1>1, <1>5 DEF Follows

\* Any solution follows the sequence.
Solving(f, X, b, G, c) ==
  /\ f[{}] = b
  /\ \A s \in SUBSET DOMAIN c :
       s # {} /\ f[s \ {Max(s)}] \in X => f[s] = G[<<f[s \ {Max(s)}], c[Max(s)]>>]

LEMMA SolutionFollows ==
  ASSUME NEW X, NEW E, NEW b \in X, NEW G \in [X \X E -> X], NEW c \in Seq(E), NEW f,
         Solving(f, X, b, G, c)
  PROVE  Reaches(f[DOMAIN c], G, b, c)
<1> DEFINE q == [i \in 0..Len(c) |-> f[1..i]]
           T == {i \in Nat : i <= Len(c) => f[1..i] \in X}
<1> USE DEF Solving
<1>1. DOMAIN c = 1..Len(c) /\ Len(c) \in Nat
  OBVIOUS
<1>2. ASSUME NEW i \in Nat, i + 1 <= Len(c), f[1..i] \in X
      PROVE  f[1..(i + 1)] = G[<<f[1..i], c[i + 1]>>]
  <2> DEFINE s == 1..(i + 1)
  <2>1. s \in SUBSET DOMAIN c /\ s # {} /\ s \subseteq 0..(i + 1) /\ i + 1 \in s
    <3>1. i + 1 \in s /\ s \subseteq 0..(i + 1) OBVIOUS
    <3>2. s \subseteq DOMAIN c BY <1>1, <1>2
    <3> QED BY <3>1, <3>2
  <2>2. Max(s) = i + 1
    <3>1. Max(s) \in s /\ \A y \in s : Max(s) >= y
      <4> HIDE DEF s
      <4>1. i + 1 \in Nat OBVIOUS
      <4> QED BY <2>1, <4>1, GreatestElement
    <3> QED BY <2>1, <3>1
  <2>3. s \ {i + 1} = 1..i
    OBVIOUS
  <2> HIDE DEF s
  <2>4. f[s] = G[<<f[s \ {Max(s)}], c[Max(s)]>>]
    BY <1>2, <2>1, <2>2, <2>3
  <2> QED BY <2>2, <2>3, <2>4 DEF s
<1>3. 0 \in T
  <2>1. 1..0 = {} OBVIOUS
  <2> QED BY <2>1
<1>4. ASSUME NEW i \in Nat, i \in T PROVE i + 1 \in T
  <2> SUFFICES ASSUME i + 1 <= Len(c) PROVE f[1..(i + 1)] \in X
    OBVIOUS
  <2>1. f[1..i] \in X /\ c[i + 1] \in E
    BY <1>4
  <2> QED BY <1>2, <2>1
<1> HIDE DEF T
<1>5. Nat \subseteq T
  BY <1>3, <1>4, SetInduction
<1>6. ASSUME NEW i \in Nat, i <= Len(c) PROVE f[1..i] \in X
  BY <1>5, <1>6 DEF T
<1>7. q[0] = b
  <2>1. 1..0 = {} OBVIOUS
  <2> QED BY <1>1, <2>1
<1>8. ASSUME NEW i \in Nat, i + 1 <= Len(c) PROVE q[i + 1] = G[<<q[i], c[i + 1]>>]
  <2>1. i \in 0..Len(c) /\ i + 1 \in 0..Len(c)
    BY <1>1, <1>8
  <2> QED BY <1>1, <1>2, <1>6, <1>8, <2>1
<1>9. f[DOMAIN c] = q[Len(c)]
  BY <1>1
<1> HIDE DEF q
<1> QED BY <1>7, <1>8, <1>9 DEF Follows, Reaches

LEMMA SequenceOfNone ==
  ASSUME NEW S
  PROVE  <<>> \in Seq(S) /\ Len(<<>>) = 0
  OBVIOUS

LEMMA SequenceOfOne ==
  ASSUME NEW S, NEW x \in S
  PROVE  /\ <<x>> \in Seq(S) /\ Len(<<x>>) = 1 /\ <<x>>[1] = x
         /\ \A s \in Seq(S) : s \o <<x>> = Append(s, x) /\ s \o <<>> = s
<1>1. <<x>> \in Seq(S)
  <2>1. <<x>> = [i \in 1..1 |-> x]
    OBVIOUS
  <2>2. [i \in 1..1 |-> x] \in Seq(S)
    OBVIOUS
  <2> QED BY <2>1, <2>2
<1>2. Len(<<x>>) = 1 /\ <<x>>[1] = x
  OBVIOUS
<1>3. ASSUME NEW s \in Seq(S) PROVE s \o <<x>> = Append(s, x) /\ s \o <<>> = s
  OBVIOUS
<1> QED BY <1>1, <1>2, <1>3

-----------------------------------------------------------------------------
(* The listener.                                                           *)

\* The codes of six marks at most, and the longer ones.
Codes == {CodeOf(n) : n \in 1..127} \union {s \in Seq({1, 3}) : Len(s) >= 7}
Characters == {LOOKUP[n] : n \in DOMAIN LOOKUP} \union {" "}
Notes == [shown : Seq(Characters), code : Codes, space : BOOLEAN]

\* What the code of a character is in the accumulator.
Stands(code, a) ==
  \/ a \in 1..127 /\ code = CodeOf(a)
  \/ a \in 128..255 /\ Len(code) = 7
  \/ a = 0 /\ Len(code) > 7

LEMMA CodeLengths ==
  /\ \A n \in 1..127 : CodeOf(n) \in Seq({1, 3}) /\ (Len(CodeOf(n)) = 6 <=> n >= 64)
  /\ \A n \in 1..127 : Len(CodeOf(n)) < 7
  /\ \A c \in Decodable : Len(MORSE_TABLE[c]) < 7
  BY TablesAgree, Zenon

LEMMA CodeOneMore ==
  \A n \in 1..63 : /\ CodeOf(2 * n) = Append(CodeOf(n), 1)
                   /\ CodeOf(2 * n + 1) = Append(CodeOf(n), 3)
  BY TablesAgree, Zenon

LEMMA CodesAreSequences ==
  ASSUME NEW code \in Codes
  PROVE  code \in Seq({1, 3}) /\ Len(code) \in Nat
<1>1. code \in Seq({1, 3})
  BY CodeLengths, Zenon DEF Codes
<1> QED BY <1>1

LEMMA CodesGrow ==
  ASSUME NEW code \in Codes, NEW m \in {1, 3}
  PROVE  Append(code, m) \in Codes
<1>1. CASE code \in Seq({1, 3}) /\ Len(code) >= 6
  <2>1. Append(code, m) \in Seq({1, 3}) /\ Len(Append(code, m)) >= 7
    BY <1>1
  <2> QED BY <2>1 DEF Codes
<1>2. CASE \E n \in 1..63 : code = CodeOf(n)
  <2>1. PICK n \in 1..63 : code = CodeOf(n)
    BY <1>2
  <2>2. 2 * n \in 1..127 /\ 2 * n + 1 \in 1..127
    OBVIOUS
  <2>3. Append(code, m) = CodeOf(2 * n) \/ Append(code, m) = CodeOf(2 * n + 1)
    BY <2>1, TablesAgree
  <2> QED BY <2>2, <2>3 DEF Codes
<1>3. ASSUME NEW n \in 1..127, code = CodeOf(n), n >= 64
      PROVE  code \in Seq({1, 3}) /\ Len(code) >= 6
  <2>1. code \in Seq({1, 3}) /\ Len(code) = 6
    BY <1>3, CodeLengths, Zenon
  <2> QED BY <2>1
<1>4. CASE \E n \in 1..127 : n >= 64 /\ code = CodeOf(n)
  BY <1>1, <1>3, <1>4
<1>5. CASE code \in Seq({1, 3}) /\ Len(code) >= 7
  BY <1>1, <1>5
<1>6. \A n \in 1..127 : n \in 1..63 \/ n >= 64
  OBVIOUS
<1> QED BY <1>2, <1>4, <1>5, <1>6 DEF Codes

LEMMA LetterOf ==
  /\ \A n \in 1..127 : Letter(CodeOf(n)) = IF n \in (2..127) \intersect DOMAIN LOOKUP
                                           THEN <<LOOKUP[n]>> ELSE <<>>
  /\ \A code \in Codes : Len(code) >= 7 => Letter(code) = <<>>
  /\ \A code \in Codes : Letter(code) \in Seq(Characters)
<1>1. ASSUME NEW code \in Codes, Len(code) >= 7 PROVE Letter(code) = <<>>
  <2>1. {c \in Decodable : MORSE_TABLE[c] = code} = {}
    <3>1. \A c \in Decodable : MORSE_TABLE[c] = code => Len(code) < 7
      BY CodeLengths, Zenon
    <3>2. ~(Len(code) < 7)
      BY <1>1, CodesAreSequences
    <3> QED BY <3>1, <3>2
  <2>2. SetToSeq({}) = <<>>
    <3>1. Cardinality({}) = 0
      BY FS_EmptySet
    <3>2. 1..0 = {}
      OBVIOUS
    <3>3. <<>> \in [1..0 -> {}] /\ IsInjective(<<>>)
      BY <3>2 DEF IsInjective
    <3>4. \A f \in [1..0 -> {}] : f = <<>>
      BY <3>2
    <3> QED BY <3>1, <3>3, <3>4 DEF SetToSeq
  <2> QED BY <2>1, <2>2 DEF Letter
<1>2. \A n \in 1..127 : Letter(CodeOf(n)) = IF n \in (2..127) \intersect DOMAIN LOOKUP
                                            THEN <<LOOKUP[n]>> ELSE <<>>
  BY TablesAgree
<1>3. \A n \in DOMAIN LOOKUP : <<LOOKUP[n]>> \in Seq(Characters)
  BY SequenceOfOne DEF Characters
<1>4. ASSUME NEW code \in Codes PROVE Letter(code) \in Seq(Characters)
  <2>1. CASE Len(code) >= 7
    BY <1>1, <2>1, SequenceOfNone
  <2>2. ASSUME NEW n \in 1..127, code = CodeOf(n) PROVE Letter(code) \in Seq(Characters)
    <3>1. CASE n \in (2..127) \intersect DOMAIN LOOKUP
      BY <1>2, <1>3, <2>2, <3>1
    <3>2. CASE n \notin (2..127) \intersect DOMAIN LOOKUP
      BY <1>2, <2>2, <3>2, SequenceOfNone
    <3> QED BY <3>1, <3>2
  <2> QED BY <2>1, <2>2 DEF Codes
<1> QED BY <1>1, <1>2, <1>4

LEMMA EmptyCode ==
  /\ CodeOf(1) = <<>> /\ <<>> \in Codes /\ Letter(<<>>) = <<>>
  /\ Stands(<<>>, 1)
<1>1. CodeOf(1) = <<>>
  BY TablesAgree, Zenon
<1>2. 1 \in 1..127 /\ 1 \notin 2..127
  OBVIOUS
<1>3. <<>> \in Codes
  BY <1>1, <1>2, Zenon DEF Codes
<1>4. Letter(CodeOf(1)) = <<>>
  <2>1. 1 \notin (2..127) \intersect DOMAIN LOOKUP
    BY <1>2
  <2> QED BY <1>2, <2>1, LetterOf, Zenon
<1>5. Stands(<<>>, 1)
  BY <1>1, <1>2, Zenon DEF Stands
<1> QED BY <1>1, <1>3, <1>4, <1>5

LEMMA ListenedType ==
  ASSUME NEW acc \in Notes, NEW e \in Elements
  PROVE  Listened(acc, e) \in Notes
<1>1. CodeOf(1) = <<>> /\ <<>> \in Codes
  BY EmptyCode
<1>2. Letter(acc.code) \in Seq(Characters)
  BY LetterOf DEF Notes
<1>3. acc.shown \o Letter(acc.code) \in Seq(Characters)
  BY <1>2 DEF Notes
<1>4. CASE e = "dit"
  BY <1>4, CodesGrow DEF Listened, Notes
<1>5. CASE e = "dash"
  BY <1>5, CodesGrow DEF Listened, Notes
<1>6. CASE e = "ElementGap"
  BY <1>6 DEF Listened
<1>7. CASE e = "LetterGap"
  BY <1>1, <1>3, <1>7 DEF Listened, Notes
<1>8. CASE e = "WordGap"
  <2> DEFINE sp == IF acc.space THEN <<" ">> ELSE <<>>
  <2>1. sp \in Seq(Characters)
    <3>1. " " \in Characters BY DEF Characters
    <3>2. <<" ">> \in Seq(Characters) BY <3>1, SequenceOfOne
    <3> QED BY <3>2, SequenceOfNone
  <2>2. (acc.shown \o Letter(acc.code)) \o sp \in Seq(Characters)
    <3> HIDE DEF sp
    <3> QED BY <1>3, <2>1
  <2> QED BY <1>1, <1>8, <2>2 DEF Listened, Notes
<1> QED BY <1>4, <1>5, <1>6, <1>7, <1>8 DEF Elements, Marks

\* The fold's own recursion, for Listened.
Hearing(acc, c) ==
  CHOOSE iter : iter = [s \in SUBSET DOMAIN c |->
                          IF s = {} THEN acc ELSE LET x == Max(s)
                                                  IN Listened(iter[s \ {x}], c[x])]

ListenedTo == [x \in Notes \X Elements |-> Listened(x[1], x[2])]

LEMMA HearingFollows ==
  ASSUME NEW acc \in Notes, NEW c \in Seq(Elements)
  PROVE  Reaches(FoldLeft(Listened, acc, c), ListenedTo, acc, c)
<1> DEFINE Step(f) == [s \in SUBSET DOMAIN c |->
                         IF s = {} THEN acc ELSE Listened(f[s \ {Max(s)}], c[Max(s)])]
<1>1. DOMAIN c = 1..Len(c) /\ Len(c) \in Nat /\ \A i \in DOMAIN c : c[i] \in Elements
  OBVIOUS
<1>2. ListenedTo \in [Notes \X Elements -> Notes]
  BY ListenedType DEF ListenedTo
<1>3. \A n \in Notes, e \in Elements : ListenedTo[<<n, e>>] = Listened(n, e)
  BY DEF ListenedTo
<1>4. ASSUME NEW s \in SUBSET DOMAIN c, s # {} PROVE Max(s) \in s /\ c[Max(s)] \in Elements
  <2>1. s \subseteq 0..Len(c)
    BY <1>1
  <2> QED BY <1>1, <1>4, <2>1, GreatestElement
<1>5. PICK h : Solution(h, Notes, acc, ListenedTo, c)
  BY <1>2, FoldExists, Zenon
<1>6. h = Step(h)
  <2> USE DEF Solution
  <2>1. ASSUME NEW s \in SUBSET DOMAIN c PROVE h[s] = Step(h)[s]
    <3>1. CASE s = {}
      BY <1>5, <3>1
    <3>2. CASE s # {}
      <4>1. h[s \ {Max(s)}] \in Notes /\ c[Max(s)] \in Elements
        BY <1>4, <1>5, <3>2
      <4>2. h[s] = Listened(h[s \ {Max(s)}], c[Max(s)])
        BY <1>3, <1>5, <3>2, <4>1
      <4> QED BY <3>2, <4>2
    <3> QED BY <3>1, <3>2
  <2> QED BY <1>5, <2>1
<1>7. Hearing(acc, c) = Step(Hearing(acc, c))
  <2>1. \E iter : iter = Step(iter) BY <1>6
  <2> QED BY <2>1, Zenon DEF Hearing
<1> DEFINE f == Hearing(acc, c)
<1>8. FoldLeft(Listened, acc, c) = f[DOMAIN c]
  BY Zenon DEF FoldLeft, MapThenFoldSet, Hearing
<1> HIDE DEF f
<1>9. f[{}] = acc
  <2>1. Step(f)[{}] = acc OBVIOUS
  <2> QED BY <1>7, <2>1 DEF f
<1>10. ASSUME NEW s \in SUBSET DOMAIN c, s # {}, f[s \ {Max(s)}] \in Notes
       PROVE  f[s] = ListenedTo[<<f[s \ {Max(s)}], c[Max(s)]>>]
  <2>1. Step(f)[s] = Listened(f[s \ {Max(s)}], c[Max(s)])
    BY <1>10
  <2>2. f[s] = Step(f)[s]
    <3> HIDE DEF Step
    <3> QED BY <1>7 DEF f
  <2> QED BY <1>3, <1>4, <1>10, <2>1, <2>2
<1>11. Reaches(f[DOMAIN c], ListenedTo, acc, c)
  <2>1. Solving(f, Notes, acc, ListenedTo, c)
    BY <1>9, <1>10 DEF Solving
  <2> QED BY <1>2, <2>1, SolutionFollows
<1> QED BY <1>8, <1>11

\* One element more.
LEMMA HeardMore ==
  ASSUME NEW acc \in Notes, NEW c \in Seq(Elements)
  PROVE  /\ FoldLeft(Listened, acc, <<>>) = acc
         /\ FoldLeft(Listened, acc, c) \in Notes
         /\ \A e \in Elements :
              FoldLeft(Listened, acc, Append(c, e)) = Listened(FoldLeft(Listened, acc, c), e)
<1>1. ListenedTo \in [Notes \X Elements -> Notes]
  BY ListenedType DEF ListenedTo
<1>2. FoldLeft(Listened, acc, <<>>) = acc
  <2>1. PICK q : Follows(q, ListenedTo, acc, <<>>) /\ FoldLeft(Listened, acc, <<>>) = q[Len(<<>>)]
    BY HearingFollows, SequenceOfNone DEF Reaches
  <2> QED BY <2>1, SequenceOfNone DEF Follows
<1>3. PICK q : Follows(q, ListenedTo, acc, c) /\ FoldLeft(Listened, acc, c) = q[Len(c)]
  BY HearingFollows DEF Reaches
<1>4. q[Len(c)] \in Notes
  <2>1. Len(c) \in 0..Len(c)
    OBVIOUS
  <2> HIDE DEF ListenedTo, Notes, Elements
  <2> QED BY <1>1, <1>3, <2>1, FollowsType
<1>5. ASSUME NEW e \in Elements
      PROVE  FoldLeft(Listened, acc, Append(c, e)) = Listened(FoldLeft(Listened, acc, c), e)
  <2>1. Append(c, e) \in Seq(Elements) /\ Len(Append(c, e)) = Len(c) + 1
    OBVIOUS
  <2>2. PICK r : /\ Follows(r, ListenedTo, acc, Append(c, e))
                 /\ FoldLeft(Listened, acc, Append(c, e)) = r[Len(Append(c, e))]
    BY <2>1, HearingFollows DEF Reaches
  <2>3. r[Len(c) + 1] = ListenedTo[<<q[Len(c)], e>>]
    BY <1>3, <2>2, FollowsPrefix
  <2>4. ListenedTo[<<q[Len(c)], e>>] = Listened(q[Len(c)], e)
    BY <1>4 DEF ListenedTo
  <2> QED BY <1>3, <2>1, <2>2, <2>3, <2>4
<1> QED BY <1>2, <1>3, <1>4, <1>5

-----------------------------------------------------------------------------
(* The silence before an element.                                          *)

Pick(s) == CHOOSE x \in s : TRUE
Upto(S, n) == {s \in SUBSET S : Cardinality(s) <= n}

\* The recursion of a sum, over the subsets of D.
Adds(h, D, w) ==
  \A s \in D : h[s] = IF s = {} THEN 0 ELSE w[Pick(s)] + h[s \ {Pick(s)}]
Sums(h, D, w) == h \in [D -> Int] /\ Adds(h, D, w)

LEMMA WithoutPick ==
  ASSUME NEW S, IsFiniteSet(S), NEW n \in Nat, NEW s \in Upto(S, n + 1), s # {}
  PROVE  Pick(s) \in s /\ s \ {Pick(s)} \in Upto(S, n)
<1>1. Pick(s) \in s
  BY DEF Pick
<1>2. IsFiniteSet(s)
  BY FS_Subset DEF Upto
<1>3. Cardinality(s \ {Pick(s)}) = Cardinality(s) - 1
  BY <1>1, <1>2, FS_RemoveElement
<1>4. Cardinality(s) \in Nat
  BY <1>2, FS_CardinalityType
<1> QED BY <1>1, <1>3, <1>4 DEF Upto

LEMMA SubsetsUpto ==
  ASSUME NEW S, IsFiniteSet(S)
  PROVE  /\ Upto(S, Cardinality(S)) = SUBSET S /\ Upto(S, 0) = {{}}
         /\ Cardinality(S) \in Nat
<1>1. \A s \in SUBSET S : /\ IsFiniteSet(s) /\ Cardinality(s) \in Nat
                          /\ Cardinality(s) <= Cardinality(S)
  BY FS_Subset, FS_CardinalityType
<1>2. \A s \in SUBSET S : Cardinality(s) = 0 <=> s = {}
  BY <1>1, FS_EmptySet
<1> QED BY <1>1, <1>2, FS_CardinalityType DEF Upto

LEMMA SumExists ==
  ASSUME NEW S, IsFiniteSet(S), NEW w \in [S -> Int]
  PROVE  \E h : Sums(h, SUBSET S, w)
<1> DEFINE T == {n \in Nat : \E h : Sums(h, Upto(S, n), w)}
<1>1. 0 \in T
  <2>1. Sums([s \in Upto(S, 0) |-> 0], Upto(S, 0), w)
    BY SubsetsUpto DEF Sums, Adds
  <2> QED BY <2>1
<1>2. ASSUME NEW n \in Nat, n \in T PROVE n + 1 \in T
  <2>1. PICK g : Sums(g, Upto(S, n), w)
    BY <1>2
  <2> DEFINE h == [s \in Upto(S, n + 1) |->
                     IF s = {} THEN 0 ELSE w[Pick(s)] + g[s \ {Pick(s)}]]
  <2>2. ASSUME NEW s \in Upto(S, n)
        PROVE  s \in Upto(S, n + 1) /\ h[s] = g[s]
    <3>1. Cardinality(s) \in Nat
      BY FS_Subset, FS_CardinalityType DEF Upto
    <3>2. s \in Upto(S, n + 1)
      BY <3>1 DEF Upto
    <3> QED BY <2>1, <3>2 DEF Sums, Adds
  <2>3. ASSUME NEW s \in Upto(S, n + 1), s # {}
        PROVE  w[Pick(s)] \in Int /\ g[s \ {Pick(s)}] \in Int
               /\ h[s \ {Pick(s)}] = g[s \ {Pick(s)}]
    <3>1. Pick(s) \in S /\ s \ {Pick(s)} \in Upto(S, n)
      BY <2>3, WithoutPick DEF Upto
    <3> QED BY <2>1, <2>2, <3>1 DEF Sums, Adds
  <2>4. h \in [Upto(S, n + 1) -> Int]
    <3>1. ASSUME NEW s \in Upto(S, n + 1) PROVE h[s] \in Int
      <4>1. CASE s = {} BY <4>1
      <4>2. CASE s # {}
        <5>1. h[s] = w[Pick(s)] + g[s \ {Pick(s)}] BY <4>2
        <5> HIDE DEF h
        <5> QED BY <2>3, <4>2, <5>1
      <4> QED BY <4>1, <4>2
    <3> QED BY <3>1
  <2>5. ASSUME NEW s \in Upto(S, n + 1)
        PROVE  h[s] = IF s = {} THEN 0 ELSE w[Pick(s)] + h[s \ {Pick(s)}]
    BY <2>3
  <2> HIDE DEF h
  <2>6. Sums(h, Upto(S, n + 1), w)
    BY <2>4, <2>5 DEF Sums, Adds
  <2> QED BY <2>6
<1> HIDE DEF T
<1>3. Nat \subseteq T
  BY <1>1, <1>2, SetInduction
<1>4. \E h : Sums(h, Upto(S, Cardinality(S)), w)
  BY <1>3, SubsetsUpto DEF T
<1>5. Upto(S, Cardinality(S)) = SUBSET S
  BY SubsetsUpto
<1> QED BY <1>4, <1>5, Zenon

LEMMA SumUnique ==
  ASSUME NEW S, IsFiniteSet(S), NEW w, NEW h, Sums(h, SUBSET S, w), NEW f,
         Adds(f, SUBSET S, w)
  PROVE  f[S] = h[S]
<1> DEFINE T == {n \in Nat : \A s \in Upto(S, n) : f[s] = h[s]}
<1>1. 0 \in T
  <2>1. \A s \in Upto(S, 0) : s = {} /\ s \in SUBSET S
    BY SubsetsUpto
  <2> QED BY <2>1 DEF Sums, Adds
<1>2. ASSUME NEW n \in Nat, n \in T PROVE n + 1 \in T
  <2> SUFFICES ASSUME NEW s \in Upto(S, n + 1) PROVE f[s] = h[s]
    OBVIOUS
  <2>1. s \in SUBSET S
    BY DEF Upto
  <2>2. CASE s = {}
    BY <2>1, <2>2 DEF Sums, Adds
  <2>3. CASE s # {}
    <3>1. s \ {Pick(s)} \in Upto(S, n)
      BY <2>3, WithoutPick
    <3>2. f[s \ {Pick(s)}] = h[s \ {Pick(s)}]
      BY <1>2, <3>1
    <3> QED BY <2>1, <2>3, <3>2 DEF Sums, Adds
  <2> QED BY <2>2, <2>3
<1> HIDE DEF T
<1>3. Nat \subseteq T
  BY <1>1, <1>2, SetInduction
<1>4. \A s \in Upto(S, Cardinality(S)) : f[s] = h[s]
  BY <1>3, SubsetsUpto DEF T
<1> QED BY <1>4, SubsetsUpto

\* A sum of parts that are not negative is not negative.
LEMMA SumsPositive ==
  ASSUME NEW S, IsFiniteSet(S), NEW w \in [S -> Nat], NEW h, Sums(h, SUBSET S, w)
  PROVE  \A s \in SUBSET S : h[s] >= 0
<1> DEFINE T == {n \in Nat : \A s \in Upto(S, n) : h[s] >= 0}
<1>1. 0 \in T
  <2>1. \A s \in Upto(S, 0) : s = {} /\ s \in SUBSET S
    BY SubsetsUpto
  <2> QED BY <2>1 DEF Sums, Adds
<1>2. ASSUME NEW n \in Nat, n \in T PROVE n + 1 \in T
  <2> SUFFICES ASSUME NEW s \in Upto(S, n + 1) PROVE h[s] >= 0
    OBVIOUS
  <2>1. CASE s = {}
    <3>1. h[s] = 0
      BY <2>1 DEF Sums, Adds
    <3> QED BY <3>1
  <2>2. CASE s # {}
    <3>1. Pick(s) \in S /\ s \ {Pick(s)} \in Upto(S, n) /\ s \ {Pick(s)} \in SUBSET S
      BY <2>2, WithoutPick DEF Upto
    <3>2. h[s \ {Pick(s)}] >= 0 /\ h[s \ {Pick(s)}] \in Int /\ w[Pick(s)] \in Nat
      BY <1>2, <3>1 DEF Sums, Adds
    <3>3. h[s] = w[Pick(s)] + h[s \ {Pick(s)}]
      BY <2>2 DEF Sums, Adds, Upto
    <3> QED BY <3>2, <3>3
  <2> QED BY <2>1, <2>2
<1> HIDE DEF T
<1>3. Nat \subseteq T
  BY <1>1, <1>2, SetInduction
<1>4. \A s \in Upto(S, Cardinality(S)) : h[s] >= 0
  BY <1>3, SubsetsUpto DEF T
<1> QED BY <1>4, SubsetsUpto

\* What the gap before an element is.
Run(i) == (pos + 1)..(i - 1)

LEMMA GapIsSum ==
  ASSUME NEW i \in Nat, pos \in Nat, NEW w \in [Run(i) -> Int],
         \A j \in Run(i) : w[j] = Duration(elements[j], cfg)
  PROVE  /\ IsFiniteSet(Run(i))
         /\ \E h : Sums(h, SUBSET Run(i), w) /\ GapBefore(i) = h[Run(i)]
<1> DEFINE S == Run(i)
           Step(f) == [s \in SUBSET S |->
                         IF s = {} THEN 0
                         ELSE Duration(elements[Pick(s)], cfg) + f[s \ {Pick(s)}]]
           Gap == CHOOSE iter : iter = Step(iter)
<1>1. IsFiniteSet(S)
  BY FS_Interval DEF Run
<1> HIDE DEF S
<1>2. PICK h : Sums(h, SUBSET S, w)
  BY <1>1, SumExists DEF S
<1>3. ASSUME NEW s \in SUBSET S, s # {}
      PROVE  w[Pick(s)] = Duration(elements[Pick(s)], cfg) /\ Pick(s) \in S
  <2>1. Pick(s) \in s
    BY <1>3 DEF Pick
  <2> QED BY <2>1 DEF S
<1>4. h = Step(h)
  BY <1>2, <1>3 DEF Sums, Adds
<1>5. Gap = Step(Gap)
  <2>1. \E iter : iter = Step(iter) BY <1>4
  <2> HIDE DEF Step
  <2> QED BY <2>1, Zenon
<1>6. GapBefore(i) = Gap[S]
  BY Zenon DEF GapBefore, MapThenSumSet, MapThenFoldSet, Pick, S, Run
<1> HIDE DEF Gap
<1>7. ASSUME NEW s \in SUBSET S
      PROVE  Gap[s] = IF s = {} THEN 0 ELSE w[Pick(s)] + Gap[s \ {Pick(s)}]
  <2>1. Gap[s] = Step(Gap)[s]
    <3> HIDE DEF Step
    <3> QED BY <1>5
  <2> QED BY <1>3, <2>1
<1>8. Gap[S] = h[S]
  <2>1. Adds(Gap, SUBSET S, w)
    BY <1>7 DEF Adds
  <2> HIDE DEF Step
  <2> QED BY <1>1, <1>2, <2>1, SumUnique
<1> QED BY <1>1, <1>2, <1>6, <1>8 DEF S

-----------------------------------------------------------------------------
(* Durations.                                                              *)

LEMMA QuotientIsInt ==
  ASSUME NEW m \in Int, NEW n \in Int, n > 0
  PROVE  m \div n \in Int
  OBVIOUS

LEMMA DotIsInt ==
  ASSUME NEW c \in KeyerConfig
  PROVE  dot_duration_us(c) \in Int
<1>1. c.speed_wpm \in Int
  BY DEF KeyerConfig, Byte
<1>2. Max({c.speed_wpm, 1}) \in Int /\ Max({c.speed_wpm, 1}) > 0
  BY <1>1, LargerOfTwo
<1> QED BY <1>2, QuotientIsInt DEF dot_duration_us

LEMMA DashIsInt ==
  ASSUME NEW c \in KeyerConfig
  PROVE  dash_duration_us(c) \in Int
<1> DEFINE dot == dot_duration_us(c)
<1>1. /\ c.speed_wpm \in Int /\ c.dynamic_ratio_low_wpm \in Int
      /\ c.dynamic_ratio_high_wpm \in Int /\ c.weight \in Int
  BY DEF KeyerConfig, Byte
<1>2. dot \in Int
  BY DotIsInt
<1> HIDE DEF dot
<1>3. dynamic_dash(c) \in Int
  <2> DEFINE low == c.dynamic_ratio_low_wpm
             larger == Max({c.dynamic_ratio_high_wpm, low + 1})
             span == larger - low
             above == Min({c.speed_wpm - low, span})
  <2>1. larger \in Int /\ larger >= low + 1
    BY <1>1, LargerOfTwo
  <2> HIDE DEF larger
  <2>2. span \in Int /\ span > 0
    BY <1>1, <2>1
  <2> HIDE DEF span
  <2>3. above \in Int
    BY <1>1, <2>2, SmallerOfTwo
  <2> HIDE DEF above
  <2>4. dot * (30 * span - 6 * above) \in Int /\ 10 * span \in Int /\ 10 * span > 0
    BY <1>2, <2>2, <2>3
  <2>5. (dot * (30 * span - 6 * above)) \div (10 * span) \in Int
    BY <2>4, QuotientIsInt
  <2> QED BY <2>5 DEF dynamic_dash, dot, above, span, larger
<1>4. (dot * (50 + 2 * c.weight)) \div 50 \in Int
  <2>1. dot * (50 + 2 * c.weight) \in Int
    BY <1>1, <1>2
  <2> QED BY <2>1, QuotientIsInt
<1> QED BY <1>3, <1>4 DEF dash_duration_us, dot

LEMMA UnitIsInt ==
  ASSUME NEW c \in KeyerConfig
  PROVE  farnsworth_gap_unit_us(c) \in Int
<1> DEFINE dot == dot_duration_us(c)
           f == c.farnsworth_wpm
           n == 1200000 * (50 * c.speed_wpm - 31 * f)
           d == 19 * f * c.speed_wpm
<1>1. dot \in Int /\ f \in Nat /\ c.speed_wpm \in Nat
  BY DotIsInt DEF KeyerConfig, Byte
<1> HIDE DEF dot
<1>2. CASE f = 0 \/ f >= c.speed_wpm
  BY <1>1, <1>2 DEF farnsworth_gap_unit_us, dot
<1>3. CASE ~(f = 0 \/ f >= c.speed_wpm)
  <2>1. n \in Int /\ d \in Int /\ d > 0
    BY <1>1, <1>3
  <2> HIDE DEF n, d
  <2>2. n \div d \in Int
    BY <2>1, QuotientIsInt
  <2>3. Max({dot, n \div d}) \in Int
    BY <1>1, <2>2, LargerOfTwo
  <2> QED BY <1>3, <2>3 DEF farnsworth_gap_unit_us, dot, n, d
<1> QED BY <1>2, <1>3

LEMMA DurationIsInt ==
  ASSUME NEW c \in KeyerConfig, NEW e \in Elements
  PROVE  Duration(e, c) \in Int
<1>1. c.keying_compensation_ms \in Int
  BY DEF KeyerConfig, Byte
<1>2. /\ dot_duration_us(c) \in Int /\ dash_duration_us(c) \in Int
      /\ farnsworth_gap_unit_us(c) \in Int
  BY DotIsInt, DashIsInt, UnitIsInt
<1> QED BY <1>1, <1>2 DEF Duration, effective, Elements, Marks

\* The decoder's unit is the sender's dot.
LEMMA ReadableTimes ==
  ASSUME cfg \in Configs, Readable, NEW j \in Jitter
  PROVE  /\ dit \in Nat /\ dit > 0 /\ j \in Int
         /\ \A e \in Elements : Duration(e, cfg) \in Int
         /\ Duration("dit", cfg) + j < 2 * dit
         /\ Duration("dash", cfg) + j >= 2 * dit
         /\ j < 2 * dit
         /\ Duration("ElementGap", cfg) + j < 2 * dit
         /\ Duration("LetterGap", cfg) + j >= 2 * dit
         /\ Duration("LetterGap", cfg) + j < 6 * dit
         /\ Duration("WordGap", cfg) + j >= 6 * dit
         /\ Duration("WordGap", cfg) >= 0
<1>1. cfg \in KeyerConfig /\ j \in Int /\ 0 \in Jitter
  BY DecoderAssumption
<1>2. dit \in Int /\ Duration("ElementGap", cfg) = dit
  BY <1>1, DotIsInt DEF dit, dot_duration_us, Duration
<1>3. \A e \in Elements : Duration(e, cfg) \in Int
  BY <1>1, DurationIsInt
<1> HIDE DEF dit
<1>4. \A e \in {"dit", "dash", "ElementGap", "LetterGap", "WordGap"} : Duration(e, cfg) \in Int
  BY <1>3 DEF Elements, Marks
<1>5. /\ Duration("dit", cfg) + 0 >= 0 /\ Duration("dit", cfg) + 0 < 2 * dit
      /\ Duration("dit", cfg) + j < 2 * dit
      /\ Duration("dash", cfg) + j >= 2 * dit
      /\ Duration("ElementGap", cfg) + j < 2 * dit
      /\ Duration("LetterGap", cfg) + j >= 2 * dit
      /\ Duration("LetterGap", cfg) + j < 6 * dit
      /\ Duration("WordGap", cfg) + j >= 6 * dit
      /\ Duration("WordGap", cfg) + 0 >= 6 * dit
  BY <1>1 DEF Readable, Clearly
<1> QED BY <1>1, <1>2, <1>3, <1>4, <1>5

-----------------------------------------------------------------------------
(* The decoder's operations, next to the listener's notes.                 *)

Shows(d, acc) ==
  /\ Stands(acc.code, d.accum)
  /\ d.history = LastOf(HISTORY_CAPACITY, acc.shown)

Decoder == [accum : 0..255, space_emitted : BOOLEAN, history : Seq(Characters)]

LEMMA LastOfType ==
  ASSUME NEW n \in Nat \ {0}, NEW s \in Seq(Characters)
  PROVE  LastOf(n, s) \in Seq(Characters) /\ LastOf(n, <<>>) = <<>>
<1>1. Max({1, Len(s) - n + 1}) \in Int /\ Max({1, Len(s) - n + 1}) >= 1
  BY LargerOfTwo
<1>2. LastOf(n, s) \in Seq(Characters)
  <2> DEFINE m == Max({1, Len(s) - n + 1})
  <2>1. m \in 1..(Len(s) + 1)
    BY LargerOfTwo
  <2> HIDE DEF m
  <2>2. SubSeq(s, m, Len(s)) \in Seq(Characters)
    BY <2>1
  <2> QED BY <2>2 DEF LastOf, m
<1>3. LastOf(n, <<>>) = <<>>
  <2>1. Len(<<>>) = 0
    OBVIOUS
  <2>2. Max({1, 0 - n + 1}) = 1
    BY LargerOfTwo
  <2> QED BY <2>1, <2>2 DEF LastOf
<1> QED BY <1>2, <1>3

\* push_char keeps the latest characters.
LEMMA PushKeepsLast ==
  ASSUME NEW s \in Seq(Characters), NEW ch \in Characters
  PROVE  PushChar(LastOf(HISTORY_CAPACITY, s), ch) = LastOf(HISTORY_CAPACITY, Append(s, ch))
<1> DEFINE n == HISTORY_CAPACITY
           k == Len(s)
           t == Append(s, ch)
<1>1. n \in Nat \ {0} /\ k \in Nat
  BY DecoderAssumption
<1>2. Len(t) = k + 1 /\ t \in Seq(Characters)
  OBVIOUS
<1>3. CASE k >= n
  <2>1. LastOf(n, s) = SubSeq(s, k - n + 1, k)
    BY <1>1, <1>3, LargerOfTwo DEF LastOf
  <2>2. LastOf(n, t) = SubSeq(t, k - n + 2, k + 1)
    <3>1. Max({1, Len(t) - n + 1}) = k - n + 2
      BY <1>1, <1>2, <1>3, LargerOfTwo
    <3>2. LastOf(n, t) = SubSeq(t, Max({1, Len(t) - n + 1}), Len(t))
      BY DEF LastOf
    <3> HIDE DEF t, n, k
    <3> QED BY <1>2, <3>1, <3>2
  <2> HIDE DEF n
  <2> DEFINE last == SubSeq(s, k - n + 1, k)
             next == SubSeq(t, k - n + 2, k + 1)
  <2>3. last \in Seq(Characters) /\ Len(last) = n /\ \A i \in 1..n : last[i] = s[k - n + i]
    BY <1>1, <1>3
  <2>4. Append(Tail(last), ch) = next
    <3>1. next \in Seq(Characters) /\ Len(next) = n /\ \A i \in 1..n : next[i] = t[k - n + 1 + i]
      BY <1>1, <1>2, <1>3
    <3>2. (\A i \in 1..k : t[i] = s[i]) /\ t[k + 1] = ch
      OBVIOUS
    <3> HIDE DEF last, next, t, k
    <3>3. /\ Append(Tail(last), ch) \in Seq(Characters)
          /\ Len(Append(Tail(last), ch)) = n
          /\ \A i \in 1..n : Append(Tail(last), ch)[i] = IF i < n THEN last[i + 1] ELSE ch
      BY <1>1, <2>3
    <3>4. ASSUME NEW i \in 1..n PROVE Append(Tail(last), ch)[i] = next[i]
      <4>1. CASE i < n
        <5>1. i + 1 \in 1..n /\ k - n + 1 + i \in 1..k /\ k - n + (i + 1) = k - n + 1 + i
          BY <1>1, <1>3, <4>1
        <5> QED BY <2>3, <3>1, <3>2, <3>3, <4>1, <5>1
      <4>2. CASE ~(i < n)
        <5>1. k - n + 1 + i = k + 1
          BY <1>1, <4>2
        <5> QED BY <3>1, <3>2, <3>3, <4>2, <5>1
      <4> QED BY <4>1, <4>2
    <3> DEFINE pushed == Append(Tail(last), ch)
    <3> HIDE DEF pushed
    <3>5. /\ pushed \in Seq(Characters) /\ next \in Seq(Characters) /\ Len(pushed) = Len(next)
          /\ \A i \in 1..Len(pushed) : pushed[i] = next[i]
      BY <3>1, <3>3, <3>4 DEF pushed
    <3>6. pushed = next
      BY <3>5
    <3> QED BY <3>6 DEF pushed
  <2> HIDE DEF t, last, next
  <2>5. LastOf(n, s) = last /\ LastOf(n, t) = next
    BY <2>1, <2>2 DEF last, next
  <2>6. PushChar(last, ch) = Append(Tail(last), ch)
    BY <2>3 DEF PushChar, n
  <2> QED BY <2>4, <2>5, <2>6 DEF n, t
<1>4. CASE k < n
  <2>1. LastOf(n, s) = SubSeq(s, 1, k)
    BY <1>1, <1>4, LargerOfTwo DEF LastOf
  <2>2. LastOf(n, t) = SubSeq(t, 1, k + 1)
    <3>1. Max({1, Len(t) - n + 1}) = 1
      BY <1>1, <1>2, <1>4, LargerOfTwo
    <3>2. LastOf(n, t) = SubSeq(t, Max({1, Len(t) - n + 1}), Len(t))
      BY DEF LastOf
    <3> HIDE DEF t, n, k
    <3> QED BY <1>2, <3>1, <3>2
  <2>3. SubSeq(s, 1, k) = s /\ SubSeq(t, 1, k + 1) = t
    BY <1>2
  <2> HIDE DEF n
  <2>4. Len(s) # n
    BY <1>1, <1>4
  <2> QED BY <2>1, <2>2, <2>3, <2>4 DEF PushChar, n
<1> QED BY <1>1, <1>3, <1>4

\* A letter gap: the character is written down, and the next one begins.
LEMMA EmitsLetter ==
  ASSUME NEW d \in Decoder, NEW acc \in Notes, Shows(d, acc)
  PROVE  /\ Shows(EmitPendingChar(d), Listened(acc, "LetterGap"))
         /\ EmitPendingChar(d) \in Decoder
         /\ EmitPendingChar(d).space_emitted = d.space_emitted
<1> DEFINE new == Listened(acc, "LetterGap")
           e == EmitPendingChar(d)
           hist == IF d.accum \in 2..127 /\ d.accum \in DOMAIN LOOKUP
                   THEN PushChar(d.history, LOOKUP[d.accum]) ELSE d.history
<1>1. new.shown = acc.shown \o Letter(acc.code) /\ new.code = <<>> /\ new \in Notes
  BY ListenedType DEF Listened, Notes, Elements
<1>2. e = [accum |-> 1, space_emitted |-> d.space_emitted, history |-> hist]
  <2> HIDE DEF hist
  <2>1. e = [d EXCEPT !.accum = 1, !.history = hist]
    BY DEF EmitPendingChar, hist
  <2> QED BY <2>1 DEF Decoder
<1> HIDE DEF new, e
<1>3. Stands(new.code, e.accum)
  <2>1. CodeOf(1) = <<>>
    BY TablesAgree
  <2> QED BY <1>1, <1>2, <2>1 DEF Stands
<1>4. e.history = LastOf(HISTORY_CAPACITY, new.shown)
  <2>1. /\ acc.shown \in Seq(Characters) /\ acc.code \in Codes
        /\ d.history = LastOf(HISTORY_CAPACITY, acc.shown)
    BY DEF Notes, Shows
  <2>2. CASE d.accum \in 2..127 /\ d.accum \in DOMAIN LOOKUP
    <3>1. acc.code = CodeOf(d.accum) /\ d.accum \in 1..127
      <4>1. Stands(acc.code, d.accum)
        BY DEF Shows
      <4>2. d.accum \notin 128..255 /\ d.accum # 0
        BY <2>2
      <4> QED BY <4>1, <4>2 DEF Stands
    <3>2. Letter(acc.code) = <<LOOKUP[d.accum]>> /\ LOOKUP[d.accum] \in Characters
      <4>1. d.accum \in (2..127) \intersect DOMAIN LOOKUP
        BY <2>2
      <4> QED BY <3>1, <4>1, LetterOf DEF Characters
    <3>3. new.shown = Append(acc.shown, LOOKUP[d.accum])
      BY <1>1, <2>1, <3>2, SequenceOfOne
    <3>4. hist = PushChar(d.history, LOOKUP[d.accum])
      BY <2>2
    <3> HIDE DEF hist
    <3> QED BY <1>2, <2>1, <3>2, <3>3, <3>4, PushKeepsLast
  <2>3. CASE ~(d.accum \in 2..127 /\ d.accum \in DOMAIN LOOKUP)
    <3>1. Letter(acc.code) = <<>>
      <4>1. CASE d.accum \in 1..127 /\ acc.code = CodeOf(d.accum)
        BY <2>3, <4>1, LetterOf
      <4>2. CASE ~(d.accum \in 1..127 /\ acc.code = CodeOf(d.accum))
        <5> DEFINE l == Len(acc.code)
        <5>1. l = 7 \/ l > 7
          BY <4>2 DEF Shows, Stands
        <5>2. l \in Nat
          BY <2>1, CodesAreSequences
        <5> HIDE DEF l
        <5>3. l >= 7
          BY <5>1, <5>2
        <5> QED BY <2>1, <5>3, LetterOf DEF l
      <4> QED BY <4>1, <4>2
    <3>2. new.shown = acc.shown
      BY <1>1, <2>1, <3>1
    <3>3. hist = d.history
      BY <2>3
    <3> QED BY <1>2, <2>1, <3>2, <3>3
  <2> QED BY <2>2, <2>3
<1>5. e \in Decoder
  <2>1. e.history \in Seq(Characters)
    BY <1>1, <1>4, LastOfType, DecoderAssumption DEF Notes
  <2>2. hist \in Seq(Characters) /\ d.space_emitted \in BOOLEAN
    <3> HIDE DEF hist
    <3> QED BY <1>2, <2>1 DEF Decoder
  <2> HIDE DEF hist
  <2> QED BY <1>2, <2>2 DEF Decoder
<1>6. e.space_emitted = d.space_emitted
  BY <1>2
<1> QED BY <1>3, <1>4, <1>5, <1>6 DEF Shows, new, e

\* A word gap: a space is written down as well, once.
LEMMA EmitsSpace ==
  ASSUME NEW d \in Decoder, NEW acc \in Notes, Shows(d, acc), acc.code = <<>>,
         acc.space = ~d.space_emitted
  PROVE  /\ Shows(EmitSpace(d), Listened(acc, "WordGap"))
         /\ EmitSpace(d) \in Decoder
         /\ EmitSpace(d).space_emitted = ~Listened(acc, "WordGap").space
<1> DEFINE new == Listened(acc, "WordGap")
           e == EmitSpace(d)
<1>1. Letter(<<>>) = <<>>
  BY EmptyCode
<1>2. acc.shown \in Seq(Characters) /\ " " \in Characters
  BY DEF Notes, Characters
<1>3. new.code = <<>> /\ new.space = FALSE /\ new \in Notes
      /\ new.shown = (acc.shown \o <<>>) \o (IF acc.space THEN <<" ">> ELSE <<>>)
  BY <1>1, ListenedType DEF Listened, Notes, Elements
<1> HIDE DEF new
<1>4. CASE acc.space
  <2>1. new.shown = Append(acc.shown, " ")
    <3>1. acc.shown \o <<>> = acc.shown /\ acc.shown \o <<" ">> = Append(acc.shown, " ")
      BY <1>2, SequenceOfOne
    <3> QED BY <1>3, <1>4, <3>1
  <2>2. d.space_emitted = FALSE
    BY <1>4 DEF Decoder
  <2>3. e.accum = d.accum /\ e.space_emitted = TRUE /\ e.history = PushChar(d.history, " ")
    BY <2>2 DEF EmitSpace, Decoder
  <2>4. e.history = LastOf(HISTORY_CAPACITY, new.shown)
    BY <1>2, <2>1, <2>3, PushKeepsLast DEF Shows
  <2>5. e.history \in Seq(Characters)
    BY <1>3, <2>4, LastOfType, DecoderAssumption DEF Notes
  <2>6. e \in Decoder
    <3> DEFINE hist == PushChar(d.history, " ")
    <3>1. e = [accum |-> d.accum, space_emitted |-> TRUE, history |-> hist]
      BY <2>2 DEF EmitSpace, Decoder
    <3> HIDE DEF e, hist
    <3>2. hist \in Seq(Characters)
      BY <2>5, <3>1
    <3> QED BY <3>1, <3>2 DEF Decoder
  <2> HIDE DEF e, new
  <2> QED BY <1>3, <2>3, <2>4, <2>6 DEF Shows, e, new
<1>5. CASE ~acc.space
  <2>1. acc.shown \o <<>> = acc.shown
    BY <1>2, SequenceOfOne
  <2>2. new.shown = acc.shown
    BY <1>3, <1>5, <2>1
  <2>3. e = d
    BY <1>5 DEF EmitSpace
  <2> HIDE DEF e, new
  <2> QED BY <1>3, <1>5, <2>2, <2>3 DEF Shows, e, new
<1> QED BY <1>4, <1>5

\* A gap heard again, or still, changes nothing.
LEMMA GapsRepeat ==
  ASSUME NEW acc \in Notes
  PROVE  LET letter == Listened(acc, "LetterGap")
             word == Listened(acc, "WordGap")
         IN  /\ letter \in Notes /\ letter.code = <<>> /\ letter.space = acc.space
             /\ word \in Notes /\ word.code = <<>> /\ word.space = FALSE
             /\ Listened(letter, "LetterGap") = letter /\ Listened(letter, "WordGap") = word
             /\ Listened(word, "LetterGap") = word /\ Listened(word, "WordGap") = word
<1> DEFINE letter == Listened(acc, "LetterGap")
           word == Listened(acc, "WordGap")
           with == acc.shown \o Letter(acc.code)
           sp == IF acc.space THEN <<" ">> ELSE <<>>
           nothing == <<>>
<1>1. letter \in Notes /\ word \in Notes
  BY ListenedType DEF Elements
<1>2. Letter(nothing) = nothing
  BY EmptyCode
<1>3. acc.shown \in Seq(Characters) /\ acc.code \in Codes /\ acc.space \in BOOLEAN
  BY DEF Notes
<1>4. with \in Seq(Characters)
  <2>1. Letter(acc.code) \in Seq(Characters)
    BY <1>3, LetterOf
  <2> QED BY <1>3, <2>1
<1>5. letter = [shown |-> with, code |-> nothing, space |-> acc.space]
  BY DEF Listened, Notes
<1>6. word = [shown |-> with \o sp, code |-> nothing, space |-> FALSE]
  BY DEF Listened
<1> HIDE DEF letter, word, with, sp, nothing
<1>7. with \o nothing = with
  BY <1>4 DEF nothing
<1>8. with \o sp \in Seq(Characters)
  BY <1>1, <1>6 DEF Notes
<1>9. (with \o sp) \o nothing = with \o sp
  BY <1>8 DEF nothing
<1>10. Listened(letter, "LetterGap") = letter
  <2>1. Listened(letter, "LetterGap") =
          [letter EXCEPT !.shown = @ \o Letter(letter.code), !.code = nothing]
    BY DEF Listened, nothing
  <2>2. letter.shown \o Letter(letter.code) = with
    BY <1>2, <1>5, <1>7
  <2> QED BY <1>5, <2>1, <2>2
<1>11. Listened(word, "LetterGap") = word
  <2>1. Listened(word, "LetterGap") =
          [word EXCEPT !.shown = @ \o Letter(word.code), !.code = nothing]
    BY DEF Listened, nothing
  <2>2. word.shown \o Letter(word.code) = with \o sp
    BY <1>2, <1>6, <1>9
  <2> QED BY <1>6, <2>1, <2>2
<1>12. Listened(letter, "WordGap") = word
  <2>1. Listened(letter, "WordGap") =
          [shown |-> (letter.shown \o Letter(letter.code)) \o sp, code |-> nothing,
           space |-> FALSE]
    BY <1>5 DEF Listened, nothing, sp
  <2> QED BY <1>2, <1>5, <1>6, <1>7, <2>1
<1>13. Listened(word, "WordGap") = word
  <2>1. Listened(word, "WordGap") =
          [shown |-> (word.shown \o Letter(word.code)) \o nothing, code |-> nothing,
           space |-> FALSE]
    BY <1>6 DEF Listened, nothing
  <2> QED BY <1>2, <1>6, <1>9, <2>1
<1> QED BY <1>1, <1>5, <1>6, <1>10, <1>11, <1>12, <1>13 DEF letter, word, nothing

\* What the listener has after so much silence.
After(acc, gap) ==
  IF gap < 2 * dit THEN acc
  ELSE Listened(acc, IF gap < 6 * dit THEN "LetterGap" ELSE "WordGap")

Silent(d, acc) == d \in Decoder /\ Shows(d, acc) /\ acc.space = ~d.space_emitted

\* However often it looks at a silence, the decoder shows what it means.
LEMMA GapShown ==
  ASSUME dit \in Nat, dit > 0, NEW d, NEW acc \in Notes,
         NEW s \in Int, NEW g \in Int, s <= g, Silent(d, After(acc, s))
  PROVE  Silent(ProcessGap(d, g), After(acc, g))
<1> DEFINE letter == Listened(acc, "LetterGap")
           word == Listened(acc, "WordGap")
           now == After(acc, s)
           heard == Listened(now, "LetterGap")
           p == EmitPendingChar(d)
<1>1. /\ letter \in Notes /\ letter.code = <<>> /\ letter.space = acc.space
      /\ word \in Notes /\ word.code = <<>> /\ word.space = FALSE
      /\ Listened(letter, "LetterGap") = letter /\ Listened(letter, "WordGap") = word
      /\ Listened(word, "LetterGap") = word /\ Listened(word, "WordGap") = word
  BY GapsRepeat
<1>2. now = acc \/ now = letter \/ now = word
  BY DEF After
<1> HIDE DEF letter, word
<1>3. now \in Notes
  BY <1>1, <1>2
<1>4. /\ heard = letter \/ heard = word
      /\ heard \in Notes /\ heard.code = <<>> /\ heard.space = now.space
      /\ Listened(heard, "WordGap") = word
  BY <1>1, <1>2 DEF letter
<1> HIDE DEF now
<1>5. p \in Decoder /\ Shows(p, heard) /\ p.space_emitted = d.space_emitted
  BY <1>3, EmitsLetter DEF Silent, now
<1> HIDE DEF heard, p
<1>6. CASE g < 2 * dit
  <2>1. ProcessGap(d, g) = d
    BY <1>6 DEF ProcessGap
  <2>2. s < 2 * dit
    BY <1>6
  <2> QED BY <1>6, <2>1, <2>2 DEF After
<1>7. CASE g >= 2 * dit /\ g < 6 * dit
  <2>1. ProcessGap(d, g) = p
    BY <1>7 DEF ProcessGap, p
  <2>2. After(acc, g) = letter
    BY <1>7 DEF After, letter
  <2>3. now = acc \/ now = letter
    <3>1. s < 6 * dit
      BY <1>7
    <3> QED BY <3>1 DEF After, now, letter
  <2>4. heard = letter
    BY <1>1, <2>3 DEF heard, letter
  <2> QED BY <1>4, <1>5, <2>1, <2>2, <2>4 DEF Silent, now
<1>8. CASE g >= 6 * dit
  <2>1. ProcessGap(d, g) = EmitSpace(p)
    BY <1>8 DEF ProcessGap, p
  <2>2. After(acc, g) = word
    BY <1>8 DEF After, word
  <2>3. heard.space = ~p.space_emitted
    BY <1>4, <1>5 DEF Silent, now
  <2>4. /\ Shows(EmitSpace(p), word) /\ EmitSpace(p) \in Decoder
        /\ EmitSpace(p).space_emitted = ~word.space
    BY <1>4, <1>5, <2>3, EmitsSpace
  <2>5. word.space = ~EmitSpace(p).space_emitted
    BY <1>1, <2>4
  <2> QED BY <2>1, <2>2, <2>4, <2>5 DEF Silent
<1> QED BY <1>6, <1>7, <1>8

\* A pulse: one mark more.
LEMMA PulseShown ==
  ASSUME dit \in Nat, NEW d \in Decoder, NEW acc \in Notes, Shows(d, acc),
         NEW m \in Marks, NEW t \in Int, t >= 2 * dit <=> m = "dash"
  PROVE  ProcessPulse(d, t) \in Decoder /\ Shows(ProcessPulse(d, t), Listened(acc, m))
<1> DEFINE bit == IF t >= 2 * dit THEN 1 ELSE 0
           len == IF m = "dash" THEN 3 ELSE 1
           new == Listened(acc, m)
           e == ProcessPulse(d, t)
<1>1. /\ new.shown = acc.shown /\ new.code = Append(acc.code, len) /\ acc.code \in Seq({1, 3})
      /\ Len(new.code) = Len(acc.code) + 1 /\ Len(acc.code) \in Nat
  <2>1. acc.code \in Seq({1, 3}) /\ Len(acc.code) \in Nat
    BY CodesAreSequences DEF Notes
  <2>2. new.shown = acc.shown /\ new.code = Append(acc.code, len)
    BY DEF Listened, Marks, Notes
  <2> QED BY <2>1, <2>2
<1>2. d.accum \in 0..255 /\ d.space_emitted \in BOOLEAN /\ d.history \in Seq(Characters)
  BY DEF Decoder
<1>3. d.accum \in 1..127 \/ d.accum = 0 \/ (d.accum \in 128..255 /\ d.accum >= 128)
  <2> DEFINE a == d.accum
  <2>1. a \in 0..255
    BY <1>2
  <2> HIDE DEF a
  <2>2. a \in 1..127 \/ a = 0 \/ (a \in 128..255 /\ a >= 128)
    BY <2>1
  <2> QED BY <2>2 DEF a
<1>4. bit \in {0, 1} /\ (bit = 0 <=> len = 1) /\ (bit = 1 <=> len = 3)
  OBVIOUS
<1>5. d = [accum |-> d.accum, space_emitted |-> d.space_emitted, history |-> d.history]
  BY DEF Decoder
<1>6. e = [accum |-> IF d.accum = 0 \/ d.accum >= 128 THEN 0 ELSE 2 * d.accum + bit,
           space_emitted |-> d.space_emitted, history |-> d.history]
  <2>1. CASE d.accum = 0
    BY <1>5, <2>1 DEF ProcessPulse
  <2>2. CASE d.accum # 0 /\ d.accum >= 128
    <3>1. e = [d EXCEPT !.accum = 0]
      BY <2>2 DEF ProcessPulse
    <3> QED BY <1>5, <2>2, <3>1
  <2>3. CASE d.accum # 0 /\ ~(d.accum >= 128)
    <3>1. e = [d EXCEPT !.accum = 2 * d.accum + bit]
      BY <2>3 DEF ProcessPulse
    <3> QED BY <1>5, <2>3, <3>1
  <2> QED BY <2>1, <2>2, <2>3
<1> HIDE DEF bit, len, new, e
<1>7. e \in Decoder
  <2> DEFINE a == IF d.accum = 0 \/ d.accum >= 128 THEN 0 ELSE 2 * d.accum + bit
  <2>1. a \in 0..255
    <3>1. CASE d.accum = 0 \/ d.accum >= 128
      BY <3>1
    <3>2. CASE d.accum \in 1..127
      <4>1. 2 * d.accum \in 0..255 /\ 2 * d.accum + 1 \in 0..255
        BY <3>2
      <4>2. a = 2 * d.accum + bit
        BY <3>2
      <4> HIDE DEF a
      <4> QED BY <1>4, <4>1, <4>2
    <3> HIDE DEF a
    <3> QED BY <1>3, <3>1, <3>2
  <2> HIDE DEF a
  <2> QED BY <1>2, <1>6, <2>1 DEF Decoder, a
<1>8. Stands(new.code, e.accum)
  <2>1. Stands(acc.code, d.accum)
    BY DEF Shows
  <2>2. CASE d.accum \in 1..63 /\ acc.code = CodeOf(d.accum)
    <3>1. e.accum = 2 * d.accum + bit /\ e.accum \in 1..127
      BY <1>4, <1>6, <2>2
    <3>2. Append(CodeOf(d.accum), len) = CodeOf(e.accum)
      <4>1. /\ CodeOf(2 * d.accum) = Append(CodeOf(d.accum), 1)
            /\ CodeOf(2 * d.accum + 1) = Append(CodeOf(d.accum), 3)
        BY <2>2, CodeOneMore
      <4>2. CASE bit = 0
        <5>1. e.accum = 2 * d.accum
          BY <2>2, <3>1, <4>2
        <5> QED BY <1>4, <4>1, <4>2, <5>1
      <4>3. CASE bit = 1
        <5>1. e.accum = 2 * d.accum + 1
          BY <3>1, <4>3
        <5> QED BY <1>4, <4>1, <4>3, <5>1
      <4> QED BY <1>4, <4>2, <4>3
    <3> QED BY <1>1, <2>2, <3>1, <3>2 DEF Stands
  <2>3. CASE d.accum \in 64..127 /\ acc.code = CodeOf(d.accum)
    <3>1. e.accum \in 128..255
      BY <1>4, <1>6, <2>3
    <3>2. d.accum \in 1..127 /\ d.accum >= 64
      BY <2>3
    <3>3. Len(acc.code) = 6
      BY <2>3, <3>2, CodeLengths, Zenon
    <3>4. Len(new.code) = 7
      BY <1>1, <3>3
    <3> QED BY <3>1, <3>4 DEF Stands
  <2>4. CASE d.accum \in 128..255 /\ Len(acc.code) = 7
    <3>1. e.accum = 0 /\ Len(new.code) > 7
      <4>1. d.accum >= 128
        BY <2>4
      <4>2. e.accum = 0
        BY <1>6, <4>1
      <4> QED BY <1>1, <2>4, <4>2
    <3> QED BY <3>1 DEF Stands
  <2>5. CASE d.accum = 0 /\ Len(acc.code) > 7
    <3>1. e.accum = 0 /\ Len(new.code) > 7
      BY <1>1, <1>6, <2>5
    <3> QED BY <3>1 DEF Stands
  <2>6. d.accum \in 1..127 => d.accum \in 1..63 \/ d.accum \in 64..127
    OBVIOUS
  <2> QED BY <2>1, <2>2, <2>3, <2>4, <2>5, <2>6 DEF Stands
<1>9. e.history = LastOf(HISTORY_CAPACITY, new.shown)
  BY <1>1, <1>6 DEF Shows
<1> QED BY <1>7, <1>8, <1>9 DEF Shows, e, new

-----------------------------------------------------------------------------
(* The notes, from one element to the next.                                *)

Blank(space) == [shown |-> <<>>, code |-> <<>>, space |-> space]

\* The notes after element k, begun with element first.
Noted(first, space, k) == FoldLeft(Listened, Blank(space), SubSeq(elements, first, k))

LEMMA BlankIsNotes ==
  ASSUME NEW space \in BOOLEAN
  PROVE  /\ Blank(space) \in Notes
         /\ Listened(Blank(FALSE), "LetterGap") = Blank(FALSE)
         /\ Listened(Blank(FALSE), "WordGap") = Blank(FALSE)
<1> DEFINE nothing == <<>>
           empty == Blank(FALSE)
<1>1. nothing \in Codes /\ nothing \in Seq(Characters) /\ Letter(nothing) = nothing
  BY EmptyCode, SequenceOfNone
<1>2. nothing \o nothing = nothing
  OBVIOUS
<1>3. Blank(space) = [shown |-> nothing, code |-> nothing, space |-> space]
  BY DEF Blank
<1>4. empty = [shown |-> nothing, code |-> nothing, space |-> FALSE]
  BY DEF Blank
<1>5. Listened(empty, "LetterGap") =
        [empty EXCEPT !.shown = @ \o Letter(empty.code), !.code = nothing]
  BY DEF Listened
<1>6. Listened(empty, "WordGap") =
        [shown |-> (empty.shown \o Letter(empty.code))
                     \o (IF empty.space THEN <<" ">> ELSE nothing),
         code |-> nothing, space |-> FALSE]
  BY DEF Listened
<1> HIDE DEF nothing, empty
<1>7. Blank(space) \in Notes
  BY <1>1, <1>3 DEF Notes
<1>8. empty.shown = nothing /\ empty.code = nothing /\ empty.space = FALSE
  BY <1>4
<1>9. empty.shown \o Letter(empty.code) = nothing
  BY <1>1, <1>2, <1>8
<1>10. Listened(empty, "LetterGap") = empty
  BY <1>4, <1>5, <1>9
<1>11. Listened(empty, "WordGap") = empty
  BY <1>2, <1>4, <1>6, <1>8, <1>9
<1> QED BY <1>7, <1>10, <1>11 DEF empty

LEMMA NotedMore ==
  ASSUME elements \in Seq(Elements), NEW first \in Nat \ {0}, NEW space \in BOOLEAN,
         NEW k \in Nat, first <= k + 1, k <= Len(elements)
  PROVE  /\ Noted(first, space, k) \in Notes
         /\ k + 1 = first => Noted(first, space, k) = Blank(space)
         /\ k + 1 <= Len(elements) =>
              Noted(first, space, k + 1) = Listened(Noted(first, space, k), elements[k + 1])
<1> DEFINE sent == SubSeq(elements, first, k)
<1>1. sent \in Seq(Elements)
  OBVIOUS
<1>2. Blank(space) \in Notes
  BY BlankIsNotes
<1>3. k + 1 = first => sent = <<>>
  OBVIOUS
<1>4. ASSUME k + 1 <= Len(elements)
      PROVE  /\ SubSeq(elements, first, k + 1) = Append(sent, elements[k + 1])
             /\ elements[k + 1] \in Elements
  <2> DEFINE more == SubSeq(elements, first, k + 1)
             same == Append(sent, elements[k + 1])
  <2>1. elements[k + 1] \in Elements
    BY <1>4
  <2>2. /\ sent \in Seq(Elements) /\ Len(sent) = k + 1 - first
        /\ \A i \in 1..(k + 1 - first) : sent[i] = elements[first - 1 + i]
    OBVIOUS
  <2>3. /\ more \in Seq(Elements) /\ Len(more) = k + 2 - first
        /\ \A i \in 1..(k + 2 - first) : more[i] = elements[first - 1 + i]
    BY <1>4
  <2> HIDE DEF more, sent
  <2>4. /\ same \in Seq(Elements) /\ Len(same) = k + 2 - first
        /\ \A i \in 1..(k + 2 - first) : same[i] = elements[first - 1 + i]
    <3>1. \A i \in 1..(k + 2 - first) :
            same[i] = IF i <= k + 1 - first THEN sent[i] ELSE elements[k + 1]
      BY <2>1, <2>2
    <3>2. ASSUME NEW i \in 1..(k + 2 - first) PROVE same[i] = elements[first - 1 + i]
      <4>1. CASE i <= k + 1 - first
        BY <2>2, <3>1, <4>1
      <4>2. CASE ~(i <= k + 1 - first)
        <5>1. first - 1 + i = k + 1
          BY <4>2
        <5> QED BY <3>1, <4>2, <5>1
      <4> QED BY <4>1, <4>2
    <3>3. same \in Seq(Elements) /\ Len(same) = Len(sent) + 1
      BY <2>1, <2>2
    <3> HIDE DEF same
    <3>4. Len(same) = k + 2 - first
      BY <2>2, <3>3
    <3> QED BY <3>2, <3>3, <3>4
  <2> HIDE DEF same
  <2>5. more = same
    <3>1. Len(more) = Len(same) /\ \A i \in 1..Len(more) : more[i] = same[i]
      BY <2>3, <2>4
    <3> QED BY <2>3, <2>4, <3>1
  <2> QED BY <2>1, <2>5 DEF more, same
<1> HIDE DEF sent
<1>5. /\ FoldLeft(Listened, Blank(space), <<>>) = Blank(space)
      /\ FoldLeft(Listened, Blank(space), sent) \in Notes
      /\ \A e \in Elements : FoldLeft(Listened, Blank(space), Append(sent, e)) =
                               Listened(FoldLeft(Listened, Blank(space), sent), e)
  BY <1>1, <1>2, HeardMore
<1>6. k + 1 <= Len(elements) =>
        Noted(first, space, k + 1) = Listened(Noted(first, space, k), elements[k + 1])
  BY <1>4, <1>5 DEF Noted, sent
<1>7. Noted(first, space, k) \in Notes
  BY <1>5 DEF Noted, sent
<1>8. k + 1 = first => Noted(first, space, k) = Blank(space)
  BY <1>3, <1>5 DEF Noted, sent
<1> QED BY <1>6, <1>7, <1>8

\* Gaps before the first mark say nothing.
LEMMA NotedLeading ==
  ASSUME elements \in Seq(Elements), NEW first \in Nat \ {0}, NEW k \in Nat,
         first <= k + 1, k <= Len(elements),
         \A j \in first..k : elements[j] \notin Marks
  PROVE  Noted(first, FALSE, k) = Blank(FALSE)
<1> DEFINE Still(l) == first <= l + 1 /\ l <= k => Noted(first, FALSE, l) = Blank(FALSE)
           T == {n \in Nat : Still(first - 1 + n)}
<1>1. Still(first - 1)
  <2> SUFFICES ASSUME first - 1 <= k PROVE Noted(first, FALSE, first - 1) = Blank(FALSE)
    OBVIOUS
  <2> DEFINE l == first - 1
  <2>1. l \in Nat /\ l + 1 = first /\ first <= l + 1 /\ l <= Len(elements)
    OBVIOUS
  <2> HIDE DEF l
  <2>2. Noted(first, FALSE, l) = Blank(FALSE)
    BY <2>1, NotedMore
  <2> QED BY <2>2 DEF l
<1>2. ASSUME NEW l \in Nat, first <= l + 1, Still(l) PROVE Still(l + 1)
  <2> SUFFICES ASSUME l + 1 <= k PROVE Noted(first, FALSE, l + 1) = Blank(FALSE)
    OBVIOUS
  <2>1. l + 1 \in first..k /\ l <= k /\ l + 1 <= Len(elements) /\ l <= Len(elements)
        /\ l + 1 \in 1..Len(elements)
    BY <1>2
  <2>2. Noted(first, FALSE, l) = Blank(FALSE)
    BY <1>2, <2>1
  <2>3. elements[l + 1] \in {"ElementGap", "LetterGap", "WordGap"}
    BY <2>1 DEF Elements
  <2>4. Noted(first, FALSE, l + 1) = Listened(Noted(first, FALSE, l), elements[l + 1])
    BY <1>2, <2>1, NotedMore
  <2>5. Listened(Blank(FALSE), "ElementGap") = Blank(FALSE)
    BY DEF Listened
  <2> QED BY <2>2, <2>3, <2>4, <2>5, BlankIsNotes
<1> HIDE DEF Still
<1>3. 0 \in T
  <2>1. first - 1 + 0 = first - 1
    OBVIOUS
  <2> QED BY <1>1, <2>1
<1>4. ASSUME NEW n \in Nat, n \in T PROVE n + 1 \in T
  <2>1. first - 1 + n \in Nat /\ first <= (first - 1 + n) + 1
        /\ (first - 1 + n) + 1 = first - 1 + (n + 1)
    OBVIOUS
  <2>2. Still(first - 1 + n)
    BY <1>4
  <2>3. Still((first - 1 + n) + 1)
    BY <1>2, <2>1, <2>2
  <2> QED BY <2>1, <2>3
<1> HIDE DEF T
<1>5. Nat \subseteq T
  BY <1>3, <1>4, SetInduction
<1>6. k - first + 1 \in T /\ first - 1 + (k - first + 1) = k
  BY <1>5
<1>7. Still(k)
  BY <1>6 DEF T
<1>8. first <= k + 1 /\ k <= k
  OBVIOUS
<1> QED BY <1>7, <1>8, Zenon DEF Still

\* Gaps of words, one after the other, say what one of them does.
LEMMA NotedWords ==
  ASSUME elements \in Seq(Elements), NEW first \in Nat \ {0}, NEW space \in BOOLEAN,
         NEW p \in Nat, NEW k \in Nat, first <= p + 1, p < k, k <= Len(elements),
         \A j \in (p + 1)..k : elements[j] = "WordGap"
  PROVE  Noted(first, space, k) = Listened(Noted(first, space, p), "WordGap")
<1> DEFINE word == Listened(Noted(first, space, p), "WordGap")
           Same(l) == l <= k => Noted(first, space, l) = word
           T == {n \in Nat : Same(p + 1 + n)}
<1>1. Noted(first, space, p) \in Notes
  BY NotedMore
<1>2. Listened(word, "WordGap") = word
  BY <1>1, GapsRepeat
<1>3. Same(p + 1)
  <2>1. p + 1 <= Len(elements) /\ p <= Len(elements) /\ p + 1 \in (p + 1)..k
    OBVIOUS
  <2>2. Noted(first, space, p + 1) = Listened(Noted(first, space, p), elements[p + 1])
    BY <2>1, NotedMore
  <2> QED BY <2>1, <2>2
<1> HIDE DEF word
<1>4. ASSUME NEW l \in Nat, p + 1 <= l, Same(l) PROVE Same(l + 1)
  <2> SUFFICES ASSUME l + 1 <= k PROVE Noted(first, space, l + 1) = word
    OBVIOUS
  <2>1. /\ l + 1 \in (p + 1)..k /\ l <= k /\ l + 1 <= Len(elements) /\ l <= Len(elements)
        /\ first <= l + 1
    BY <1>4
  <2>2. Noted(first, space, l) = word
    BY <1>4, <2>1
  <2>3. Noted(first, space, l + 1) = Listened(Noted(first, space, l), elements[l + 1])
    BY <1>4, <2>1, NotedMore
  <2> QED BY <1>2, <2>1, <2>2, <2>3
<1> HIDE DEF Same
<1>5. 0 \in T
  <2>1. p + 1 + 0 = p + 1
    OBVIOUS
  <2> QED BY <1>3, <2>1
<1>6. ASSUME NEW n \in Nat, n \in T PROVE n + 1 \in T
  <2>1. p + 1 + n \in Nat /\ p + 1 <= p + 1 + n /\ (p + 1 + n) + 1 = p + 1 + (n + 1)
    OBVIOUS
  <2>2. Same(p + 1 + n)
    BY <1>6
  <2>3. Same((p + 1 + n) + 1)
    BY <1>4, <2>1, <2>2
  <2> QED BY <2>1, <2>3
<1> HIDE DEF T
<1>7. Nat \subseteq T
  BY <1>5, <1>6, SetInduction
<1>8. k - p - 1 \in Nat /\ p + 1 + (k - p - 1) = k
  OBVIOUS
<1>9. Same(k)
  BY <1>7, <1>8 DEF T
<1>10. k <= k
  OBVIOUS
<1> QED BY <1>9, <1>10, Zenon DEF Same, word

-----------------------------------------------------------------------------
(* The next mark, and the silence before it.                               *)

LEMMA NextMark ==
  ASSUME elements \in Seq(Elements), pos \in Nat, NextMarks # {}
  PROVE  LET i == Min(NextMarks)
         IN  /\ i \in DOMAIN elements /\ i > pos /\ i \in Nat /\ elements[i] \in Marks
             /\ i <= Len(elements)
             /\ \A j \in Run(i) : j \in DOMAIN elements /\ elements[j] \notin Marks
<1>1. NextMarks \subseteq Nat /\ DOMAIN elements = 1..Len(elements)
  BY DEF NextMarks
<1>2. Min(NextMarks) \in NextMarks /\ \A y \in NextMarks : Min(NextMarks) <= y
  BY <1>1, LeastElement
<1> DEFINE i == Min(NextMarks)
<1> HIDE DEF i
<1>3. /\ i \in DOMAIN elements /\ i > pos /\ i \in Nat /\ elements[i] \in Marks
      /\ i <= Len(elements)
  BY <1>1, <1>2 DEF NextMarks, i
<1>4. ASSUME NEW j \in Run(i) PROVE j \in DOMAIN elements /\ elements[j] \notin Marks
  <2>1. j \in DOMAIN elements /\ j > pos /\ ~(i <= j)
    BY <1>1, <1>3 DEF Run
  <2> QED BY <1>2, <2>1 DEF NextMarks, i
<1> QED BY <1>3, <1>4 DEF i

\* The gaps between two marks are none, one, or gaps of words.
LEMMA RunIsSpaced ==
  ASSUME elements \in Seq(Elements), Spaced(elements), pos \in Nat \ {0},
         NEW i \in Nat, i > pos, i <= Len(elements),
         \A j \in Run(i) : j \in DOMAIN elements /\ elements[j] \notin Marks
  PROVE  \/ i = pos + 1
         \/ i = pos + 2 /\ elements[pos + 1] \in {"ElementGap", "LetterGap"}
         \/ i > pos + 1 /\ \A j \in (pos + 1)..(i - 1) : elements[j] = "WordGap"
<1>1. ASSUME NEW j \in (pos + 1)..(i - 1), elements[j] # "WordGap"
      PROVE  i = pos + 2 /\ elements[pos + 1] \in {"ElementGap", "LetterGap"}
  <2>1. j \in Run(i) /\ j \in DOMAIN elements /\ elements[j] \in Elements
    BY DEF Run
  <2>2. elements[j] \in {"ElementGap", "LetterGap"}
    BY <1>1, <2>1 DEF Elements
  <2>3. elements[j - 1] \in Marks /\ (j < Len(elements) => elements[j + 1] \in Marks)
    BY <2>1, <2>2 DEF Spaced
  <2>4. j - 1 \notin Run(i) /\ j + 1 \notin Run(i)
    BY <2>1, <2>3
  <2>5. j = pos + 1 /\ i = pos + 2
    BY <2>4 DEF Run
  <2> QED BY <2>2, <2>5
<1> QED BY <1>1

LEMMA GapTimes ==
  ASSUME cfg \in Configs, Readable, elements \in Seq(Elements), Spaced(elements),
         pos \in Nat \ {0}, NEW i \in Nat, i > pos, i <= Len(elements),
         \A j \in Run(i) : j \in DOMAIN elements /\ elements[j] \notin Marks
  PROVE  /\ GapBefore(i) \in Int
         /\ i = pos + 1 => GapBefore(i) = 0
         /\ i = pos + 2 => GapBefore(i) = Duration(elements[pos + 1], cfg)
         /\ i > pos + 1 /\ (\A j \in (pos + 1)..(i - 1) : elements[j] = "WordGap")
              => GapBefore(i) >= Duration("WordGap", cfg)
<1> DEFINE S == Run(i)
           w == [j \in S |-> Duration(elements[j], cfg)]
<1>1. \A j \in S : elements[j] \in Elements /\ Duration(elements[j], cfg) \in Int
  <2>1. \A j \in S : elements[j] \in Elements
    OBVIOUS
  <2> QED BY <2>1, DurationIsInt, DecoderAssumption
<1>2. w \in [S -> Int] /\ \A j \in S : w[j] = Duration(elements[j], cfg)
  BY <1>1
<1>3. IsFiniteSet(S) /\ \E h : Sums(h, SUBSET S, w) /\ GapBefore(i) = h[S]
  <2> HIDE DEF w
  <2> QED BY <1>2, GapIsSum
<1>4. PICK h : Sums(h, SUBSET S, w) /\ GapBefore(i) = h[S]
  BY <1>3
<1> HIDE DEF w
<1>5. GapBefore(i) \in Int
  BY <1>4 DEF Sums
<1>6. h[{}] = 0
      /\ (S # {} => Pick(S) \in S /\ h[S] = w[Pick(S)] + h[S \ {Pick(S)}])
  BY <1>4 DEF Sums, Adds, Pick
<1>7. ASSUME i = pos + 1 PROVE GapBefore(i) = 0
  <2>1. S = {}
    BY <1>7 DEF Run
  <2> QED BY <1>4, <1>6, <2>1
<1>8. ASSUME i = pos + 2 PROVE GapBefore(i) = Duration(elements[pos + 1], cfg)
  <2>1. S = {pos + 1}
    BY <1>8 DEF Run
  <2> HIDE DEF S
  <2>2. S # {} /\ Pick(S) = pos + 1 /\ S \ {Pick(S)} = {}
    BY <2>1 DEF Pick
  <2>3. h[S] = w[pos + 1] + 0 /\ w[pos + 1] = Duration(elements[pos + 1], cfg)
        /\ w[pos + 1] \in Int
    BY <1>2, <1>6, <2>1, <2>2
  <2> QED BY <1>4, <2>3
<1>9. ASSUME i > pos + 1, \A j \in (pos + 1)..(i - 1) : elements[j] = "WordGap"
      PROVE  GapBefore(i) >= Duration("WordGap", cfg)
  <2>1. S = (pos + 1)..(i - 1) /\ S # {}
    <3>1. pos + 1 \in (pos + 1)..(i - 1)
      BY <1>9
    <3> QED BY <3>1 DEF Run
  <2>2. \A j \in S : w[j] = Duration("WordGap", cfg)
    BY <1>2, <1>9, <2>1
  <2>3. 0 \in Jitter
    BY DecoderAssumption
  <2>4. Duration("WordGap", cfg) \in Nat
    <3>1. "WordGap" \in Elements
      BY DEF Elements
    <3>2. Duration("WordGap", cfg) \in Int /\ Duration("WordGap", cfg) >= 0
      BY <2>3, <3>1, ReadableTimes
    <3> QED BY <3>2
  <2> HIDE DEF S
  <2>5. w \in [S -> Nat]
    BY <1>2, <2>2, <2>4
  <2>6. \A s \in SUBSET S : h[s] >= 0 /\ h[s] \in Int
    BY <1>3, <1>4, <2>5, SumsPositive DEF Sums
  <2>7. h[S] = Duration("WordGap", cfg) + h[S \ {Pick(S)}]
    BY <1>6, <2>1, <2>2
  <2>8. h[S \ {Pick(S)}] >= 0 /\ h[S \ {Pick(S)}] \in Int
    BY <2>6
  <2> QED BY <1>4, <2>4, <2>7, <2>8
<1> QED BY <1>5, <1>7, <1>8, <1>9

\* What the listener has before the next mark is what the silence says.
LEMMA AfterRun ==
  ASSUME cfg \in Configs, Readable, elements \in Seq(Elements), Spaced(elements),
         pos \in Nat \ {0}, NEW i \in Nat, i > pos, i <= Len(elements),
         \A k \in Run(i) : k \in DOMAIN elements /\ elements[k] \notin Marks,
         NEW first \in Nat \ {0}, first <= pos + 1, NEW space \in BOOLEAN, NEW j \in Jitter
  PROVE  Noted(first, space, i - 1) = After(Noted(first, space, pos), GapBefore(i) + j)
<1> DEFINE acc == Noted(first, space, pos)
           gap == GapBefore(i) + j
<1>1. /\ dit \in Nat /\ dit > 0 /\ j \in Int /\ j < 2 * dit
      /\ Duration("ElementGap", cfg) + j < 2 * dit
      /\ Duration("LetterGap", cfg) + j >= 2 * dit
      /\ Duration("LetterGap", cfg) + j < 6 * dit
      /\ Duration("WordGap", cfg) + j >= 6 * dit
      /\ Duration("WordGap", cfg) \in Int
  <2>1. "WordGap" \in Elements
    BY DEF Elements
  <2> QED BY <2>1, ReadableTimes
<1>2. /\ GapBefore(i) \in Int
      /\ i = pos + 1 => GapBefore(i) = 0
      /\ i = pos + 2 => GapBefore(i) = Duration(elements[pos + 1], cfg)
      /\ i > pos + 1 /\ (\A k \in (pos + 1)..(i - 1) : elements[k] = "WordGap")
           => GapBefore(i) >= Duration("WordGap", cfg)
  BY GapTimes
<1>3. pos + 1 <= Len(elements) /\ pos <= Len(elements) /\ pos \in Nat
  OBVIOUS
<1>4. acc \in Notes /\ Noted(first, space, pos + 1) = Listened(acc, elements[pos + 1])
  BY <1>3, NotedMore
<1> HIDE DEF acc, gap
<1>5. CASE i = pos + 1
  <2>1. gap < 2 * dit
    BY <1>1, <1>2, <1>5 DEF gap
  <2>2. i - 1 = pos
    BY <1>5
  <2> QED BY <2>1, <2>2 DEF After, acc, gap
<1>6. CASE i = pos + 2 /\ elements[pos + 1] = "ElementGap"
  <2>1. gap < 2 * dit
    BY <1>1, <1>2, <1>6 DEF gap
  <2>2. i - 1 = pos + 1
    BY <1>6
  <2>3. Listened(acc, "ElementGap") = acc
    BY DEF Listened
  <2> QED BY <1>4, <1>6, <2>1, <2>2, <2>3 DEF After, acc, gap
<1>7. CASE i = pos + 2 /\ elements[pos + 1] = "LetterGap"
  <2>1. ~(gap < 2 * dit) /\ gap < 6 * dit
    <3>1. gap = Duration("LetterGap", cfg) + j
      BY <1>2, <1>7 DEF gap
    <3>2. gap \in Int
      BY <1>1, <1>2 DEF gap
    <3> QED BY <1>1, <3>1, <3>2
  <2>2. i - 1 = pos + 1
    BY <1>7
  <2> QED BY <1>4, <1>7, <2>1, <2>2 DEF After, acc, gap
<1>8. CASE i > pos + 1 /\ \A k \in (pos + 1)..(i - 1) : elements[k] = "WordGap"
  <2>1. ~(gap < 2 * dit) /\ ~(gap < 6 * dit)
    <3>1. GapBefore(i) >= Duration("WordGap", cfg)
      BY <1>2, <1>8
    <3> QED BY <1>1, <1>2, <3>1 DEF gap
  <2>2. pos < i - 1 /\ i - 1 \in Nat /\ i - 1 <= Len(elements)
    BY <1>8
  <2>3. Noted(first, space, i - 1) = Listened(acc, "WordGap")
    BY <1>3, <1>8, <2>2, NotedWords DEF acc
  <2> QED BY <2>1, <2>3 DEF After, acc, gap
<1> QED BY <1>5, <1>6, <1>7, <1>8, RunIsSpaced

-----------------------------------------------------------------------------
(* The elements of a text are spaced.                                      *)

LEMMA SpelledIsSpaced ==
  ASSUME NEW p \in Seq({1, 3}) \ {<<>>}
  PROVE  /\ Spelled(p) \in Seq(Elements) /\ Spaced(Spelled(p)) /\ Len(Spelled(p)) >= 1
         /\ Spelled(p)[1] \in Marks /\ Spelled(p)[Len(Spelled(p))] \in Marks
<1> DEFINE n == 2 * Len(p) - 1
           s == Spelled(p)
<1>1. Len(p) \in Nat /\ n \in Nat /\ n >= 1 /\ n % 2 = 1
  OBVIOUS
<1>2. \A i \in 1..n : IF i % 2 = 0 THEN s[i] = "ElementGap" ELSE s[i] \in Marks
  BY DEF Spelled, Marks
<1>3. s = [i \in 1..n |-> s[i]]
  BY DEF Spelled
<1> HIDE DEF s, n
<1>4. \A i \in 1..n : s[i] \in Elements
  BY <1>2 DEF Elements
<1>5. s \in Seq(Elements) /\ Len(s) = n /\ DOMAIN s = 1..n
  <2>1. [i \in 1..n |-> s[i]] \in Seq(Elements) /\ Len([i \in 1..n |-> s[i]]) = n
        /\ DOMAIN [i \in 1..n |-> s[i]] = 1..n
    BY <1>1, <1>4
  <2> QED BY <1>3, <2>1, Zenon
<1>6. Spaced(s)
  <2> SUFFICES ASSUME NEW i \in 1..n, s[i] \in {"ElementGap", "LetterGap"}
               PROVE  i > 1 /\ s[i - 1] \in Marks /\ (i < n => s[i + 1] \in Marks)
    BY <1>5 DEF Spaced
  <2>1. i % 2 = 0
    BY <1>2 DEF Marks
  <2>2. i > 1 /\ i - 1 \in 1..n /\ (i - 1) % 2 # 0 /\ (i + 1) % 2 # 0
    BY <1>1, <2>1
  <2>3. i < n => i + 1 \in 1..n
    BY <1>1
  <2> QED BY <1>2, <2>2, <2>3
<1>7. s[1] \in Marks /\ s[n] \in Marks
  BY <1>1, <1>2
<1> QED BY <1>1, <1>5, <1>6, <1>7 DEF s

LEMMA Joined ==
  ASSUME NEW a \in Seq(Elements), Spaced(a), NEW b \in Seq(Elements), Spaced(b),
         Len(b) >= 1, b[1] \in Marks
  PROVE  /\ a \o b \in Seq(Elements) /\ Spaced(a \o b) /\ Len(a \o b) >= 1
         /\ (a \o b)[Len(a \o b)] = b[Len(b)]
<1> DEFINE c == a \o b
           m == Len(a)
           n == Len(b)
<1>1. /\ c \in Seq(Elements) /\ Len(c) = m + n /\ m \in Nat /\ n \in Nat /\ n >= 1
      /\ DOMAIN c = 1..(m + n) /\ DOMAIN a = 1..m /\ DOMAIN b = 1..n
      /\ \A i \in 1..(m + n) : c[i] = IF i <= m THEN a[i] ELSE b[i - m]
  OBVIOUS
<1> HIDE DEF c
<1>2. Spaced(c)
  <2> HIDE DEF m, n
  <2> DEFINE Gaps == {"ElementGap", "LetterGap"}
  <2>1. ASSUME NEW i \in 1..(m + n), c[i] \in Gaps
        PROVE  i > 1 /\ c[i - 1] \in Marks /\ (i < m + n => c[i + 1] \in Marks)
    <3>1. CASE i <= m
      <4>1. c[i] = a[i] /\ i \in 1..m
        BY <1>1, <3>1
      <4>2. i > 1 /\ a[i - 1] \in Marks /\ (i < m => a[i + 1] \in Marks)
        BY <1>1, <2>1, <4>1 DEF Spaced, m
      <4>3. i - 1 \in 1..(m + n) /\ i - 1 <= m /\ c[i - 1] = a[i - 1]
        BY <1>1, <3>1, <4>2
      <4>4. i < m => c[i + 1] = a[i + 1]
        BY <1>1, <3>1
      <4>5. i = m => c[i + 1] = b[1]
        <5>1. i = m => i + 1 \in 1..(m + n) /\ ~(i + 1 <= m) /\ (i + 1) - m = 1
          BY <1>1
        <5> QED BY <1>1, <5>1
      <4>6. i < m \/ i = m
        BY <1>1, <3>1
      <4> QED BY <4>2, <4>3, <4>4, <4>5, <4>6
    <3>2. CASE ~(i <= m)
      <4>1. c[i] = b[i - m] /\ i - m \in 1..n
        BY <1>1, <3>2
      <4>2. i - m > 1 /\ b[(i - m) - 1] \in Marks /\ (i - m < n => b[(i - m) + 1] \in Marks)
        BY <1>1, <2>1, <4>1 DEF Spaced, n
      <4>3. /\ i - 1 \in 1..(m + n) /\ ~(i - 1 <= m) /\ (i - 1) - m = (i - m) - 1
            /\ i < m + n => /\ i + 1 \in 1..(m + n) /\ ~(i + 1 <= m) /\ i - m < n
                            /\ (i + 1) - m = (i - m) + 1
        BY <1>1, <3>2, <4>2
      <4>4. c[i - 1] = b[(i - m) - 1] /\ (i < m + n => c[i + 1] = b[(i - m) + 1])
        BY <1>1, <4>3
      <4> QED BY <1>1, <4>2, <4>3, <4>4
    <3> QED BY <3>1, <3>2
  <2> QED BY <1>1, <2>1 DEF Spaced
<1>3. c[m + n] = b[n]
  <2>1. m + n \in 1..(m + n) /\ ~(m + n <= m) /\ (m + n) - m = n
    BY <1>1
  <2> QED BY <1>1, <2>1
<1> QED BY <1>1, <1>2, <1>3 DEF c

\* The gap of a letter goes after a mark, the gap of a word after anything but
\* the gap of a letter.
LEMMA GapAppended ==
  ASSUME NEW a \in Seq(Elements), Spaced(a), NEW g \in {"LetterGap", "WordGap"},
         g = "LetterGap" => Len(a) >= 1 /\ a[Len(a)] \in Marks,
         Len(a) >= 1 => a[Len(a)] \in Marks \union {"WordGap"}
  PROVE  /\ Append(a, g) \in Seq(Elements) /\ Spaced(Append(a, g))
         /\ Len(Append(a, g)) >= 1 /\ Append(a, g)[Len(Append(a, g))] = g
<1> DEFINE c == Append(a, g)
           m == Len(a)
<1>1. /\ c \in Seq(Elements) /\ Len(c) = m + 1 /\ m \in Nat /\ DOMAIN c = 1..(m + 1)
      /\ DOMAIN a = 1..m /\ c[m + 1] = g /\ \A i \in 1..m : c[i] = a[i]
  BY DEF Elements
<1> HIDE DEF c
<1>2. Spaced(c)
  <2> HIDE DEF m
  <2>1. ASSUME NEW i \in 1..(m + 1), c[i] \in {"ElementGap", "LetterGap"}
        PROVE  i > 1 /\ c[i - 1] \in Marks /\ (i < m + 1 => c[i + 1] \in Marks)
    <3>1. CASE i \in 1..m
      <4>1. c[i] = a[i]
        BY <1>1, <3>1
      <4>2. i > 1 /\ a[i - 1] \in Marks /\ (i < m => a[i + 1] \in Marks)
        BY <1>1, <2>1, <3>1, <4>1 DEF Spaced, m
      <4>3. i # m
        <5>1. i = m => m >= 1 /\ a[m] \in {"ElementGap", "LetterGap"}
          BY <2>1, <3>1, <4>1
        <5> QED BY <5>1 DEF m, Marks
      <4>4. i < m /\ i - 1 \in 1..m /\ i + 1 \in 1..m
        BY <1>1, <3>1, <4>2, <4>3
      <4> QED BY <1>1, <4>2, <4>4
    <3>2. CASE i = m + 1
      <4>1. g = "LetterGap"
        BY <1>1, <2>1, <3>2
      <4>2. m >= 1 /\ a[m] \in Marks
        BY <4>1 DEF m
      <4>3. i - 1 = m /\ m \in 1..m /\ i > 1 /\ ~(i < m + 1)
        BY <1>1, <3>2, <4>2
      <4> QED BY <1>1, <4>2, <4>3
    <3> QED BY <1>1, <3>1, <3>2
  <2> QED BY <1>1, <2>1 DEF Spaced
<1> QED BY <1>1, <1>2 DEF c

\* No draft ends with a gap to pop.
LEMMA NothingToPop ==
  ASSUME NEW s \in Seq(Elements), Len(s) >= 1 => s[Len(s)] \in Marks \union {"WordGap"}
  PROVE  WithoutTrailingGaps(s) = s
<1> DEFINE kept == {i \in DOMAIN s : s[i] \notin {"ElementGap", "LetterGap"}}
           T == kept \union {0}
           n == Len(s)
<1>1. n \in Nat /\ DOMAIN s = 1..n /\ SubSeq(s, 1, n) = s
  OBVIOUS
<1>2. n \in T
  <2>1. CASE n = 0
    BY <2>1
  <2>2. CASE n >= 1
    <3>1. s[n] \in Marks \union {"WordGap"} /\ n \in DOMAIN s
      BY <1>1, <2>2
    <3>2. s[n] \notin {"ElementGap", "LetterGap"}
      BY <3>1 DEF Marks
    <3> QED BY <3>1, <3>2
  <2> QED BY <1>1, <2>1, <2>2
<1>3. T \subseteq 0..n /\ T # {}
  BY <1>1
<1>4. Max(T) = n
  <2> HIDE DEF T, n
  <2>1. Max(T) \in T /\ \A y \in T : Max(T) >= y
    BY <1>1, <1>3, GreatestElement
  <2>2. Max(T) \in 0..n /\ Max(T) >= n
    BY <1>2, <1>3, <2>1
  <2> QED BY <1>1, <2>2
<1> QED BY <1>1, <1>4 DEF WithoutTrailingGaps

\* What text_to_elements has after some characters.
Drafts ==
  {d \in [elements : Seq(Elements), first_char : BOOLEAN] :
     /\ Spaced(d.elements)
     /\ d.first_char => Len(d.elements) = 0 \/ d.elements[Len(d.elements)] = "WordGap"
     /\ ~d.first_char => Len(d.elements) >= 1 /\ d.elements[Len(d.elements)] \in Marks}

LEMMA DraftsGrow ==
  ASSUME NEW d \in Drafts, NEW c \in STRING
  PROVE  AddChar(d, c) \in Drafts
<1> DEFINE a == d.elements
<1>1. /\ a \in Seq(Elements) /\ d.first_char \in BOOLEAN /\ Spaced(a) /\ Len(a) \in Nat
      /\ d.first_char => Len(a) = 0 \/ a[Len(a)] = "WordGap"
      /\ ~d.first_char => Len(a) >= 1 /\ a[Len(a)] \in Marks
      /\ Len(a) >= 1 => a[Len(a)] \in Marks \union {"WordGap"}
  BY DEF Drafts
<1> HIDE DEF a
<1>2. CASE c = " "
  <2>1. WithoutTrailingGaps(a) = a
    BY <1>1, NothingToPop
  <2>2. AddChar(d, c) = [elements |-> Append(a, "WordGap"), first_char |-> TRUE]
    BY <1>2, <2>1 DEF AddChar, a
  <2> DEFINE b == Append(a, "WordGap")
  <2>3. b \in Seq(Elements) /\ Spaced(b) /\ Len(b) >= 1 /\ b[Len(b)] = "WordGap"
    BY <1>1, GapAppended
  <2> HIDE DEF b
  <2>4. AddChar(d, c) = [elements |-> b, first_char |-> TRUE]
    BY <2>2 DEF b
  <2> QED BY <2>3, <2>4 DEF Drafts
<1>3. CASE c # " " /\ CharToMorse(c) = {}
  <2>1. AddChar(d, c) = d
    BY <1>3, Zenon DEF AddChar
  <2> QED BY <2>1
<1>4. CASE c # " " /\ CharToMorse(c) # {}
  <2> DEFINE p == CHOOSE x \in CharToMorse(c) : TRUE
             s == Spelled(p)
             gap == IF d.first_char THEN <<>> ELSE <<"LetterGap">>
             b == a \o gap
             e == b \o s
  <2>1. p \in Seq({1, 3}) \ {<<>>}
    <3>1. Upper(c) \in DOMAIN MORSE_TABLE /\ CharToMorse(c) = {MORSE_TABLE[Upper(c)]}
      BY <1>4 DEF CharToMorse
    <3>2. \A x \in DOMAIN MORSE_TABLE : MORSE_TABLE[x] \in Seq({1, 3}) \ {<<>>}
      BY TablesAgree, Zenon
    <3>3. p \in CharToMorse(c)
      BY <1>4
    <3> HIDE DEF p
    <3> QED BY <3>1, <3>2, <3>3
  <2>2. AddChar(d, c) = [elements |-> e, first_char |-> FALSE]
    BY <1>4 DEF AddChar, a
  <2>3. s \in Seq(Elements) /\ Spaced(s) /\ Len(s) >= 1 /\ s[1] \in Marks /\ s[Len(s)] \in Marks
    <3> HIDE DEF p
    <3> QED BY <2>1, SpelledIsSpaced
  <2> HIDE DEF p, s
  <2>4. b \in Seq(Elements) /\ Spaced(b)
    <3>1. "LetterGap" \in Elements
      BY DEF Elements
    <3>2. a \o <<>> = a /\ a \o <<"LetterGap">> = Append(a, "LetterGap")
      BY <1>1, <3>1, SequenceOfOne
    <3>3. CASE d.first_char
      BY <1>1, <3>2, <3>3
    <3>4. CASE ~d.first_char
      <4>1. b = Append(a, "LetterGap")
        BY <3>2, <3>4
      <4>2. /\ Append(a, "LetterGap") \in Seq(Elements) /\ Spaced(Append(a, "LetterGap"))
        BY <1>1, <3>4, GapAppended
      <4> HIDE DEF b
      <4> QED BY <4>1, <4>2
    <3> QED BY <1>1, <3>3, <3>4
  <2> HIDE DEF b
  <2>5. e \in Seq(Elements) /\ Spaced(e) /\ Len(e) >= 1 /\ e[Len(e)] = s[Len(s)]
    BY <2>3, <2>4, Joined
  <2> HIDE DEF e
  <2> QED BY <2>2, <2>3, <2>5 DEF Drafts
<1> QED BY <1>2, <1>3, <1>4

\* The fold's own recursion, for AddChar.
Writing(d, c) ==
  CHOOSE iter : iter = [s \in SUBSET DOMAIN c |->
                          IF s = {} THEN d ELSE LET x == Max(s)
                                                IN AddChar(iter[s \ {x}], c[x])]

CharAdded == [x \in Drafts \X STRING |-> AddChar(x[1], x[2])]

LEMMA TextIsSpaced ==
  ASSUME NEW c \in Seq(STRING)
  PROVE  TextToElements(c) \in Seq(Elements) /\ Spaced(TextToElements(c))
<1> DEFINE nothing == <<>>
           d == [elements |-> nothing, first_char |-> TRUE]
           Step(f) == [s \in SUBSET DOMAIN c |->
                         IF s = {} THEN d ELSE AddChar(f[s \ {Max(s)}], c[Max(s)])]
<1>1. DOMAIN c = 1..Len(c) /\ Len(c) \in Nat /\ \A i \in DOMAIN c : c[i] \in STRING
  OBVIOUS
<1>2. d \in Drafts
  <2>1. nothing \in Seq(Elements) /\ Len(nothing) = 0 /\ DOMAIN nothing = {}
    OBVIOUS
  <2> HIDE DEF nothing
  <2> QED BY <2>1 DEF Drafts, Spaced
<1>3. CharAdded \in [Drafts \X STRING -> Drafts]
  BY DraftsGrow DEF CharAdded
<1>4. \A n \in Drafts, e \in STRING : CharAdded[<<n, e>>] = AddChar(n, e)
  BY DEF CharAdded
<1> HIDE DEF d
<1>5. ASSUME NEW s \in SUBSET DOMAIN c, s # {} PROVE Max(s) \in s /\ c[Max(s)] \in STRING
  <2>1. s \subseteq 0..Len(c)
    BY <1>1
  <2> QED BY <1>1, <1>5, <2>1, GreatestElement
<1>6. PICK h : Solution(h, Drafts, d, CharAdded, c)
  BY <1>2, <1>3, FoldExists, Zenon
<1>7. h = Step(h)
  <2> USE DEF Solution
  <2>1. ASSUME NEW s \in SUBSET DOMAIN c PROVE h[s] = Step(h)[s]
    <3>1. CASE s = {}
      BY <1>6, <3>1
    <3>2. CASE s # {}
      <4>1. h[s \ {Max(s)}] \in Drafts /\ c[Max(s)] \in STRING
        BY <1>5, <1>6, <3>2
      <4>2. h[s] = AddChar(h[s \ {Max(s)}], c[Max(s)])
        BY <1>4, <1>6, <3>2, <4>1
      <4> QED BY <3>2, <4>2
    <3> QED BY <3>1, <3>2
  <2> QED BY <1>6, <2>1
<1> DEFINE f == Writing(d, c)
<1>8. f = Step(f)
  <2>1. \E iter : iter = Step(iter) BY <1>7
  <2> QED BY <2>1, Zenon DEF Writing
<1>9. FoldLeft(AddChar, d, c) = f[DOMAIN c]
  BY Zenon DEF FoldLeft, MapThenFoldSet, Writing
<1> HIDE DEF f
<1>10. f[{}] = d
  <2>1. Step(f)[{}] = d OBVIOUS
  <2> QED BY <1>8, <2>1
<1>11. ASSUME NEW s \in SUBSET DOMAIN c, s # {}, f[s \ {Max(s)}] \in Drafts
       PROVE  f[s] = CharAdded[<<f[s \ {Max(s)}], c[Max(s)]>>]
  <2>1. Step(f)[s] = AddChar(f[s \ {Max(s)}], c[Max(s)])
    BY <1>11
  <2>2. f[s] = Step(f)[s]
    <3> HIDE DEF Step
    <3> QED BY <1>8
  <2> QED BY <1>4, <1>5, <1>11, <2>1, <2>2
<1>12. PICK q : Follows(q, CharAdded, d, c) /\ f[DOMAIN c] = q[Len(c)]
  <2>1. Solving(f, Drafts, d, CharAdded, c)
    BY <1>10, <1>11 DEF Solving
  <2>2. Reaches(f[DOMAIN c], CharAdded, d, c)
    BY <1>2, <1>3, <2>1, SolutionFollows
  <2> QED BY <2>2 DEF Reaches
<1>13. f[DOMAIN c] \in Drafts
  <2>1. Len(c) \in 0..Len(c)
    BY <1>1
  <2> QED BY <1>2, <1>3, <1>12, <2>1, FollowsType
<1> DEFINE els == FoldLeft(AddChar, d, c).elements
<1>14. /\ els \in Seq(Elements) /\ Spaced(els)
       /\ Len(els) >= 1 => els[Len(els)] \in Marks \union {"WordGap"}
  BY <1>9, <1>13 DEF Drafts
<1>15. TextToElements(c) = WithoutTrailingGaps(els)
  BY DEF TextToElements, d
<1> HIDE DEF els
<1>16. WithoutTrailingGaps(els) = els
  BY <1>14, NothingToPop
<1> QED BY <1>14, <1>15, <1>16

-----------------------------------------------------------------------------
(* The invariant.                                                          *)

DecoderTypes ==
  /\ cfg \in Configs
  /\ elements \in Seq(Elements) /\ Spaced(elements)
  /\ pos \in 0..Len(elements) /\ keyed \in BOOLEAN /\ since \in Int
  /\ cleared \in [at : Int, keyed : BOOLEAN] /\ cleared.at \in -1..pos
  /\ dstate \in {"Idle", "Down", "Up"}

\* The line is down during a mark, and was up for no time when it ended.
OnTheAir ==
  /\ pos >= 1 => elements[pos] \in Marks
  /\ keyed => pos >= 1 /\ since = 0
  /\ cleared.at = -1 => ~cleared.keyed

First == IF cleared.at = -1 THEN 1 ELSE cleared.at + 1
Space == cleared.keyed /\ ~(keyed /\ pos = cleared.at)
Notebook(k) == Noted(First, Space, k)

\* The decoder has heard nothing; it is in a mark; or it is in the silence after
\* one, and shows what the listener has after as much of it as it saw.
HeardNothing ==
  /\ Now = [accum |-> 1, space_emitted |-> FALSE, history |-> <<>>]
  /\ keyed = cleared.keyed
  /\ cleared.at = pos \/ (cleared.at = -1 /\ pos = 0 /\ ~keyed)
InMark == keyed /\ cleared.at < pos /\ Now \in Decoder /\ Shows(Now, Notebook(pos - 1))
InSilence ==
  /\ ~keyed /\ pos >= 1
  /\ cleared.at < pos \/ (cleared.at = pos /\ cleared.keyed)
  /\ Notebook(pos).space = TRUE
  /\ Silent(Now, After(Notebook(pos), since))

Heard ==
  /\ dstate = "Idle" => HeardNothing
  /\ dstate = "Down" => InMark
  /\ dstate = "Up" => InSilence

DecoderInv == DecoderTypes /\ OnTheAir /\ (Readable => Heard)

LEMMA MomentsAreTimes ==
  ASSUME DecoderTypes
  PROVE  Moments(dit) \subseteq Int
<1>1. dit = dot_duration_us(cfg) /\ cfg \in Configs
  BY DEF dit, dot_duration_us, DecoderTypes
<1> QED BY <1>1, DecoderAssumption

LEMMA TypesKept ==
  ASSUME DecoderTypes, OnTheAir, [DecoderNext]_cwVars
  PROVE  DecoderTypes' /\ OnTheAir'
<1> USE DEF DecoderTypes, OnTheAir
<1>1. pos \in Nat /\ Len(elements) \in Nat
  OBVIOUS
<1>2. CASE Down
  <2>1. NextMarks # {} /\ keyed' = TRUE /\ pos' = Min(NextMarks) /\ since' = 0
        /\ cfg' = cfg /\ elements' = elements /\ cleared' = cleared /\ dstate' = "Down"
    BY <1>2 DEF Down, OnTransition, senderVars
  <2> DEFINE i == Min(NextMarks)
  <2>2. i \in Nat /\ i > pos /\ i <= Len(elements) /\ elements[i] \in Marks
    BY <1>1, <2>1, NextMark
  <2> HIDE DEF i
  <2>3. pos' = i
    BY <2>1 DEF i
  <2>4. cleared.at \in -1..i /\ i \in 0..Len(elements)
    BY <1>1, <2>2
  <2> QED BY <2>1, <2>2, <2>3, <2>4
<1>3. CASE Up
  <2>1. keyed' = FALSE /\ dstate' = "Up" /\ cfg' = cfg /\ elements' = elements
        /\ pos' = pos /\ since' = since /\ cleared' = cleared
    BY <1>3 DEF Up, OnTransition, senderVars
  <2> QED BY <2>1
<1>4. CASE Poll
  <2>1. ~keyed /\ keyed' = keyed /\ dstate' = dstate /\ cfg' = cfg /\ elements' = elements
        /\ pos' = pos /\ since' \in Moments(dit) /\ cleared' = cleared
    BY <1>4 DEF Poll, senderVars
  <2>2. since' \in Int
    BY <2>1, MomentsAreTimes
  <2> QED BY <2>1, <2>2
<1>5. CASE Clear
  <2>1. cleared' = [at |-> pos, keyed |-> keyed] /\ dstate' = "Idle" /\ cfg' = cfg
        /\ elements' = elements /\ pos' = pos /\ keyed' = keyed /\ since' = since
    BY <1>5 DEF Clear, senderVars
  <2>2. cleared' \in [at : Int, keyed : BOOLEAN] /\ cleared'.at = pos /\ pos \in -1..pos
        /\ pos # -1
    BY <1>1, <2>1
  <2> QED BY <2>1, <2>2
<1>6. CASE UNCHANGED cwVars
  BY <1>6 DEF cwVars, senderVars, decoderVars
<1> QED BY <1>2, <1>3, <1>4, <1>5, <1>6 DEF DecoderNext

LEMMA ReadableKept ==
  ASSUME cfg' = cfg
  PROVE  (Readable' <=> Readable) /\ dit' = dit
  BY DEF Readable, Clearly, dit

LEMMA BecomesIs ==
  ASSUME NEW d \in Decoder, Becomes(d)
  PROVE  Now' = d
<1>1. d = [accum |-> d.accum, space_emitted |-> d.space_emitted, history |-> d.history]
  BY DEF Decoder
<1> QED BY <1>1 DEF Becomes, Now

Begun == [accum |-> 1, space_emitted |-> FALSE, history |-> <<>>]

LEMMA BlankShown ==
  ASSUME NEW space \in BOOLEAN
  PROVE  Begun \in Decoder /\ Shows(Begun, Blank(space)) /\ Silent(Begun, Blank(TRUE))
<1> DEFINE nothing == <<>>
<1>1. /\ CodeOf(1) = nothing /\ nothing \in Seq(Characters)
      /\ LastOf(HISTORY_CAPACITY, nothing) = nothing
  <2>1. CodeOf(1) = nothing
    BY EmptyCode
  <2>2. nothing \in Seq(Characters)
    OBVIOUS
  <2>3. LastOf(HISTORY_CAPACITY, nothing) = nothing
    BY <2>2, LastOfType, DecoderAssumption
  <2> HIDE DEF nothing
  <2> QED BY <2>1, <2>2, <2>3
<1>2. /\ Begun = [accum |-> 1, space_emitted |-> FALSE, history |-> nothing]
      /\ Blank(space) = [shown |-> nothing, code |-> nothing, space |-> space]
      /\ Blank(TRUE) = [shown |-> nothing, code |-> nothing, space |-> TRUE]
  BY DEF Begun, Blank
<1> HIDE DEF nothing
<1>3. Begun \in Decoder
  BY <1>1, <1>2 DEF Decoder
<1>4. /\ Begun.accum = 1 /\ ~Begun.space_emitted /\ Begun.history = nothing
      /\ Blank(space).shown = nothing /\ Blank(space).code = nothing
      /\ Blank(TRUE).shown = nothing /\ Blank(TRUE).code = nothing /\ Blank(TRUE).space
  <2>1. Begun.accum = 1 /\ ~Begun.space_emitted /\ Begun.history = nothing
    BY <1>2
  <2>2. Blank(space).shown = nothing /\ Blank(space).code = nothing
    BY <1>2
  <2> DEFINE full == Blank(TRUE)
  <2>3. full = [shown |-> nothing, code |-> nothing, space |-> TRUE]
    BY <1>2
  <2> HIDE DEF full
  <2>4. full.shown = nothing /\ full.code = nothing /\ full.space = TRUE
    BY <2>3
  <2> QED BY <2>1, <2>2, <2>4 DEF full
<1>5. Stands(nothing, 1)
  BY <1>1 DEF Stands
<1> QED BY <1>1, <1>3, <1>4, <1>5 DEF Shows, Silent

LEMMA FirstType ==
  ASSUME DecoderTypes
  PROVE  /\ First \in Nat \ {0} /\ First <= pos + 1 /\ Space \in BOOLEAN
         /\ pos \in Nat /\ pos <= Len(elements) /\ elements \in Seq(Elements)
         /\ cleared.at < pos /\ pos > 0 => First <= pos
         /\ cleared.at = pos => First = pos + 1
         /\ ~keyed \/ cleared.at < pos => Space = cleared.keyed
<1>1. /\ cleared.at \in Int /\ cleared.at >= -1 /\ cleared.at <= pos /\ cleared.keyed \in BOOLEAN
      /\ pos \in Nat /\ pos <= Len(elements) /\ elements \in Seq(Elements) /\ keyed \in BOOLEAN
  BY DEF DecoderTypes
<1> DEFINE at == cleared.at
<1> HIDE DEF at
<1>2. First = IF at = -1 THEN 1 ELSE at + 1
  BY DEF First, at
<1>3. /\ First \in Nat \ {0} /\ First <= pos + 1 /\ (at < pos /\ pos > 0 => First <= pos)
      /\ (at = pos => First = pos + 1)
  BY <1>1, <1>2 DEF at
<1>4. Space \in BOOLEAN /\ (~keyed \/ at < pos => Space = cleared.keyed)
  BY <1>1 DEF Space, at
<1> QED BY <1>1, <1>3, <1>4 DEF at

\* Key down: the silence ends.
LEMMA HeardDown ==
  ASSUME DecoderTypes, DecoderTypes', OnTheAir, Readable, Heard, Down
  PROVE  Heard'
<1> DEFINE i == Min(NextMarks)
<1>1. /\ ~keyed /\ NextMarks # {} /\ keyed' = TRUE /\ pos' = i /\ elements' = elements
      /\ cleared' = cleared /\ dstate' = "Down" /\ pos \in Nat
  BY DEF Down, OnTransition, senderVars, DecoderTypes
<1>2. PICK j \in Jitter : (pos > 0 => GapBefore(i) + j >= since)
                          /\ OnTransition(GapBefore(i) + j, TRUE)
  BY DEF Down
<1> DEFINE gap == GapBefore(i) + j
<1>3. Becomes(IF dstate = "Up" THEN ProcessGap(Now, gap) ELSE Now)
  BY <1>2 DEF OnTransition
<1>4. /\ i \in Nat /\ i > pos /\ i <= Len(elements) /\ elements \in Seq(Elements)
      /\ \A k \in Run(i) : k \in DOMAIN elements /\ elements[k] \notin Marks
  BY <1>1, NextMark DEF DecoderTypes
<1> HIDE DEF i, gap
<1>5. /\ First \in Nat \ {0} /\ First <= pos + 1 /\ Space \in BOOLEAN
      /\ pos <= Len(elements) /\ Space = cleared.keyed /\ cleared.at < i
  BY <1>1, <1>4, FirstType DEF DecoderTypes
<1>6. First' = First /\ Space' = Space
  <2>1. First' = First
    BY <1>1 DEF First
  <2>2. Space' = cleared.keyed
    BY <1>1, <1>5 DEF Space, DecoderTypes
  <2> QED BY <1>5, <2>1, <2>2
<1>7. Notebook(pos - 1)' = Noted(First, Space, i - 1)
  BY <1>1, <1>6 DEF Notebook, Noted
<1>8. Now' \in Decoder /\ Shows(Now', Noted(First, Space, i - 1))
  <2>1. CASE dstate = "Idle"
    <3>1. Now = Begun /\ ~cleared.keyed /\ First = pos + 1
      BY <1>1, <2>1 DEF Heard, HeardNothing, Begun, First, DecoderTypes
    <3>2. Space = FALSE
      BY <1>5, <3>1
    <3>3. \A k \in First..(i - 1) : elements[k] \notin Marks
      BY <1>4, <3>1 DEF Run
    <3>4. i - 1 \in Nat /\ First <= (i - 1) + 1 /\ i - 1 <= Len(elements)
      BY <1>1, <1>4, <3>1
    <3>5. Noted(First, FALSE, i - 1) = Blank(FALSE)
      BY <1>4, <1>5, <3>3, <3>4, NotedLeading
    <3>6. Now \in Decoder /\ Shows(Now, Blank(FALSE))
      BY <3>1, BlankShown
    <3>7. Now' = Now
      BY <1>3, <2>1, <3>6, BecomesIs
    <3> QED BY <3>2, <3>5, <3>6, <3>7
  <2>2. CASE dstate = "Up"
    <3> DEFINE acc == Noted(First, Space, pos)
    <3>1. pos \in Nat \ {0} /\ Silent(Now, After(acc, since)) /\ since \in Int
      BY <1>1, <2>2 DEF Heard, InSilence, Notebook, DecoderTypes
    <3>2. acc \in Notes
      BY <1>4, <1>5, <3>1, NotedMore
    <3>3. cfg \in Configs /\ Spaced(elements)
      BY DEF DecoderTypes
    <3>4. dit \in Nat /\ dit > 0 /\ j \in Int
      BY <3>3, ReadableTimes
    <3>5. gap \in Int /\ since <= gap
      <4>1. GapBefore(i) \in Int
        BY <1>4, <3>1, <3>3, GapTimes
      <4> QED BY <1>2, <3>1, <3>4, <4>1 DEF gap
    <3>6. Noted(First, Space, i - 1) = After(acc, gap)
      BY <1>4, <1>5, <3>1, <3>3, AfterRun DEF gap
    <3> HIDE DEF acc
    <3>7. Silent(ProcessGap(Now, gap), After(acc, gap))
      BY <3>1, <3>2, <3>4, <3>5, GapShown
    <3>8. Now' = ProcessGap(Now, gap)
      BY <1>3, <2>2, <3>7, BecomesIs DEF Silent
    <3> QED BY <3>6, <3>7, <3>8 DEF Silent
  <2>3. dstate # "Down"
    BY <1>1 DEF Heard, InMark
  <2> QED BY <2>1, <2>2, <2>3 DEF DecoderTypes
<1>9. keyed' /\ cleared'.at < pos' /\ dstate' = "Down"
  BY <1>1, <1>5
<1> QED BY <1>7, <1>8, <1>9 DEF Heard, InMark

\* Key up: one mark more.
LEMMA HeardUp ==
  ASSUME DecoderTypes, DecoderTypes', OnTheAir, Readable, Heard, Up
  PROVE  Heard'
<1> DEFINE m == elements[pos]
<1>1. /\ keyed = TRUE /\ keyed' = FALSE /\ pos' = pos /\ elements' = elements /\ cfg' = cfg
      /\ cleared' = cleared /\ since' = since /\ dstate' = "Up"
  BY DEF Up, OnTransition, senderVars, DecoderTypes
<1>2. PICK j \in Jitter : OnTransition(Duration(m, cfg) + j, FALSE)
  BY DEF Up
<1> DEFINE t == Duration(m, cfg) + j
           d == IF dstate = "Down" THEN ProcessPulse(Now, t) ELSE Now
<1>3. Becomes([d EXCEPT !.space_emitted = FALSE])
  BY <1>2 DEF OnTransition
<1>4. /\ m \in Marks /\ pos \in Nat \ {0} /\ since = 0 /\ pos <= Len(elements)
      /\ elements \in Seq(Elements) /\ cfg \in Configs
  BY <1>1 DEF OnTheAir, DecoderTypes
<1> HIDE DEF m, t, d
<1>5. /\ First \in Nat \ {0} /\ Space \in BOOLEAN
      /\ cleared.at < pos => First <= pos
      /\ cleared.at = pos => First = pos + 1
      /\ cleared.at < pos => Space = cleared.keyed
  BY <1>4, FirstType
<1>6. First' = First /\ Space' = cleared.keyed
  BY <1>1 DEF First, Space, DecoderTypes
<1>7. Notebook(pos)' = Noted(First, cleared.keyed, pos)
  BY <1>1, <1>6 DEF Notebook, Noted
<1> DEFINE acc == Noted(First, cleared.keyed, pos)
<1>8. /\ cleared.at < pos \/ (cleared.at = pos /\ cleared.keyed)
      /\ acc.space = TRUE /\ d \in Decoder /\ Shows(d, acc)
  <2>1. CASE dstate = "Idle"
    <3>1. Now = Begun /\ cleared.keyed = TRUE /\ cleared.at = pos
      BY <1>1, <2>1 DEF Heard, HeardNothing, Begun, DecoderTypes
    <3>2. First = pos + 1 /\ pos \in Nat /\ First <= pos + 1 /\ pos + 1 = First
      BY <1>4, <1>5, <3>1
    <3>3. acc = Blank(TRUE)
      BY <1>4, <1>5, <3>1, <3>2, NotedMore
    <3>4. d = Now
      BY <2>1 DEF d
    <3>5. Begun \in Decoder /\ Shows(Begun, Blank(TRUE))
      BY BlankShown
    <3>6. Blank(TRUE).space = TRUE
      BY DEF Blank
    <3> HIDE DEF acc
    <3> QED BY <3>1, <3>3, <3>4, <3>5, <3>6
  <2>2. CASE dstate = "Down"
    <3> DEFINE before == Noted(First, Space, pos - 1)
    <3>1. cleared.at < pos /\ Now \in Decoder /\ Shows(Now, before)
      BY <2>2 DEF Heard, InMark, Notebook
    <3>2. pos - 1 \in Nat /\ First <= (pos - 1) + 1 /\ pos - 1 <= Len(elements)
          /\ (pos - 1) + 1 = pos
      BY <1>4, <1>5, <3>1
    <3>3. before \in Notes /\ Noted(First, Space, pos) = Listened(before, m)
      BY <1>4, <1>5, <3>2, NotedMore DEF m
    <3>4. acc = Listened(before, m)
      BY <1>5, <3>1, <3>3
    <3>5. dit \in Nat /\ t \in Int /\ (t >= 2 * dit <=> m = "dash")
      <4>1. /\ dit \in Nat /\ j \in Int /\ Duration(m, cfg) \in Int
            /\ Duration("dit", cfg) + j < 2 * dit /\ Duration("dash", cfg) + j >= 2 * dit
        BY <1>4, ReadableTimes DEF Elements
      <4> QED BY <1>4, <4>1 DEF Marks, t
    <3> HIDE DEF acc, before
    <3>6. ProcessPulse(Now, t) \in Decoder /\ Shows(ProcessPulse(Now, t), acc)
      BY <1>4, <3>1, <3>3, <3>4, <3>5, PulseShown
    <3>7. d = ProcessPulse(Now, t)
      BY <2>2 DEF d
    <3>8. acc.space = TRUE
      BY <1>4, <3>3, <3>4 DEF Listened, Marks, Notes
    <3> QED BY <3>1, <3>6, <3>7, <3>8
  <2>3. dstate # "Up"
    BY <1>1 DEF Heard, InSilence
  <2> QED BY <2>1, <2>2, <2>3 DEF DecoderTypes
<1> DEFINE e == [d EXCEPT !.space_emitted = FALSE]
<1>9. e \in Decoder /\ e.accum = d.accum /\ e.history = d.history /\ e.space_emitted = FALSE
  BY <1>8 DEF Decoder
<1> HIDE DEF e, acc
<1>10. Now' = e
  BY <1>3, <1>9, BecomesIs DEF e
<1>11. Silent(Now', acc)
  BY <1>8, <1>9, <1>10 DEF Silent, Shows
<1>12. After(Notebook(pos), since)' = acc
  <2>1. dit' = dit /\ dit \in Nat /\ dit > 0
    BY <1>1, <1>2, <1>4, ReadableKept, ReadableTimes
  <2>2. After(Notebook(pos), since)' = Notebook(pos)'
    BY <1>1, <1>4, <2>1 DEF After
  <2> QED BY <1>7, <2>2 DEF acc
<1>13. Silent(Now, After(Notebook(pos), since))' /\ Notebook(pos)'.space = TRUE
  BY <1>7, <1>8, <1>11, <1>12 DEF Silent, acc
<1>14. InSilence'
  BY <1>1, <1>4, <1>8, <1>13 DEF InSilence
<1> QED BY <1>1, <1>14 DEF Heard

\* A poll sees more of the silence.
LEMMA HeardPoll ==
  ASSUME DecoderTypes, DecoderTypes', OnTheAir, Readable, Heard, Poll
  PROVE  Heard'
<1>1. /\ ~keyed /\ keyed' = keyed /\ pos' = pos /\ elements' = elements /\ cfg' = cfg
      /\ cleared' = cleared /\ dstate' = dstate
  BY DEF Poll, senderVars
<1>2. PICK gap \in Moments(dit) : /\ gap >= since /\ since' = gap
                             /\ Becomes(IF dstate = "Up" THEN ProcessGap(Now, gap) ELSE Now)
  BY DEF Poll
<1>3. First' = First /\ Space' = Space /\ Notebook(pos)' = Notebook(pos)
  <2>1. First' = First /\ Space' = Space
    BY <1>1 DEF First, Space
  <2> QED BY <1>1, <2>1 DEF Notebook, Noted
<1>4. CASE dstate = "Idle"
  <2>1. Now = Begun
    BY <1>4 DEF Heard, HeardNothing, Begun
  <2>2. Now' = Now
    BY <1>2, <1>4, <2>1, BlankShown, BecomesIs
  <2>3. HeardNothing'
    BY <1>1, <1>4, <2>2 DEF Heard, HeardNothing
  <2> QED BY <1>1, <1>4, <2>3 DEF Heard
<1>5. CASE dstate = "Up"
  <2> DEFINE acc == Notebook(pos)
  <2>1. /\ Silent(Now, After(acc, since)) /\ since \in Int /\ acc.space = TRUE
        /\ ~keyed /\ pos >= 1 /\ (cleared.at < pos \/ (cleared.at = pos /\ cleared.keyed))
    BY <1>5 DEF Heard, InSilence, DecoderTypes
  <2>2. acc \in Notes
    BY FirstType, NotedMore DEF Notebook
  <2>3. dit \in Nat /\ dit > 0 /\ dit' = dit /\ gap \in Int
    <3>1. 0 \in Jitter /\ cfg \in Configs
      BY DecoderAssumption DEF DecoderTypes
    <3>2. dit \in Nat /\ dit > 0
      BY <3>1, ReadableTimes
    <3>3. gap \in Int
      BY <1>2, MomentsAreTimes
    <3> QED BY <1>1, <3>2, <3>3, ReadableKept
  <2> HIDE DEF acc
  <2>4. Silent(ProcessGap(Now, gap), After(acc, gap))
    BY <1>2, <2>1, <2>2, <2>3, GapShown
  <2>5. Now' = ProcessGap(Now, gap)
    BY <1>2, <1>5, <2>4, BecomesIs DEF Silent
  <2>6. After(Notebook(pos), since)' = After(acc, gap)
    BY <1>2, <1>3, <2>3 DEF After, acc
  <2>7. Silent(Now, After(Notebook(pos), since))' /\ Notebook(pos)'.space = TRUE
    BY <1>3, <2>1, <2>4, <2>5, <2>6 DEF Silent, acc
  <2>8. InSilence'
    BY <1>1, <2>1, <2>7 DEF InSilence
  <2> QED BY <1>1, <1>5, <2>8 DEF Heard
<1>6. dstate # "Down"
  BY <1>1 DEF Heard, InMark
<1> QED BY <1>4, <1>5, <1>6 DEF DecoderTypes

LEMMA HeardClear ==
  ASSUME DecoderTypes, Clear
  PROVE  Heard'
<1>1. /\ cleared' = [at |-> pos, keyed |-> keyed] /\ dstate' = "Idle"
      /\ pos' = pos /\ keyed' = keyed
  BY DEF Clear, senderVars
<1>2. Becomes(Begun)
  BY DEF Clear, Begun
<1>3. Now' = Begun
  BY <1>2, BlankShown, BecomesIs
<1>4. cleared'.at = pos' /\ cleared'.keyed = keyed'
  BY <1>1
<1>5. HeardNothing'
  BY <1>3, <1>4 DEF HeardNothing, Begun
<1> QED BY <1>1, <1>5 DEF Heard

LEMMA InvKept ==
  ASSUME DecoderInv, [DecoderNext]_cwVars
  PROVE  DecoderInv'
<1>1. DecoderTypes /\ OnTheAir /\ DecoderTypes' /\ OnTheAir'
  BY TypesKept DEF DecoderInv
<1>2. CASE DecoderNext
  <2>1. cfg' = cfg
    BY <1>2 DEF DecoderNext, Down, Up, Poll, Clear, senderVars
  <2>2. Readable' => Readable /\ Heard
    BY <2>1, ReadableKept DEF DecoderInv
  <2>3. Readable' => Heard'
    BY <1>1, <1>2, <2>2, HeardDown, HeardUp, HeardPoll, HeardClear DEF DecoderNext
  <2> QED BY <1>1, <2>3 DEF DecoderInv
<1>3. CASE UNCHANGED cwVars
  <2>1. /\ cfg' = cfg /\ elements' = elements /\ pos' = pos /\ keyed' = keyed
        /\ since' = since /\ cleared' = cleared /\ dstate' = dstate /\ Now' = Now
    BY <1>3 DEF cwVars, senderVars, decoderVars, Now
  <2>2. First' = First /\ Space' = Space
    BY <2>1 DEF First, Space
  <2>3. Notebook(pos)' = Notebook(pos) /\ Notebook(pos - 1)' = Notebook(pos - 1)
    BY <2>1, <2>2 DEF Notebook, Noted
  <2>4. (Readable' <=> Readable) /\ dit' = dit
    BY <2>1, ReadableKept
  <2>5. After(Notebook(pos), since)' = After(Notebook(pos), since)
    BY <2>1, <2>3, <2>4 DEF After
  <2>6. Heard' <=> Heard
    BY <2>1, <2>3, <2>5 DEF Heard, HeardNothing, InMark, InSilence, Silent
  <2> QED BY <1>1, <2>4, <2>6 DEF DecoderInv
<1> QED BY <1>2, <1>3

\* What the notes say of the silence the decoder has seen.
LEMMA InvShows ==
  ASSUME DecoderInv
  PROVE  DecodesWhatWasSent
<1> SUFFICES ASSUME Readable PROVE DecodesWhatWasSent
  BY DEF DecodesWhatWasSent
<1>1. DecoderTypes /\ OnTheAir /\ Heard
  BY DEF DecoderInv
<1> DEFINE done == IF keyed THEN pos - 1 ELSE pos
           silence == CASE keyed \/ since < 2 * dit -> <<>>
                        [] ~keyed /\ since \in 2 * dit..6 * dit - 1 -> <<"LetterGap">>
                        [] ~keyed /\ since >= 6 * dit -> <<"WordGap">>
           past == SubSeq(elements, First, done)
           acc == FoldLeft(Listened, Blank(Space), past)
           sent == past \o silence
<1>2. /\ First \in Nat \ {0} /\ First <= pos + 1 /\ Space \in BOOLEAN
      /\ pos \in Nat /\ pos <= Len(elements) /\ elements \in Seq(Elements)
      /\ cfg \in Configs /\ since \in Int
      /\ keyed => pos >= 1 /\ since = 0
  BY <1>1, FirstType DEF DecoderTypes, OnTheAir
<1>3. dit \in Nat /\ dit > 0
  <2>1. 0 \in Jitter
    BY DecoderAssumption
  <2> QED BY <1>2, <2>1, ReadableTimes
<1> DEFINE heard == IF keyed THEN acc ELSE After(acc, since)
<1>4. past \in Seq(Elements) /\ Blank(Space) \in Notes
  <2>1. done \in Int /\ done <= Len(elements)
    BY <1>2
  <2> HIDE DEF done
  <2>2. SubSeq(elements, First, done) \in Seq(Elements)
    BY <1>2, <2>1
  <2> QED BY <1>2, <2>2, BlankIsNotes
<1> HIDE DEF past
<1>5. FoldLeft(Listened, Blank(Space), sent) = heard
  <2>1. \A e \in Elements : FoldLeft(Listened, Blank(Space), Append(past, e)) = Listened(acc, e)
    BY <1>4, HeardMore
  <2>2. "LetterGap" \in Elements /\ "WordGap" \in Elements
    BY DEF Elements
  <2>3. /\ past \o <<"LetterGap">> = Append(past, "LetterGap")
        /\ past \o <<"WordGap">> = Append(past, "WordGap") /\ past \o <<>> = past
    BY <1>4, <2>2, SequenceOfOne
  <2> HIDE DEF acc
  <2>4. CASE keyed
    <3>1. silence = <<>>
      BY <2>4, Zenon
    <3> HIDE DEF silence
    <3> QED BY <2>3, <2>4, <3>1 DEF acc
  <2>5. CASE ~keyed /\ since < 2 * dit
    <3>1. silence = <<>>
      BY <1>2, <1>3, <2>5
    <3> HIDE DEF silence
    <3> QED BY <2>3, <2>5, <3>1 DEF acc, After
  <2>6. CASE ~keyed /\ ~(since < 2 * dit) /\ since < 6 * dit
    <3>1. silence = <<"LetterGap">>
      BY <1>2, <1>3, <2>6
    <3> HIDE DEF silence
    <3> QED BY <2>1, <2>2, <2>3, <2>6, <3>1 DEF After
  <2>7. CASE ~keyed /\ ~(since < 2 * dit) /\ ~(since < 6 * dit)
    <3>1. silence = <<"WordGap">>
      BY <1>2, <1>3, <2>7
    <3> HIDE DEF silence
    <3> QED BY <2>1, <2>2, <2>3, <2>7, <3>1 DEF After
  <2> QED BY <2>4, <2>5, <2>6, <2>7
<1>6. Reference(sent, Space) = heard.shown
  BY <1>5 DEF Reference, Blank
<1>7. history = LastOf(HISTORY_CAPACITY, heard.shown)
  <2> HIDE DEF done, silence, sent
  <2>1. history = Now.history
    BY DEF Now
  <2>2. CASE dstate = "Idle"
    <3>1. /\ Now = Begun /\ keyed = cleared.keyed
          /\ cleared.at = pos \/ (cleared.at = -1 /\ pos = 0 /\ ~keyed)
      BY <1>1, <2>2 DEF Heard, HeardNothing, Begun
    <3>2. First = pos + 1
      BY <1>2, <3>1 DEF First
    <3>3. past = <<>>
      BY <1>2, <3>2 DEF past, done
    <3>4. acc = Blank(Space)
      BY <1>4, <3>3, HeardMore
    <3>5. ~keyed => Space = FALSE
      BY <3>1 DEF Space, DecoderTypes
    <3>6. heard = Blank(Space)
      <4>1. CASE keyed BY <3>4, <4>1
      <4>2. CASE ~keyed
        <5>1. /\ Listened(Blank(FALSE), "LetterGap") = Blank(FALSE)
              /\ Listened(Blank(FALSE), "WordGap") = Blank(FALSE)
          BY BlankIsNotes
        <5>2. acc = Blank(FALSE)
          BY <3>4, <3>5, <4>2
        <5> HIDE DEF acc
        <5> QED BY <3>4, <4>2, <5>1, <5>2 DEF After
      <4> QED BY <4>1, <4>2
    <3> HIDE DEF heard
    <3>7. Shows(Begun, Blank(Space))
      BY <1>2, BlankShown
    <3> QED BY <2>1, <3>1, <3>6, <3>7 DEF Shows
  <2>3. CASE dstate = "Down"
    <3>1. keyed /\ Shows(Now, Notebook(pos - 1))
      BY <1>1, <2>3 DEF Heard, InMark
    <3>2. heard = Notebook(pos - 1)
      BY <3>1 DEF Notebook, Noted, past, done
    <3> HIDE DEF heard
    <3> QED BY <2>1, <3>1, <3>2 DEF Shows
  <2>4. CASE dstate = "Up"
    <3>1. ~keyed /\ Silent(Now, After(Notebook(pos), since))
      BY <1>1, <2>4 DEF Heard, InSilence
    <3>2. acc = Notebook(pos)
      BY <3>1 DEF Notebook, Noted, past, done
    <3>3. heard = After(Notebook(pos), since)
      BY <3>1, <3>2
    <3> HIDE DEF heard
    <3> QED BY <2>1, <3>1, <3>3 DEF Shows, Silent
  <2> QED BY <1>1, <2>2, <2>3, <2>4 DEF DecoderTypes
<1> HIDE DEF heard
<1>8. history = LastOf(HISTORY_CAPACITY, Reference(sent, Space))
  BY <1>6, <1>7
<1> QED BY <1>8, Zenon DEF DecodesWhatWasSent, First, Space, past

LEMMA InvInit ==
  ASSUME DecoderInit
  PROVE  DecoderInv
<1>1. elements \in Seq(Elements) /\ Spaced(elements)
  <2>1. CASE text \in Texts /\ elements = TextToElements(text)
    <3>1. text \in Seq(STRING)
      BY <2>1, DecoderAssumption
    <3> QED BY <2>1, <3>1, TextIsSpaced
  <2>2. CASE elements \in Hands
    BY <2>2, DecoderAssumption
  <2> QED BY <2>1, <2>2 DEF DecoderInit
<1>2. /\ cfg \in Configs /\ pos = 0 /\ keyed = FALSE /\ since = 0
      /\ cleared = [at |-> -1, keyed |-> FALSE] /\ dstate = "Idle"
      /\ Now = [accum |-> 1, space_emitted |-> FALSE, history |-> <<>>]
  BY DEF DecoderInit, Now
<1>3. cleared \in [at : Int, keyed : BOOLEAN] /\ cleared.at = -1 /\ cleared.keyed = FALSE
  BY <1>2
<1>4. DecoderTypes
  <2>1. pos \in 0..Len(elements) /\ cleared.at \in -1..pos /\ since \in Int
    BY <1>1, <1>2, <1>3
  <2> QED BY <1>1, <1>2, <1>3, <2>1 DEF DecoderTypes
<1>5. OnTheAir
  BY <1>2, <1>3 DEF OnTheAir
<1>6. Heard
  BY <1>2, <1>3 DEF Heard, HeardNothing
<1> QED BY <1>4, <1>5, <1>6 DEF DecoderInv

\* DecodesWhatWasSent: at every moment the decoder shows what was sent, in order,
\* whatever the text, the configuration, the jitter and the polls.
THEOREM DecodesWhatWasSentAlways == DecoderSpec => []DecodesWhatWasSent
<1>1. DecoderSpec => []DecoderInv
  BY InvInit, InvKept, PTL DEF DecoderSpec
<1> QED BY <1>1, InvShows, PTL
=============================================================================
