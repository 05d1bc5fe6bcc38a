-------------------------- MODULE NormalizationProofs --------------------------
(***************************************************************************)
(* What the functions of Normalization compute for every text: the pattern *)
(* of a prefix finds the texts that start with it, and no others; and a    *)
(* text that was normalised stays as it is, for most tables of characters. *)
(*                                                                         *)
(* The recursions are over natural numbers, and induction is over a set of *)
(* them, of which the library says that it has a least element.            *)
(***************************************************************************)
EXTENDS Normalization, FiniteSetTheorems, SequenceTheorems, TLAPS

\* Induction over the natural numbers, for a set of them.
LEMMA NatSetInduction ==
    ASSUME NEW T, 0 \in T, \A n \in Nat : n \in T => n + 1 \in T
    PROVE  Nat \subseteq T
<1> DEFINE Rest == Nat \ T
<1> SUFFICES ASSUME Rest # {} PROVE FALSE
  OBVIOUS
<1>1. IsWellFoundedOn(OpToRel(<, Nat), Nat)
  BY NatLessThanWellFounded
<1>2. PICK x \in Rest : \A y \in Rest : <<y, x>> \notin OpToRel(<, Nat)
  BY <1>1, WFMin
<1>3. x \in Nat \ {0} /\ x - 1 \in Nat /\ (x - 1) + 1 = x /\ x - 1 < x
  OBVIOUS
<1>4. <<x - 1, x>> \in OpToRel(<, Nat)
  BY <1>3 DEF OpToRel
<1> QED
  BY <1>2, <1>3, <1>4

-----------------------------------------------------------------------------
\* What FlattenSeq computes: f[i] concatenates the first i sequences, up to the n-th.
Flattens(f, n, ss) ==
    \A i \in 1..n : f[i] = IF i = 1 THEN ss[i] ELSE f[i - 1] \o ss[i]

\* Any list of texts can be joined step by step.
LEMMA FlatteningExists ==
    ASSUME NEW S, NEW ss \in Seq(Seq(S))
    PROVE  \E f \in [1..Len(ss) -> Seq(S)] : Flattens(f, Len(ss), ss)
<1> DEFINE T == {n \in Nat : n <= Len(ss) => \E f \in [1..n -> Seq(S)] : Flattens(f, n, ss)}
<1>1. 0 \in T
  <2>1. [i \in 1..0 |-> << >>] \in [1..0 -> Seq(S)]
    OBVIOUS
  <2>2. Flattens([i \in 1..0 |-> << >>], 0, ss)
    BY DEF Flattens
  <2> QED
    BY <2>1, <2>2
<1>2. ASSUME NEW n \in T, n + 1 <= Len(ss)
      PROVE  \E g \in [1..(n + 1) -> Seq(S)] : Flattens(g, n + 1, ss)
  <2>1. PICK f \in [1..n -> Seq(S)] : Flattens(f, n, ss)
    BY <1>2
  <2>2. PICK last : last = IF n + 1 = 1 THEN ss[n + 1] ELSE f[n] \o ss[n + 1]
    OBVIOUS
  <2>3. last \in Seq(S)
    <3>1. n \in Nat /\ n + 1 \in 1..Len(ss) /\ ss[n + 1] \in Seq(S)
      BY <1>2
    <3>2. n # 0 => f[n] \in Seq(S)
      BY <3>1
    <3> QED
      BY <2>2, <3>1, <3>2
  <2>4. PICK g : g = [i \in 1..(n + 1) |-> IF i = n + 1 THEN last ELSE f[i]]
    OBVIOUS
  <2>5. g \in [1..(n + 1) -> Seq(S)]
    <3>1. \A i \in 1..(n + 1) : i = n + 1 \/ i \in 1..n
      OBVIOUS
    <3> QED
      BY <2>3, <2>4, <3>1
  <2>6. ASSUME NEW i \in 1..(n + 1)
        PROVE  g[i] = IF i = 1 THEN ss[i] ELSE g[i - 1] \o ss[i]
    <3>1. CASE i = n + 1
      <4>1. i # 1 => i - 1 \in 1..(n + 1) /\ i - 1 = n /\ i - 1 # n + 1
        BY <3>1
      <4> QED
        BY <2>2, <2>4, <3>1, <4>1
    <3>2. CASE i # n + 1
      <4>1. i \in 1..n /\ g[i] = f[i]
        BY <2>4, <3>2
      <4>2. i # 1 => i - 1 \in 1..(n + 1) /\ i - 1 # n + 1
        BY <3>2
      <4> QED
        BY <2>1, <2>4, <4>1, <4>2 DEF Flattens
    <3> QED
      BY <3>1, <3>2
  <2> QED
    BY <2>5, <2>6 DEF Flattens
<1>3. \A n \in Nat : n \in T => n + 1 \in T
  BY <1>2
<1>4. Len(ss) \in T
  <2> HIDE DEF T
  <2>1. Nat \subseteq T
    BY <1>1, <1>3, NatSetInduction
  <2> QED
    BY <2>1
<1> QED
  BY <1>4

\* Sequences that begin alike are concatenated alike.
LEMMA FlatteningsAgree ==
    ASSUME NEW ss, NEW tt, NEW m \in Nat, \A i \in 1..m : ss[i] = tt[i],
           NEW f, NEW g, Flattens(f, m, ss), Flattens(g, m, tt)
    PROVE  \A i \in 1..m : f[i] = g[i]
<1> DEFINE T == {n \in Nat : n \in 1..m => f[n] = g[n]}
<1>1. 0 \in T
  OBVIOUS
<1>2. ASSUME NEW n \in Nat, n \in T PROVE n + 1 \in T
  <2> SUFFICES ASSUME n + 1 \in 1..m PROVE f[n + 1] = g[n + 1]
    OBVIOUS
  <2>1. n + 1 # 1 => f[n] = g[n]
    BY <1>2
  <2>2. (n + 1) - 1 = n
    OBVIOUS
  <2>3. f[n + 1] = IF n + 1 = 1 THEN ss[n + 1] ELSE f[n] \o ss[n + 1]
    BY <2>2 DEF Flattens
  <2>4. g[n + 1] = IF n + 1 = 1 THEN tt[n + 1] ELSE g[n] \o tt[n + 1]
    BY <2>2 DEF Flattens
  <2> QED
    BY <2>1, <2>3, <2>4
<1>3. Nat \subseteq T
  <2> HIDE DEF T
  <2> QED
    BY <1>1, <1>2, NatSetInduction
<1> QED
  BY <1>3

\* FlattenSeq of the library is what that joining ends with.
LEMMA FlattenSeqIs ==
    ASSUME NEW S, NEW ss \in Seq(Seq(S)), Len(ss) # 0,
           NEW f, Flattens(f, Len(ss), ss)
    PROVE  FlattenSeq(ss) = f[Len(ss)]
<1> DEFINE Is(h) == h = [i \in 1..Len(ss) |-> IF i = 1 THEN ss[i] ELSE h[i - 1] \o ss[i]]
           flatten == CHOOSE h : Is(h)
<1>1. FlattenSeq(ss) = flatten[Len(ss)]
  BY DEF FlattenSeq
<1>2. PICK h \in [1..Len(ss) -> Seq(S)] : Flattens(h, Len(ss), ss)
  BY FlatteningExists
<1>3. Is(h)
  BY <1>2 DEF Flattens
<1>4. Is(flatten)
  BY <1>3
<1>5. Flattens(flatten, Len(ss), ss)
  <2> HIDE DEF flatten
  <2>1. \A i \in 1..Len(ss) : flatten[i] = IF i = 1 THEN ss[i] ELSE flatten[i - 1] \o ss[i]
    BY <1>4
  <2> QED
    BY <2>1 DEF Flattens
<1> HIDE DEF flatten
<1>6. Len(ss) \in Nat /\ Len(ss) \in 1..Len(ss)
  OBVIOUS
<1>7. flatten[Len(ss)] = f[Len(ss)]
  BY <1>5, <1>6, FlatteningsAgree
<1> QED
  BY <1>1, <1>7

\* FlattenSeq concatenates: what one more sequence adds comes last.
LEMMA FlattenStep ==
    ASSUME NEW S, NEW ss \in Seq(Seq(S)), NEW s \in Seq(S)
    PROVE  /\ FlattenSeq(ss) \in Seq(S)
           /\ FlattenSeq(Append(ss, s)) = FlattenSeq(ss) \o s
<1>1. PICK n, tt : n = Len(ss) /\ tt = Append(ss, s)
  OBVIOUS
<1>2. /\ tt \in Seq(Seq(S)) /\ n \in Nat /\ Len(tt) = n + 1 /\ tt[n + 1] = s
      /\ \A i \in 1..n : tt[i] = ss[i]
  BY <1>1
<1>3. PICK f : f \in [1..n -> Seq(S)] /\ Flattens(f, n, ss)
  BY <1>1, FlatteningExists
<1>4. PICK g : g \in [1..(n + 1) -> Seq(S)] /\ Flattens(g, n + 1, tt)
  BY <1>2, FlatteningExists
<1>5. FlattenSeq(tt) = g[n + 1]
  BY <1>2, <1>4, FlattenSeqIs
<1>6. g[n + 1] = IF n + 1 = 1 THEN s ELSE g[n] \o s
  <2>1. n + 1 \in 1..(n + 1) /\ (n + 1) - 1 = n
    BY <1>2
  <2> QED
    BY <1>2, <1>4, <2>1 DEF Flattens
<1>7. CASE n = 0
  <2>1. ss = << >>
    BY <1>1, <1>7, EmptySeq
  <2>3. FlattenSeq(ss) = << >>
    BY <2>1, <1>1, <1>7 DEF FlattenSeq
  <2>2. FlattenSeq(tt) = s
    BY <1>5, <1>6, <1>7
  <2>4. << >> \o s = s
    BY ConcatEmptySeq
  <2>5. << >> \in Seq(S)
    BY EmptySeq
  <2> QED
    BY <1>1, <2>1, <2>2, <2>3, <2>4, <2>5
<1>8. CASE n # 0
  <2>1. FlattenSeq(ss) = f[n]
    BY <1>1, <1>3, <1>8, FlattenSeqIs
  <2>2. f[n] = g[n]
    <3>1. n \in Nat
      BY <1>2
    <3>2. \A i \in 1..n : ss[i] = tt[i]
      BY <1>2
    <3>3. \A i \in 1..n : i \in 1..(n + 1)
      BY <3>1
    <3>4. Flattens(g, n, tt)
      BY <1>4, <3>3 DEF Flattens
    <3>5. Flattens(f, n, ss)
      BY <1>3
    <3>6. \A i \in 1..n : f[i] = g[i]
      BY ONLY <3>1, <3>2, <3>4, <3>5, FlatteningsAgree
    <3> QED
      BY <1>8, <3>1, <3>6
  <2>3. f[n] \in Seq(S) /\ n + 1 # 1
    BY <1>2, <1>3, <1>8
  <2> QED
    BY <1>1, <1>5, <1>6, <2>1, <2>2, <2>3
<1> QED
  BY <1>7, <1>8

-----------------------------------------------------------------------------
\* The characters that a pattern escapes.
Special == {"\\", "%", "_"}

\* replace goes through the text from the left.
LEMMA EscapedStep ==
    ASSUME NEW S, "\\" \in S, NEW c \in S, NEW t \in Seq(S), NEW x \in S
    PROVE  /\ Escaped(t, c) \in Seq(S) /\ Escaped(<< >>, c) = << >>
           /\ Escaped(Append(t, x), c) =
                 IF x = c THEN Append(Append(Escaped(t, c), "\\"), c)
                          ELSE Append(Escaped(t, c), x)
<1> DEFINE Piece(y) == IF y = c THEN <<"\\", c>> ELSE <<y>>
           Pieces(s) == [i \in DOMAIN s |-> Piece(s[i])]
<1>1. ASSUME NEW s \in Seq(S)
      PROVE  Pieces(s) \in Seq(Seq(S)) /\ Len(Pieces(s)) = Len(s) /\ DOMAIN s = 1..Len(s)
  <2>1. DOMAIN s = 1..Len(s) /\ Len(s) \in Nat /\ \A i \in 1..Len(s) : s[i] \in S
    OBVIOUS
  <2>2. \A y \in S : Piece(y) \in Seq(S)
    OBVIOUS
  <2> HIDE DEF Piece
  <2> QED
    BY <2>1, <2>2
<1>2. PICK u : u = Append(t, x)
  OBVIOUS
<1>3. /\ u \in Seq(S) /\ Len(t) \in Nat /\ Len(u) = Len(t) + 1 /\ u[Len(t) + 1] = x
      /\ \A i \in 1..Len(t) : u[i] = t[i]
  BY <1>2
<1>4. Piece(x) \in Seq(S)
  OBVIOUS
<1>5. Pieces(u) = Append(Pieces(t), Piece(x))
  <2>1. /\ Pieces(u) \in Seq(Seq(S)) /\ Pieces(t) \in Seq(Seq(S))
        /\ Len(Pieces(u)) = Len(t) + 1 /\ Len(Pieces(t)) = Len(t)
        /\ DOMAIN u = 1..(Len(t) + 1) /\ DOMAIN t = 1..Len(t)
    BY <1>1, <1>3
  <2>2. \A i \in 1..(Len(t) + 1) : Pieces(u)[i] = Piece(u[i])
    BY <2>1
  <2>3. \A i \in 1..Len(t) : Pieces(t)[i] = Piece(t[i])
    BY <2>1
  <2> HIDE DEF Pieces, Piece
  <2>4. /\ Append(Pieces(t), Piece(x)) \in Seq(Seq(S))
        /\ Len(Append(Pieces(t), Piece(x))) = Len(t) + 1
        /\ \A i \in 1..(Len(t) + 1) : Append(Pieces(t), Piece(x))[i] =
              IF i = Len(t) + 1 THEN Piece(x) ELSE Pieces(t)[i]
    BY <1>3, <1>4, <2>1
  <2>5. \A i \in 1..(Len(t) + 1) : Pieces(u)[i] = Append(Pieces(t), Piece(x))[i]
    <3> TAKE i \in 1..(Len(t) + 1)
    <3>1. CASE i = Len(t) + 1
      BY <1>3, <2>2, <2>4, <3>1
    <3>2. CASE i # Len(t) + 1
      <4>1. i \in 1..Len(t)
        BY <1>3, <3>2
      <4> QED
        BY <1>3, <2>2, <2>3, <2>4, <3>2, <4>1
    <3> QED
      BY <3>1, <3>2
  <2> QED
    BY <2>1, <2>4, <2>5, SeqEqual
<1>6. \A s : Escaped(s, c) = FlattenSeq(Pieces(s))
  BY DEF Escaped
<1>7. /\ Escaped(t, c) \in Seq(S)
      /\ Escaped(u, c) = Escaped(t, c) \o Piece(x)
  <2>1. Pieces(t) \in Seq(Seq(S))
    BY <1>1
  <2>2. Escaped(t, c) = FlattenSeq(Pieces(t)) /\ Escaped(u, c) = FlattenSeq(Pieces(u))
    BY <1>6
  <2> HIDE DEF Pieces, Piece
  <2>3. FlattenSeq(Pieces(t)) \in Seq(S)
    BY <1>4, <2>1, FlattenStep, Zenon
  <2>4. FlattenSeq(Append(Pieces(t), Piece(x))) = FlattenSeq(Pieces(t)) \o Piece(x)
    BY <1>4, <2>1, FlattenStep, Zenon
  <2> QED
    BY <1>5, <2>2, <2>3, <2>4
<1>8. Escaped(<< >>, c) = << >>
  <2>1. Len(Pieces(<< >>)) = 0 /\ Pieces(<< >>) \in Seq(Seq(S))
    BY <1>1, EmptySeq
  <2>2. Pieces(<< >>) = << >>
    BY <2>1, EmptySeq
  <2> QED
    BY <1>6, <2>1, <2>2 DEF FlattenSeq
<1>9. Escaped(t, c) \o Piece(x) = IF x = c THEN Append(Append(Escaped(t, c), "\\"), c)
                                           ELSE Append(Escaped(t, c), x)
  <2> SUFFICES ASSUME NEW e \in Seq(S)
               PROVE  e \o Piece(x) = IF x = c THEN Append(Append(e, "\\"), c)
                                               ELSE Append(e, x)
    BY <1>7
  <2>1. e \o <<"\\", c>> = Append(Append(e, "\\"), c)
    OBVIOUS
  <2>2. e \o <<x>> = Append(e, x)
    OBVIOUS
  <2> QED
    BY <2>1, <2>2
<1> QED
  BY <1>2, <1>7, <1>8, <1>9

\* Escaping uses no characters but those of the text and the backslash.
LEMMA EscapedTyped ==
    ASSUME NEW S, "\\" \in S, NEW c \in S, NEW t \in Seq(S)
    PROVE  Escaped(t, c) \in Seq(S)
BY EscapedStep

\* A character that is not escaped stays as it is.
LEMMA EscapedOther ==
    ASSUME NEW S, "\\" \in S, NEW c \in S, NEW t \in Seq(S), NEW x \in S, x # c
    PROVE  Escaped(Append(t, x), c) = Append(Escaped(t, c), x)
BY EscapedStep

\* What an earlier pass escaped, a later pass leaves alone.
LEMMA EscapedOthers ==
    ASSUME NEW S, "\\" \in S, NEW c \in S, "\\" # c, NEW t \in Seq(S), NEW y \in S, y # c
    PROVE  Escaped(Append(Append(t, "\\"), y), c) = Append(Append(Escaped(t, c), "\\"), y)
<1>1. PICK u : u = Append(t, "\\")
  OBVIOUS
<1>2. u \in Seq(S)
  BY <1>1
<1>3. Escaped(u, c) = Append(Escaped(t, c), "\\")
  BY <1>1, EscapedOther
<1>4. Escaped(Append(u, y), c) = Append(Escaped(u, c), y)
  BY <1>2, EscapedOther
<1> QED
  BY <1>1, <1>3, <1>4

\* A character that is escaped gets a backslash before it.
LEMMA EscapedSame ==
    ASSUME NEW S, "\\" \in S, NEW c \in S, NEW t \in Seq(S)
    PROVE  Escaped(Append(t, c), c) = Append(Append(Escaped(t, c), "\\"), c)
BY EscapedStep

\* The three replacements together put a backslash before each special character.
LEMMA EscapeLikeStep ==
    ASSUME NEW S, Special \subseteq S, NEW p \in Seq(S), NEW x \in S
    PROVE  /\ escape_like(p) \in Seq(S)
           /\ escape_like(Append(p, x)) =
                 IF x \in Special THEN Append(Append(escape_like(p), "\\"), x)
                                  ELSE Append(escape_like(p), x)
<1>1. "\\" \in S /\ "%" \in S /\ "_" \in S
  BY DEF Special
<1>2. PICK e1 : e1 = Escaped(p, "\\")
  OBVIOUS
<1>3. PICK e2 : e2 = Escaped(e1, "%")
  OBVIOUS
<1>4. PICK e3 : e3 = Escaped(e2, "_")
  OBVIOUS
<1>5. e1 \in Seq(S)
  BY <1>1, <1>2, EscapedTyped
<1>6. e2 \in Seq(S)
  BY <1>1, <1>3, <1>5, EscapedTyped
<1>7. e3 \in Seq(S) /\ escape_like(p) = e3
  BY <1>1, <1>2, <1>3, <1>4, <1>6, EscapedTyped DEF escape_like
<1>8. CASE x = "\\"
  <2>1. Escaped(Append(p, "\\"), "\\") = Append(Append(e1, "\\"), "\\")
    BY <1>1, <1>2, EscapedSame
  <2>2. Escaped(Append(Append(e1, "\\"), "\\"), "%")
           = Append(Append(Escaped(e1, "%"), "\\"), "\\")
    BY <1>1, <1>5, EscapedOthers
  <2>3. Escaped(Append(Append(e2, "\\"), "\\"), "_")
           = Append(Append(Escaped(e2, "_"), "\\"), "\\")
    BY <1>1, <1>6, EscapedOthers
  <2> QED
    BY <1>3, <1>4, <1>7, <1>8, <2>1, <2>2, <2>3 DEF escape_like, Special
<1>9. CASE x = "%"
  <2>1. Escaped(Append(p, "%"), "\\") = Append(e1, "%")
    BY <1>1, <1>2, EscapedOther
  <2>2. Escaped(Append(e1, "%"), "%") = Append(Append(e2, "\\"), "%")
    BY <1>1, <1>3, <1>5, EscapedSame
  <2>3. Escaped(Append(Append(e2, "\\"), "%"), "_")
           = Append(Append(Escaped(e2, "_"), "\\"), "%")
    BY <1>1, <1>6, EscapedOthers
  <2> QED
    BY <1>4, <1>7, <1>9, <2>1, <2>2, <2>3 DEF escape_like, Special
<1>10. CASE x = "_"
  <2>1. Escaped(Append(p, "_"), "\\") = Append(e1, "_")
    BY <1>1, <1>2, EscapedOther
  <2>2. Escaped(Append(e1, "_"), "%") = Append(e2, "_")
    BY <1>1, <1>3, <1>5, EscapedOther
  <2>3. Escaped(Append(e2, "_"), "_") = Append(Append(e3, "\\"), "_")
    BY <1>1, <1>4, <1>6, EscapedSame
  <2> QED
    BY <1>7, <1>10, <2>1, <2>2, <2>3 DEF escape_like, Special
<1>11. CASE x \notin Special
  <2>1. x # "\\" /\ x # "%" /\ x # "_"
    BY <1>11 DEF Special
  <2>2. Escaped(Append(p, x), "\\") = Append(e1, x)
    BY <1>1, <1>2, <2>1, EscapedOther
  <2>3. Escaped(Append(e1, x), "%") = Append(e2, x)
    BY <1>1, <1>3, <1>5, <2>1, EscapedOther
  <2>4. Escaped(Append(e2, x), "_") = Append(e3, x)
    BY <1>1, <1>4, <1>6, <2>1, EscapedOther
  <2> QED
    BY <1>7, <1>11, <2>2, <2>3, <2>4 DEF escape_like
<1> QED
  BY <1>8, <1>9, <1>10, <1>11 DEF Special

\* The empty prefix makes an empty pattern.
LEMMA NothingToEscape == escape_like(<< >>) = << >>
<1> DEFINE S == Special
<1>1. \A c \in S : Escaped(<< >>, c) = << >>
  <2>1. << >> \in Seq(S) /\ "\\" \in S
    BY EmptySeq DEF Special
  <2> QED
    BY <2>1, EscapedStep
<1> QED
  BY <1>1 DEF escape_like, Special

\* The pattern spells the text: at[j] is the character that the pattern has come to at j, and
\* a backslash not taken as it is stands before a character that is.
Spells(asItIs, at, pattern, text) ==
    /\ asItIs \subseteq 1..Len(pattern) /\ 1 \notin asItIs
    /\ at \in [1..(Len(pattern) + 1) -> 1..(Len(text) + 1)]
    /\ at[1] = 1 /\ at[Len(pattern) + 1] = Len(text) + 1
    /\ \A j \in 1..Len(pattern) :
          /\ at[j] \in 1..Len(text)
          /\ j + 1 \in asItIs <=> pattern[j] = "\\" /\ j \notin asItIs
          /\ IF j + 1 \in asItIs THEN at[j + 1] = at[j]
             ELSE /\ at[j + 1] = at[j] + 1 /\ pattern[j] = text[at[j]]
                  /\ j \in asItIs \/ pattern[j] \notin Special

\* A plain character in the pattern spells itself.
LEMMA SpellsPlain ==
    ASSUME NEW S, NEW P \in Seq(S), NEW p \in Seq(S), NEW x \in S, x \notin Special,
           NEW A, NEW at, Spells(A, at, P, p)
    PROVE  \E bt : Spells(A, bt, Append(P, x), Append(p, x))
<1>1. PICK m, n : m = Len(P) /\ n = Len(p)
  OBVIOUS
<1>2. PICK Q, q : Q = Append(P, x) /\ q = Append(p, x)
  OBVIOUS
<1>3. /\ m \in Nat /\ n \in Nat /\ Len(Q) = m + 1 /\ Len(q) = n + 1
      /\ Q[m + 1] = x /\ q[n + 1] = x
      /\ \A j \in 1..m : Q[j] = P[j]
      /\ \A j \in 1..n : q[j] = p[j]
  BY <1>1, <1>2
<1>4. PICK bt : bt = [j \in 1..(m + 2) |-> IF j = m + 2 THEN n + 2 ELSE at[j]]
  OBVIOUS
<1>5. /\ A \subseteq 1..m /\ 1 \notin A /\ at \in [1..(m + 1) -> 1..(n + 1)]
      /\ at[1] = 1 /\ at[m + 1] = n + 1
  BY <1>1 DEF Spells
<1>6. /\ \A j \in 1..(m + 1) : bt[j] = at[j]
      /\ bt[m + 2] = n + 2
  BY <1>3, <1>4
<1>7. bt \in [1..(m + 2) -> 1..(n + 2)]
  <2>1. \A j \in 1..(m + 2) : j = m + 2 \/ j \in 1..(m + 1)
    BY <1>3
  <2>2. \A j \in 1..(m + 1) : at[j] \in 1..(n + 2)
    BY <1>3, <1>5
  <2>3. n + 2 \in 1..(n + 2)
    BY <1>3
  <2> QED
    BY <1>4, <2>1, <2>2, <2>3
<1>8. ASSUME NEW j \in 1..(m + 1)
      PROVE  /\ bt[j] \in 1..(n + 1)
             /\ j + 1 \in A <=> Q[j] = "\\" /\ j \notin A
             /\ IF j + 1 \in A THEN bt[j + 1] = bt[j]
                ELSE /\ bt[j + 1] = bt[j] + 1 /\ Q[j] = q[bt[j]]
                     /\ j \in A \/ Q[j] \notin Special
  <2>1. CASE j = m + 1
    <3>1. j + 1 \notin A /\ j \notin A /\ Q[j] = x /\ x # "\\"
      <4>1. x # "\\"
        BY DEF Special
      <4>2. j + 1 \notin 1..m /\ j \notin 1..m
        BY <1>3, <2>1
      <4> QED
        BY <1>3, <1>5, <2>1, <4>1, <4>2
    <3>2. bt[j] = n + 1 /\ bt[j + 1] = n + 2 /\ n + 1 \in 1..(n + 1)
      BY <1>3, <1>5, <1>6, <2>1
    <3> QED
      BY <1>3, <3>1, <3>2
  <2>2. CASE j # m + 1
    <3>1. j \in 1..m /\ j + 1 \in 1..(m + 1) /\ j \in 1..(m + 1)
      BY <1>3, <2>2
    <3>2. bt[j] = at[j] /\ bt[j + 1] = at[j + 1] /\ Q[j] = P[j]
      BY <1>3, <1>6, <3>1
    <3>3. /\ at[j] \in 1..n
          /\ j + 1 \in A <=> P[j] = "\\" /\ j \notin A
          /\ IF j + 1 \in A THEN at[j + 1] = at[j]
             ELSE /\ at[j + 1] = at[j] + 1 /\ P[j] = p[at[j]]
                  /\ j \in A \/ P[j] \notin Special
      BY <1>1, <3>1 DEF Spells
    <3>4. at[j] \in 1..(n + 1) /\ q[at[j]] = p[at[j]]
      BY <1>3, <3>3
    <3> QED
      BY <3>2, <3>3, <3>4
  <2> QED
    BY <2>1, <2>2
<1>9. Spells(A, bt, Q, q)
  <2>1. A \subseteq 1..Len(Q) /\ 1 \notin A
    BY <1>3, <1>5
  <2>2. bt[1] = 1 /\ bt[Len(Q) + 1] = Len(q) + 1 /\ bt \in [1..(Len(Q) + 1) -> 1..(Len(q) + 1)]
    BY <1>3, <1>5, <1>6, <1>7
  <2> QED
    BY <1>3, <1>8, <2>1, <2>2 DEF Spells
<1> QED
  BY <1>2, <1>9

\* A backslash and a character spell that character.
LEMMA SpellsSpecial ==
    ASSUME NEW S, "\\" \in S, NEW P \in Seq(S), NEW p \in Seq(S), NEW x \in S,
           NEW A, NEW at, Spells(A, at, P, p)
    PROVE  \E B, bt : Spells(B, bt, Append(Append(P, "\\"), x), Append(p, x))
<1>1. PICK m, n : m = Len(P) /\ n = Len(p)
  OBVIOUS
<1>2. PICK Q, q : Q = Append(Append(P, "\\"), x) /\ q = Append(p, x)
  OBVIOUS
<1>3. /\ m \in Nat /\ n \in Nat /\ Len(Q) = m + 2 /\ Len(q) = n + 1
      /\ Q[m + 1] = "\\" /\ Q[m + 2] = x /\ q[n + 1] = x
      /\ \A j \in 1..m : Q[j] = P[j]
      /\ \A j \in 1..n : q[j] = p[j]
  <2>1. PICK R : R = Append(P, "\\")
    OBVIOUS
  <2>2. R \in Seq(S) /\ Len(R) = m + 1 /\ R[m + 1] = "\\" /\ \A j \in 1..m : R[j] = P[j]
    BY <1>1, <2>1
  <2>3. /\ Len(Append(R, x)) = m + 2 /\ Append(R, x)[m + 2] = x
        /\ \A j \in 1..(m + 1) : Append(R, x)[j] = R[j]
    BY <1>1, <2>2
  <2>4. Q = Append(R, x)
    BY <1>2, <2>1
  <2> QED
    BY <1>1, <1>2, <2>2, <2>3, <2>4
<1>4. PICK B, bt : /\ B = A \cup {m + 2}
                   /\ bt = [j \in 1..(m + 3) |-> IF j = m + 3 THEN n + 2
                                                 ELSE IF j = m + 2 THEN n + 1 ELSE at[j]]
  OBVIOUS
<1>5. /\ A \subseteq 1..m /\ 1 \notin A /\ at \in [1..(m + 1) -> 1..(n + 1)]
      /\ at[1] = 1 /\ at[m + 1] = n + 1
  BY <1>1 DEF Spells
<1>6. /\ \A j \in 1..(m + 1) : bt[j] = at[j]
      /\ bt[m + 2] = n + 1 /\ bt[m + 3] = n + 2
  BY <1>3, <1>4
<1>7. bt \in [1..(m + 3) -> 1..(n + 2)]
  <2>1. \A j \in 1..(m + 3) : j = m + 3 \/ j = m + 2 \/ j \in 1..(m + 1)
    BY <1>3
  <2>2. \A j \in 1..(m + 1) : at[j] \in 1..(n + 2)
    BY <1>3, <1>5
  <2>3. n + 2 \in 1..(n + 2) /\ n + 1 \in 1..(n + 2)
    BY <1>3
  <2> QED
    BY <1>4, <2>1, <2>2, <2>3
<1>8. ASSUME NEW j \in 1..(m + 2)
      PROVE  /\ bt[j] \in 1..(n + 1)
             /\ j + 1 \in B <=> Q[j] = "\\" /\ j \notin B
             /\ IF j + 1 \in B THEN bt[j + 1] = bt[j]
                ELSE /\ bt[j + 1] = bt[j] + 1 /\ Q[j] = q[bt[j]]
                     /\ j \in B \/ Q[j] \notin Special
  <2>1. CASE j = m + 2
    <3>1. j + 1 \notin B /\ j \in B /\ Q[j] = x
      BY <1>3, <1>4, <1>5, <2>1
    <3>2. bt[j] = n + 1 /\ bt[j + 1] = n + 2 /\ n + 1 \in 1..(n + 1)
      BY <1>3, <1>5, <1>6, <2>1
    <3> QED
      BY <1>3, <3>1, <3>2
  <2>2. CASE j = m + 1
    <3>1. j + 1 \in B /\ j \notin B /\ Q[j] = "\\"
      BY <1>3, <1>4, <1>5, <2>2
    <3>2. bt[j] = n + 1 /\ bt[j + 1] = n + 1 /\ n + 1 \in 1..(n + 1)
      BY <1>3, <1>5, <1>6, <2>2
    <3> QED
      BY <1>3, <3>1, <3>2
  <2>3. CASE j # m + 1 /\ j # m + 2
    <3>1. j \in 1..m /\ j + 1 \in 1..(m + 1) /\ j \in 1..(m + 1) /\ j # m + 2 /\ j + 1 # m + 2
      BY <1>3, <2>3
    <3>2. bt[j] = at[j] /\ bt[j + 1] = at[j + 1] /\ Q[j] = P[j]
      BY <1>3, <1>6, <3>1
    <3>3. /\ at[j] \in 1..n
          /\ j + 1 \in A <=> P[j] = "\\" /\ j \notin A
          /\ IF j + 1 \in A THEN at[j + 1] = at[j]
             ELSE /\ at[j + 1] = at[j] + 1 /\ P[j] = p[at[j]]
                  /\ j \in A \/ P[j] \notin Special
      BY <1>1, <3>1 DEF Spells
    <3>4. at[j] \in 1..(n + 1) /\ q[at[j]] = p[at[j]]
      BY <1>3, <3>3
    <3>5. (j \in B <=> j \in A) /\ (j + 1 \in B <=> j + 1 \in A)
      BY <1>4, <3>1
    <3> QED
      BY <3>2, <3>3, <3>4, <3>5
  <2> QED
    BY <2>1, <2>2, <2>3
<1>9. Spells(B, bt, Q, q)
  <2>1. B \subseteq 1..Len(Q) /\ 1 \notin B
    BY <1>3, <1>4, <1>5
  <2>2. bt[1] = 1 /\ bt[Len(Q) + 1] = Len(q) + 1 /\ bt \in [1..(Len(Q) + 1) -> 1..(Len(q) + 1)]
    BY <1>3, <1>5, <1>6, <1>7
  <2> QED
    BY <1>3, <1>8, <2>1, <2>2 DEF Spells
<1> QED
  BY <1>2, <1>9

\* The pattern of escape_like spells the text.
LEMMA EscapeSpells ==
    ASSUME NEW S, Special \subseteq S, NEW p \in Seq(S)
    PROVE  escape_like(p) \in Seq(S) /\ \E A, at : Spells(A, at, escape_like(p), p)
<1> DEFINE Spelled(s) == escape_like(s) \in Seq(S) /\ \E A, at : Spells(A, at, escape_like(s), s)
           T == {n \in Nat : \A s \in Seq(S) : Len(s) = n => Spelled(s)}
<1>1. 0 \in T
  <2>1. Spelled(<< >>)
    <3>1. escape_like(<< >>) = << >> /\ << >> \in Seq(S) /\ Len(<< >>) = 0
      BY NothingToEscape, EmptySeq
    <3>2. Spells({}, [j \in 1..1 |-> 1], << >>, << >>)
      BY <3>1 DEF Spells
    <3> QED
      BY <3>1, <3>2
  <2> HIDE DEF Spelled
  <2>2. \A s \in Seq(S) : Len(s) = 0 => s = << >>
    BY EmptySeq
  <2> QED
    BY <2>1, <2>2
<1>2. ASSUME NEW n \in Nat, n \in T PROVE n + 1 \in T
  <2> SUFFICES ASSUME NEW s \in Seq(S), Len(s) = n + 1 PROVE Spelled(s)
    OBVIOUS
  <2>1. PICK r, x : r = SubSeq(s, 1, n) /\ x = s[n + 1]
    OBVIOUS
  <2>2. r \in Seq(S) /\ Len(r) = n /\ x \in S /\ \A i \in 1..n : r[i] = s[i]
    <3>1. \A i \in 1..n : s[i] \in S
      OBVIOUS
    <3>2. x \in S
      BY <2>1
    <3> QED
      BY <2>1, <3>1, <3>2, SubSeqProperties
  <2>3. s = Append(r, x)
    <3>1. /\ Append(r, x) \in Seq(S) /\ Len(Append(r, x)) = n + 1 /\ Append(r, x)[n + 1] = x
          /\ \A i \in 1..n : Append(r, x)[i] = r[i]
      BY <2>2, AppendProperties
    <3>2. \A i \in 1..(n + 1) : i = n + 1 \/ i \in 1..n
      OBVIOUS
    <3>3. \A i \in 1..(n + 1) : Append(r, x)[i] = s[i]
      BY <2>1, <2>2, <3>1, <3>2
    <3> QED
      BY <3>1, <3>3, SeqEqual
  <2>4. escape_like(r) \in Seq(S) /\ \E A, at : Spells(A, at, escape_like(r), r)
    BY <1>2, <2>2
  <2>5. PICK e : e = escape_like(r)
    OBVIOUS
  <2>6. PICK A, at : Spells(A, at, e, r)
    BY <2>4, <2>5
  <2>7. CASE x \in Special
    <3>1. escape_like(s) = Append(Append(e, "\\"), x)
      BY <2>2, <2>3, <2>5, <2>7, EscapeLikeStep
    <3>2. e \in Seq(S) /\ "\\" \in S
      BY <2>4, <2>5 DEF Special
    <3>3. Append(Append(e, "\\"), x) \in Seq(S)
      BY <2>2, <3>2
    <3>4. \E B, bt : Spells(B, bt, Append(Append(e, "\\"), x), Append(r, x))
      BY <2>2, <2>6, <3>2, SpellsSpecial
    <3> QED
      BY <2>3, <3>1, <3>3, <3>4
  <2>8. CASE x \notin Special
    <3>1. escape_like(s) = Append(e, x)
      BY <2>2, <2>3, <2>5, <2>8, EscapeLikeStep
    <3>2. e \in Seq(S)
      BY <2>4, <2>5
    <3>3. Append(e, x) \in Seq(S)
      BY <2>2, <3>2
    <3>4. \E bt : Spells(A, bt, Append(e, x), Append(r, x))
      BY <2>2, <2>6, <2>8, <3>2, SpellsPlain
    <3> QED
      BY <2>3, <3>1, <3>3, <3>4
  <2> QED
    BY <2>7, <2>8
<1>3. Len(p) \in T
  <2> HIDE DEF T
  <2>1. Nat \subseteq T
    BY <1>1, <1>2, NatSetInduction
  <2> QED
    BY <2>1
<1> QED
  BY <1>3

-----------------------------------------------------------------------------
\* Where each character of the pattern is matched by the definition of Like.
Matches(A, at, text, pattern) ==
    /\ at \in [1..(Len(pattern) + 1) -> 1..(Len(text) + 1)]
    /\ at[1] = 1 /\ at[Len(pattern) + 1] = Len(text) + 1
    /\ \A j \in 1..Len(pattern) :
          /\ j \in A <=> j > 1 /\ pattern[j - 1] = "\\" /\ j - 1 \notin A
          /\ j \notin A /\ pattern[j] = "\\" => at[j + 1] = at[j]
          /\ j \notin A /\ pattern[j] = "%" => at[j + 1] >= at[j]
          /\ j \notin A /\ pattern[j] = "_" => at[j + 1] = at[j] + 1
          /\ j \in A \/ pattern[j] \notin Special =>
                at[j + 1] = at[j] + 1 /\ text[at[j]] = pattern[j]

\* Like asks for a way to cut the pattern into characters, escapes and wildcards, as named here.
LEMMA LikeMatches ==
    ASSUME NEW S, NEW text \in Seq(S), NEW pattern \in Seq(S)
    PROVE  Like(text, pattern)
              <=> \E A \in SUBSET (1..Len(pattern)) : \E at : Matches(A, at, text, pattern)
<1> DEFINE Step(A, at, j) ==
              CASE j \notin A /\ pattern[j] = "\\" -> at[j + 1] = at[j]
                [] j \notin A /\ pattern[j] = "%"  -> at[j + 1] >= at[j]
                [] j \notin A /\ pattern[j] = "_"  -> at[j + 1] = at[j] + 1
                [] OTHER -> at[j + 1] = at[j] + 1 /\ text[at[j]] = pattern[j]
           Moves(A, at, j) ==
              /\ j \notin A /\ pattern[j] = "\\" => at[j + 1] = at[j]
              /\ j \notin A /\ pattern[j] = "%" => at[j + 1] >= at[j]
              /\ j \notin A /\ pattern[j] = "_" => at[j + 1] = at[j] + 1
              /\ j \in A \/ pattern[j] \notin Special =>
                    at[j + 1] = at[j] + 1 /\ text[at[j]] = pattern[j]
<1>1. DOMAIN pattern = 1..Len(pattern)
  OBVIOUS
<1>2. ASSUME NEW A, NEW at, NEW j PROVE Step(A, at, j) <=> Moves(A, at, j)
  <2>1. CASE j \notin A /\ pattern[j] = "\\"
    BY <2>1 DEF Special
  <2>2. CASE j \notin A /\ pattern[j] = "%"
    BY <2>2 DEF Special
  <2>3. CASE j \notin A /\ pattern[j] = "_"
    BY <2>3 DEF Special
  <2>4. CASE j \in A \/ pattern[j] \notin Special
    BY <2>4 DEF Special
  <2> QED
    BY <2>1, <2>2, <2>3, <2>4 DEF Special
<1>3. Like(text, pattern) <=>
        \E A \in SUBSET DOMAIN pattern :
           /\ \A j \in DOMAIN pattern :
                 j \in A <=> j > 1 /\ pattern[j - 1] = "\\" /\ j - 1 \notin A
           /\ \E at \in [1..(Len(pattern) + 1) -> 1..(Len(text) + 1)] :
                 /\ at[1] = 1 /\ at[Len(pattern) + 1] = Len(text) + 1
                 /\ \A j \in DOMAIN pattern : Step(A, at, j)
  BY Zenon DEF Like
<1>4. \A A, at : Matches(A, at, text, pattern) <=>
         /\ at \in [1..(Len(pattern) + 1) -> 1..(Len(text) + 1)]
         /\ at[1] = 1 /\ at[Len(pattern) + 1] = Len(text) + 1
         /\ \A j \in 1..Len(pattern) :
               /\ j \in A <=> j > 1 /\ pattern[j - 1] = "\\" /\ j - 1 \notin A
               /\ Moves(A, at, j)
  BY Zenon DEF Matches
<1> HIDE DEF Step, Moves
<1>5. ASSUME Like(text, pattern)
      PROVE  \E A \in SUBSET (1..Len(pattern)) : \E at : Matches(A, at, text, pattern)
  <2>1. PICK A \in SUBSET (1..Len(pattern)) :
           /\ \A j \in 1..Len(pattern) :
                 j \in A <=> j > 1 /\ pattern[j - 1] = "\\" /\ j - 1 \notin A
           /\ \E at \in [1..(Len(pattern) + 1) -> 1..(Len(text) + 1)] :
                 /\ at[1] = 1 /\ at[Len(pattern) + 1] = Len(text) + 1
                 /\ \A j \in 1..Len(pattern) : Step(A, at, j)
    BY <1>1, <1>3, <1>5, Zenon
  <2>2. PICK at \in [1..(Len(pattern) + 1) -> 1..(Len(text) + 1)] :
                 /\ at[1] = 1 /\ at[Len(pattern) + 1] = Len(text) + 1
                 /\ \A j \in 1..Len(pattern) : Step(A, at, j)
    BY <2>1, Zenon
  <2>3. \A j \in 1..Len(pattern) : Moves(A, at, j)
    BY <1>2, <2>2, Zenon
  <2>4. Matches(A, at, text, pattern)
    BY <1>4, <2>1, <2>2, <2>3, Zenon
  <2> QED
    BY <2>4
<1>6. ASSUME NEW A \in SUBSET (1..Len(pattern)), NEW at, Matches(A, at, text, pattern)
      PROVE  Like(text, pattern)
  <2>1. \A j \in 1..Len(pattern) : Step(A, at, j)
    BY <1>2, <1>4, <1>6, Zenon
  <2>2. /\ at \in [1..(Len(pattern) + 1) -> 1..(Len(text) + 1)]
        /\ at[1] = 1 /\ at[Len(pattern) + 1] = Len(text) + 1
        /\ \A j \in 1..Len(pattern) :
              j \in A <=> j > 1 /\ pattern[j - 1] = "\\" /\ j - 1 \notin A
    BY <1>4, <1>6, Zenon
  <2> QED
    BY <1>1, <1>3, <2>1, <2>2, Zenon
<1> QED
  BY <1>5, <1>6

\* The pattern of a prefix, with the wildcard at its end.
LEMMA PatternOf ==
    ASSUME NEW S, Special \subseteq S, NEW P \in Seq(S)
    PROVE  /\ Append(P, "%") \in Seq(S) /\ Len(Append(P, "%")) = Len(P) + 1
           /\ Append(P, "%")[Len(P) + 1] = "%"
           /\ \A j \in 1..Len(P) : Append(P, "%")[j] = P[j]
<1>1. "%" \in S
  BY DEF Special
<1> QED
  BY <1>1, AppendProperties

\* A text that starts with the prefix matches, with the wildcard for what is left.
LEMMA PrefixMatches ==
    ASSUME NEW S, Special \subseteq S, NEW p \in Seq(S), NEW q \in Seq(S),
           NEW P \in Seq(S), NEW A, NEW at, Spells(A, at, P, p),
           Len(p) <= Len(q), \A i \in 1..Len(p) : p[i] = q[i]
    PROVE  \E ct : Matches(A, ct, q, Append(P, "%"))
<1>1. PICK m, n, k, W : m = Len(P) /\ n = Len(p) /\ k = Len(q) /\ W = Append(P, "%")
  OBVIOUS
<1>2. /\ m \in Nat /\ n \in Nat /\ k \in Nat /\ n <= k /\ Len(W) = m + 1
      /\ W[m + 1] = "%" /\ \A j \in 1..m : W[j] = P[j]
  BY <1>1, PatternOf
<1>3. PICK ct : ct = [j \in 1..(m + 2) |-> IF j = m + 2 THEN k + 1 ELSE at[j]]
  OBVIOUS
<1>4. /\ A \subseteq 1..m /\ 1 \notin A /\ at \in [1..(m + 1) -> 1..(n + 1)]
      /\ at[1] = 1 /\ at[m + 1] = n + 1
  BY <1>1 DEF Spells
<1>5. /\ \A j \in 1..(m + 1) : ct[j] = at[j]
      /\ ct[m + 2] = k + 1
  BY <1>2, <1>3
<1>6. ct \in [1..(m + 2) -> 1..(k + 1)]
  <2>1. \A j \in 1..(m + 2) : j = m + 2 \/ j \in 1..(m + 1)
    BY <1>2
  <2>2. \A j \in 1..(m + 1) : at[j] \in 1..(k + 1)
    BY <1>2, <1>4
  <2>3. k + 1 \in 1..(k + 1)
    BY <1>2
  <2> QED
    BY <1>3, <2>1, <2>2, <2>3
<1>7. ASSUME NEW j \in 1..m
      PROVE  /\ at[j] \in 1..n /\ ct[j] = at[j] /\ ct[j + 1] = at[j + 1] /\ W[j] = P[j]
             /\ j + 1 \in A <=> W[j] = "\\" /\ j \notin A
             /\ j + 1 \in A => ct[j + 1] = ct[j]
             /\ j + 1 \notin A => /\ ct[j + 1] = ct[j] + 1 /\ W[j] = q[ct[j]]
                                  /\ j \in A \/ W[j] \notin Special
  <2>1. j \in 1..(m + 1) /\ j + 1 \in 1..(m + 1)
    BY <1>2
  <2>2. ct[j] = at[j] /\ ct[j + 1] = at[j + 1] /\ W[j] = P[j]
    BY <1>2, <1>5, <2>1
  <2>3. /\ at[j] \in 1..n
        /\ j + 1 \in A <=> P[j] = "\\" /\ j \notin A
        /\ IF j + 1 \in A THEN at[j + 1] = at[j]
           ELSE /\ at[j + 1] = at[j] + 1 /\ P[j] = p[at[j]]
                /\ j \in A \/ P[j] \notin Special
    BY <1>1 DEF Spells
  <2>4. p[at[j]] = q[at[j]]
    BY <1>1, <2>3
  <2> QED
    BY <2>2, <2>3, <2>4
<1>8. ASSUME NEW j \in 1..(m + 1)
      PROVE  /\ j \in A <=> j > 1 /\ W[j - 1] = "\\" /\ j - 1 \notin A
             /\ j \notin A /\ W[j] = "\\" => ct[j + 1] = ct[j]
             /\ j \notin A /\ W[j] = "%" => ct[j + 1] >= ct[j]
             /\ j \notin A /\ W[j] = "_" => ct[j + 1] = ct[j] + 1
             /\ j \in A \/ W[j] \notin Special => ct[j + 1] = ct[j] + 1 /\ q[ct[j]] = W[j]
  <2>1. j \in A <=> j > 1 /\ W[j - 1] = "\\" /\ j - 1 \notin A
    <3>1. CASE j = 1
      BY <1>4, <3>1
    <3>2. CASE j # 1
      <4>1. j - 1 \in 1..m /\ (j - 1) + 1 = j /\ j > 1
        BY <1>2, <3>2
      <4>2. (j - 1) + 1 \in A <=> W[j - 1] = "\\" /\ j - 1 \notin A
        BY <1>7, <4>1
      <4> QED
        BY <4>1, <4>2
    <3> QED
      BY <3>1, <3>2
  <2>2. CASE j = m + 1
    <3>1. j \notin A /\ W[j] = "%" /\ W[j] \in Special /\ W[j] # "\\" /\ W[j] # "_"
      <4>1. "%" \in Special /\ "%" # "\\" /\ "%" # "_"
        BY DEF Special
      <4>2. j \notin 1..m
        BY <1>2, <2>2
      <4> QED
        BY <1>2, <1>4, <2>2, <4>1, <4>2
    <3>2. ct[j] = n + 1 /\ ct[j + 1] = k + 1
      BY <1>2, <1>4, <1>5, <2>2
    <3> QED
      BY <1>2, <2>1, <3>1, <3>2
  <2>3. CASE j # m + 1
    <3>1. j \in 1..m
      BY <1>2, <2>3
    <3>2. /\ j + 1 \in A <=> W[j] = "\\" /\ j \notin A
          /\ j + 1 \in A => ct[j + 1] = ct[j]
          /\ j + 1 \notin A => /\ ct[j + 1] = ct[j] + 1 /\ W[j] = q[ct[j]]
                               /\ j \in A \/ W[j] \notin Special
      BY <1>7, <3>1
    <3>3. W[j] = "\\" \/ W[j] = "%" \/ W[j] = "_" => W[j] \in Special
      BY DEF Special
    <3>4. CASE j + 1 \in A
      <4>1. W[j] = "\\" /\ j \notin A /\ ct[j + 1] = ct[j] /\ W[j] \in Special
        BY <3>2, <3>3, <3>4
      <4> QED
        BY <2>1, <4>1
    <3>5. CASE j + 1 \notin A
      <4>1. j \notin A => W[j] # "\\" /\ W[j] # "%" /\ W[j] # "_"
        BY <3>2, <3>3, <3>5
      <4> QED
        BY <2>1, <3>2, <3>5, <4>1
    <3> QED
      BY <3>4, <3>5
  <2> QED
    BY <2>2, <2>3
<1>9. Matches(A, ct, q, W)
  <2>1. ct \in [1..(Len(W) + 1) -> 1..(Len(q) + 1)]
    BY <1>1, <1>2, <1>6
  <2>2. ct[1] = 1 /\ ct[Len(W) + 1] = Len(q) + 1
    BY <1>1, <1>2, <1>4, <1>5
  <2>3. 1..Len(W) = 1..(m + 1)
    BY <1>2
  <2> QED
    BY <1>8, <2>1, <2>2, <2>3 DEF Matches
<1> QED
  BY <1>1, <1>9

\* A text that matches starts with the prefix.
LEMMA MatchIsPrefix ==
    ASSUME NEW S, Special \subseteq S, NEW p \in Seq(S), NEW q \in Seq(S),
           NEW P \in Seq(S), NEW A, NEW at, Spells(A, at, P, p),
           NEW B \in SUBSET (1..Len(Append(P, "%"))), NEW ct, Matches(B, ct, q, Append(P, "%"))
    PROVE  Len(p) <= Len(q) /\ \A i \in 1..Len(p) : p[i] = q[i]
<1>1. PICK m, n, k, W : m = Len(P) /\ n = Len(p) /\ k = Len(q) /\ W = Append(P, "%")
  OBVIOUS
<1>2. /\ m \in Nat /\ n \in Nat /\ k \in Nat /\ Len(W) = m + 1
      /\ W[m + 1] = "%" /\ \A j \in 1..m : W[j] = P[j]
  BY <1>1, PatternOf
<1>3. /\ A \subseteq 1..m /\ 1 \notin A /\ at \in [1..(m + 1) -> 1..(n + 1)]
      /\ at[1] = 1 /\ at[m + 1] = n + 1
  BY <1>1 DEF Spells
<1>4. /\ ct \in [1..(m + 2) -> 1..(k + 1)]
      /\ ct[1] = 1 /\ Matches(B, ct, q, W)
  <2>1. Matches(B, ct, q, W) /\ Len(W) + 1 = m + 2
    BY <1>1, <1>2
  <2> QED
    BY <1>1, <2>1 DEF Matches
<1> DEFINE Agree(j) == /\ ct[j] = at[j] /\ (j \in B <=> j \in A)
                      /\ \A i \in 1..(at[j] - 1) : i <= k /\ p[i] = q[i]
           T == {j \in Nat : j \in 1..(m + 1) => Agree(j)}
<1>5. Agree(1)
  <2>1. 1 \in 1..Len(W) /\ ~(1 > 1)
    BY <1>2
  <2>2. 1 \notin B
    BY <1>4, <2>1 DEF Matches
  <2> QED
    BY <1>3, <1>4, <2>2
<1>6. ASSUME NEW j \in 1..m, Agree(j) PROVE Agree(j + 1)
  <2>1. /\ j \in 1..(m + 1) /\ j + 1 \in 1..(m + 1) /\ (j + 1) - 1 = j /\ j + 1 > 1
        /\ j + 1 \in 1..(m + 2)
    BY <1>2
  <2>2. /\ at[j] \in 1..n
        /\ j + 1 \in A <=> W[j] = "\\" /\ j \notin A
        /\ j + 1 \in A => at[j + 1] = at[j]
        /\ j + 1 \notin A => /\ at[j + 1] = at[j] + 1 /\ W[j] = p[at[j]]
                             /\ j \in A \/ W[j] \notin Special
    BY <1>1, <1>2 DEF Spells
  <2>3. /\ j \notin B /\ W[j] = "\\" => ct[j + 1] = ct[j]
        /\ j \in B \/ W[j] \notin Special => ct[j + 1] = ct[j] + 1 /\ q[ct[j]] = W[j]
    BY <1>2, <1>4, <2>1 DEF Matches
  <2>4. j + 1 \in B <=> W[j] = "\\" /\ j \notin B
    <3>1. j + 1 \in 1..Len(W)
      BY <1>2, <2>1
    <3>2. j + 1 \in B <=> j + 1 > 1 /\ W[(j + 1) - 1] = "\\" /\ (j + 1) - 1 \notin B
      BY <1>4, <3>1 DEF Matches
    <3> QED
      BY <2>1, <3>2
  <2>5. j + 1 \in B <=> j + 1 \in A
    BY <1>6, <2>2, <2>4
  <2>6. ct[j + 1] \in 1..(k + 1)
    BY <1>4, <2>1
  <2>7. CASE j + 1 \in A
    BY <1>6, <2>2, <2>3, <2>5, <2>7
  <2>8. CASE j + 1 \notin A
    <3>1. ct[j + 1] = ct[j] + 1 /\ at[j + 1] = at[j] + 1 /\ q[at[j]] = p[at[j]]
      BY <1>6, <2>2, <2>3, <2>8
    <3>2. at[j] <= k /\ at[j] \in Nat
      BY <1>2, <1>6, <2>2, <2>6, <3>1
    <3>3. \A i \in 1..(at[j + 1] - 1) : i = at[j] \/ i \in 1..(at[j] - 1)
      BY <3>1, <3>2
    <3> QED
      BY <1>6, <2>5, <3>1, <3>2, <3>3
  <2> QED
    BY <2>7, <2>8
<1>7. Agree(m + 1)
  <2> HIDE DEF Agree
  <2>1. 0 \in T
    OBVIOUS
  <2>2. ASSUME NEW j \in Nat, j \in T PROVE j + 1 \in T
    <3> SUFFICES ASSUME j + 1 \in 1..(m + 1) PROVE Agree(j + 1)
      OBVIOUS
    <3>1. CASE j = 0
      BY <1>5, <3>1
    <3>2. CASE j # 0
      <4>1. j \in 1..m /\ j \in 1..(m + 1)
        BY <1>2, <3>2
      <4> QED
        BY <1>6, <2>2, <4>1
    <3> QED
      BY <3>1, <3>2
  <2> HIDE DEF T
  <2>3. Nat \subseteq T
    BY <2>1, <2>2, NatSetInduction
  <2>4. m + 1 \in Nat /\ m + 1 \in 1..(m + 1)
    BY <1>2
  <2> USE DEF T
  <2> QED
    BY <2>3, <2>4
<1>8. \A i \in 1..n : i <= k /\ p[i] = q[i]
  <2>1. at[m + 1] - 1 = n
    BY <1>2, <1>3
  <2> QED
    BY <1>7, <2>1
<1>9. n <= k
  <2>1. n = 0 \/ n \in 1..n
    BY <1>2
  <2> QED
    BY <1>2, <1>8, <2>1
<1> QED
  BY <1>1, <1>8, <1>9

\* The LIKE of a prefix finds the texts that start with the prefix, character by character.
THEOREM StartsWithIsPrefix ==
    ASSUME NEW S, Special \subseteq S, NEW p \in Seq(S), NEW q \in Seq(S)
    PROVE  StartsWith(q, p) <=> IsPrefix(p, q)
<1>1. PICK P : P = escape_like(p)
  OBVIOUS
<1>2. P \in Seq(S) /\ \E A, at : Spells(A, at, P, p)
  BY <1>1, EscapeSpells
<1>3. PICK A, at : Spells(A, at, P, p)
  BY <1>2
<1>4. PICK W : W = Append(P, "%")
  OBVIOUS
<1>5. W \in Seq(S) /\ A \in SUBSET (1..Len(W))
  <2>1. W \in Seq(S) /\ Len(W) = Len(P) + 1 /\ Len(P) \in Nat
    BY <1>2, <1>4, PatternOf
  <2> QED
    BY <1>3, <2>1 DEF Spells
<1>6. StartsWith(q, p)
         <=> \E B \in SUBSET (1..Len(W)) : \E ct : Matches(B, ct, q, W)
  BY <1>1, <1>4, <1>5, LikeMatches DEF StartsWith
<1>7. StartsWith(q, p) <=> Len(p) <= Len(q) /\ \A i \in 1..Len(p) : p[i] = q[i]
  <2>1. ASSUME NEW B \in SUBSET (1..Len(W)), NEW ct, Matches(B, ct, q, W)
        PROVE  Len(p) <= Len(q) /\ \A i \in 1..Len(p) : p[i] = q[i]
    BY <1>2, <1>3, <1>4, <2>1, MatchIsPrefix
  <2>2. ASSUME Len(p) <= Len(q), \A i \in 1..Len(p) : p[i] = q[i]
        PROVE  \E ct : Matches(A, ct, q, W)
    BY <1>2, <1>3, <1>4, <2>2, PrefixMatches
  <2> QED
    BY <1>5, <1>6, <2>1, <2>2
<1>8. IsPrefix(p, q) <=> Len(p) <= Len(q) /\ \A i \in 1..Len(p) : p[i] = q[i]
  <2> SUFFICES ASSUME Len(p) <= Len(q)
               PROVE  SubSeq(p, 1, Len(p)) = SubSeq(q, 1, Len(p))
                         <=> \A i \in 1..Len(p) : p[i] = q[i]
    BY DEF IsPrefix
  <2>1. SubSeq(p, 1, Len(p)) = p
    BY SubSeqFull
  <2>2. PICK r : r = SubSeq(q, 1, Len(p))
    OBVIOUS
  <2>3. r \in Seq(S) /\ Len(r) = Len(p) /\ \A i \in 1..Len(p) : r[i] = q[i]
    <3>1. Len(p) \in Nat /\ Len(q) \in Nat /\ \A i \in 1..Len(p) : q[i] \in S
      OBVIOUS
    <3>2. /\ r \in Seq(S) /\ Len(r) = IF 1 <= Len(p) THEN Len(p) - 1 + 1 ELSE 0
          /\ \A i \in 1..(Len(p) - 1 + 1) : r[i] = q[1 + i - 1]
      BY <2>2, <3>1, SubSeqProperties
    <3>3. Len(p) - 1 + 1 = Len(p) /\ \A i \in 1..Len(p) : 1 + i - 1 = i
      BY <3>1
    <3> QED
      BY <3>1, <3>2, <3>3
  <2>4. p = r <=> \A i \in 1..Len(p) : p[i] = r[i]
    BY <2>3, SeqEqual
  <2> QED
    BY <2>1, <2>2, <2>3, <2>4
<1> QED
  BY <1>7, <1>8

-----------------------------------------------------------------------------
(* Normalising what is normalised changes nothing, provided that no lower- *)
(* case form joins a neighbour that the character itself does not join.    *)

\* f[i] is what step makes of the first i characters, up to the n-th.
Folds(f, n, base, step, t) ==
    f[0] = base /\ \A i \in 1..n : f[i] = step[<<f[i - 1], t[i]>>]

\* What goes through a text from the left, with a step for each character, has a result.
LEMMA FoldExists ==
    ASSUME NEW V, NEW S, NEW base \in V, NEW step \in [V \X S -> V], NEW t \in Seq(S)
    PROVE  \E f \in [0..Len(t) -> V] : Folds(f, Len(t), base, step, t)
<1> DEFINE T == {n \in Nat : n <= Len(t) => \E f \in [0..n -> V] : Folds(f, n, base, step, t)}
<1>1. 0 \in T
  <2>1. [i \in 0..0 |-> base] \in [0..0 -> V]
    OBVIOUS
  <2>2. Folds([i \in 0..0 |-> base], 0, base, step, t)
    BY DEF Folds
  <2> QED
    BY <2>1, <2>2
<1>2. ASSUME NEW n \in Nat, n + 1 <= Len(t),
             NEW f, f \in [0..n -> V], Folds(f, n, base, step, t)
      PROVE  \E g \in [0..(n + 1) -> V] : Folds(g, n + 1, base, step, t)
  <2>1. PICK v : v = step[<<f[n], t[n + 1]>>]
    OBVIOUS
  <2>2. v \in V
    <3>1. f[n] \in V /\ t[n + 1] \in S
      BY <1>2
    <3> QED
      BY <2>1, <3>1
  <2>3. PICK g : g = [i \in 0..(n + 1) |-> IF i = n + 1 THEN v ELSE f[i]]
    OBVIOUS
  <2>4. \A i \in 0..(n + 1) : i = n + 1 \/ i \in 0..n
    OBVIOUS
  <2>5. g \in [0..(n + 1) -> V]
    BY <1>2, <2>2, <2>3, <2>4
  <2>6. g[0] = base
    BY <1>2, <2>3 DEF Folds
  <2>7. ASSUME NEW i \in 1..(n + 1) PROVE g[i] = step[<<g[i - 1], t[i]>>]
    <3>1. i - 1 \in 0..(n + 1) /\ i - 1 # n + 1 /\ g[i - 1] = f[i - 1]
      BY <2>3
    <3>2. CASE i = n + 1
      BY <2>1, <2>3, <3>1, <3>2
    <3>3. CASE i # n + 1
      <4>1. i \in 1..n /\ g[i] = f[i]
        BY <2>3, <3>3
      <4> QED
        BY <1>2, <3>1, <4>1 DEF Folds
    <3> QED
      BY <3>2, <3>3
  <2>8. Folds(g, n + 1, base, step, t)
    BY <2>6, <2>7 DEF Folds
  <2> QED
    BY <2>5, <2>8
<1>3. \A n \in Nat : n \in T => n + 1 \in T
  BY <1>2
<1>4. Len(t) \in T
  <2> HIDE DEF T
  <2>1. Nat \subseteq T
    BY <1>1, <1>3, NatSetInduction
  <2> QED
    BY <2>1
<1> QED
  BY <1>4

-----------------------------------------------------------------------------
\* An alphabet that normalisation does not leave.
Alphabet(C) ==
    /\ Space \in C
    /\ \A r \in DOMAIN Composed : Composed[r] \in C
    /\ \A c \in DOMAIN Lower : Lower[c] \in C

\* A text that is not empty is its front and its last character.
LEMMA LastAndFront ==
    ASSUME NEW C, NEW s \in Seq(C), s # << >>
    PROVE  /\ Len(s) \in Nat \ {0} /\ Last(s) = s[Len(s)] /\ Last(s) \in C
           /\ Front(s) \in Seq(C) /\ Len(Front(s)) = Len(s) - 1
           /\ \A j \in 1..(Len(s) - 1) : Front(s)[j] = s[j]
<1>1. Len(s) \in Nat \ {0} /\ \A j \in 1..Len(s) : s[j] \in C
  BY EmptySeq
<1>2. Last(s) = s[Len(s)] /\ Last(s) \in C
  BY <1>1 DEF Last
<1>3. Front(s) = SubSeq(s, 1, Len(s) - 1)
  BY DEF Front
<1>4. /\ Front(s) \in Seq(C)
      /\ Len(Front(s)) = IF 1 <= Len(s) - 1 THEN (Len(s) - 1) - 1 + 1 ELSE 0
      /\ \A j \in 1..((Len(s) - 1) - 1 + 1) : Front(s)[j] = s[1 + j - 1]
  <2>1. Len(s) - 1 \in Int /\ \A j \in 1..(Len(s) - 1) : s[j] \in C
    BY <1>1
  <2> QED
    BY <1>3, <2>1, SubSeqProperties
<1>5. Len(Front(s)) = Len(s) - 1
  <2>1. CASE Len(s) = 1
    BY <1>4, <2>1
  <2>2. CASE Len(s) # 1
    <3>1. 1 <= Len(s) - 1 /\ (Len(s) - 1) - 1 + 1 = Len(s) - 1
      <4>1. PICK n \in Nat \ {0, 1} : n = Len(s)
        BY <1>1, <2>2
      <4>2. 1 <= n - 1 /\ (n - 1) - 1 + 1 = n - 1
        OBVIOUS
      <4> QED
        BY <4>1, <4>2
    <3> QED
      BY <1>4, <3>1
  <2> QED
    BY <2>1, <2>2
<1>6. \A j \in 1..(Len(s) - 1) : Front(s)[j] = s[j]
  <2>1. 1..((Len(s) - 1) - 1 + 1) = 1..(Len(s) - 1) /\ \A j \in 1..(Len(s) - 1) : 1 + j - 1 = j
    BY <1>1
  <2> QED
    BY <1>4, <2>1
<1> QED
  BY <1>1, <1>2, <1>4, <1>5, <1>6

\* Composing stays within an alphabet that has the composed characters.
LEMMA ComposeTyped ==
    ASSUME NEW C, Alphabet(C), NEW s \in Seq(C), NEW c \in C
    PROVE  Compose(s, c) \in Seq(C)
<1>1. CASE s # << >> /\ <<Last(s), c>> \in DOMAIN Composed
  <2>1. Front(s) \in Seq(C) /\ Composed[<<Last(s), c>>] \in C
    BY <1>1, LastAndFront DEF Alphabet
  <2> QED
    BY <1>1, <2>1 DEF Compose
<1>2. CASE ~(s # << >> /\ <<Last(s), c>> \in DOMAIN Composed)
  BY <1>2 DEF Compose
<1> QED
  BY <1>1, <1>2

\* Collapsing blanks brings in no character but the space.
LEMMA TakeCharTyped ==
    ASSUME NEW C, Space \in C, NEW s \in Seq(C), NEW c \in C
    PROVE  TakeChar(s, c) \in Seq(C)
<1>1. Append(s, c) \in Seq(C) /\ Append(s, Space) \in Seq(C)
  BY AppendProperties
<1> QED
  BY <1>1 DEF TakeChar

\* The two loops, as what they have after each character.
LEMMA NfcLoop ==
    ASSUME NEW C, Alphabet(C), NEW t \in Seq(C)
    PROVE  \E f : /\ Nfc(t) = f[Len(t)] /\ f[0] = << >>
                  /\ \A i \in 1..Len(t) : f[i] = Compose(f[i - 1], t[i])
                  /\ \A i \in 0..Len(t) : f[i] \in Seq(C)
<1> DEFINE Is(g) == g = [i \in 0..Len(t) |-> IF i = 0 THEN << >> ELSE Compose(g[i - 1], t[i])]
           chosen == CHOOSE g : Is(g)
<1>1. Nfc(t) = chosen[Len(t)]
  BY DEF Nfc
<1>2. Len(t) \in Nat /\ \A i \in 1..Len(t) : t[i] \in C
  OBVIOUS
<1>3. \E g : Is(g)
  <2>1. PICK step : step = [x \in Seq(C) \X C |-> Compose(x[1], x[2])]
    OBVIOUS
  <2>2. step \in [Seq(C) \X C -> Seq(C)]
    BY <2>1, ComposeTyped
  <2>3. << >> \in Seq(C)
    BY EmptySeq
  <2>4. PICK g : g \in [0..Len(t) -> Seq(C)] /\ Folds(g, Len(t), << >>, step, t)
    BY <2>2, <2>3, FoldExists
  <2>5. \A i \in 1..Len(t) : g[i] = Compose(g[i - 1], t[i])
    <3> TAKE i \in 1..Len(t)
    <3>1. i - 1 \in 0..Len(t) /\ t[i] \in C
      BY <1>2
    <3>2. g[i - 1] \in Seq(C)
      BY <2>4, <3>1
    <3>3. g[i] = step[<<g[i - 1], t[i]>>]
      BY <2>4 DEF Folds
    <3> QED
      BY <2>1, <3>1, <3>2, <3>3
  <2>6. \A i \in 0..Len(t) : g[i] = IF i = 0 THEN << >> ELSE Compose(g[i - 1], t[i])
    <3>1. \A i \in 0..Len(t) : i = 0 \/ i \in 1..Len(t)
      BY <1>2
    <3>2. g[0] = << >>
      BY <2>4 DEF Folds
    <3> QED
      BY <2>5, <3>1, <3>2
  <2>7. g = [i \in 0..Len(t) |-> g[i]]
    BY <2>4
  <2>8. Is(g)
    BY <2>6, <2>7
  <2> QED
    BY <2>8
<1>4. Is(chosen)
  BY <1>3
<1> HIDE DEF chosen
<1>5. chosen[0] = << >> /\ \A i \in 1..Len(t) : chosen[i] = Compose(chosen[i - 1], t[i])
  <2>1. \A i \in 0..Len(t) : chosen[i] = IF i = 0 THEN << >> ELSE Compose(chosen[i - 1], t[i])
    BY <1>4
  <2>2. 0 \in 0..Len(t) /\ \A i \in 1..Len(t) : i \in 0..Len(t) /\ i # 0
    BY <1>2
  <2> QED
    BY <2>1, <2>2
<1> HIDE DEF Is
<1>6. \A i \in 0..Len(t) : chosen[i] \in Seq(C)
  <2> DEFINE T == {n \in Nat : n \in 0..Len(t) => chosen[n] \in Seq(C)}
  <2>1. 0 \in T
    BY <1>5, EmptySeq
  <2>2. ASSUME NEW n \in Nat, n \in T PROVE n + 1 \in T
    <3> SUFFICES ASSUME n + 1 \in 0..Len(t) PROVE chosen[n + 1] \in Seq(C)
      OBVIOUS
    <3>1. n \in 0..Len(t) /\ n + 1 \in 1..Len(t) /\ (n + 1) - 1 = n
      BY <1>2
    <3>2. chosen[n] \in Seq(C) /\ t[n + 1] \in C
      BY <1>2, <2>2, <3>1
    <3>3. chosen[n + 1] = Compose(chosen[n], t[n + 1])
      BY <1>5, <3>1
    <3> QED
      BY <3>2, <3>3, ComposeTyped
  <2>3. Nat \subseteq T
    <3> HIDE DEF T
    <3> QED
      BY <2>1, <2>2, NatSetInduction
  <2> QED
    BY <1>2, <2>3
<1> QED
  BY <1>1, <1>5, <1>6

\* What SingleBlanks does at the end.
NoLastBlank(s) == IF s # << >> /\ Last(s) = Space THEN Front(s) ELSE s

\* SingleBlanks reads the text from its first character to its last.
LEMMA BlanksLoop ==
    ASSUME NEW C, Space \in C, NEW t \in Seq(C)
    PROVE  \E f : /\ SingleBlanks(t) = NoLastBlank(f[Len(t)]) /\ f[0] = << >>
                  /\ \A i \in 1..Len(t) : f[i] = TakeChar(f[i - 1], t[i])
                  /\ \A i \in 0..Len(t) : f[i] \in Seq(C)
<1> DEFINE Is(g) == g = [i \in 0..Len(t) |-> IF i = 0 THEN << >> ELSE TakeChar(g[i - 1], t[i])]
           chosen == CHOOSE g : Is(g)
<1>1. SingleBlanks(t) = NoLastBlank(chosen[Len(t)])
  BY DEF SingleBlanks, NoLastBlank
<1>2. Len(t) \in Nat /\ \A i \in 1..Len(t) : t[i] \in C
  OBVIOUS
<1>3. \E g : Is(g)
  <2>1. PICK step : step = [x \in Seq(C) \X C |-> TakeChar(x[1], x[2])]
    OBVIOUS
  <2>2. step \in [Seq(C) \X C -> Seq(C)]
    BY <2>1, TakeCharTyped
  <2>3. << >> \in Seq(C)
    BY EmptySeq
  <2>4. PICK g : g \in [0..Len(t) -> Seq(C)] /\ Folds(g, Len(t), << >>, step, t)
    BY <2>2, <2>3, FoldExists
  <2>5. \A i \in 1..Len(t) : g[i] = TakeChar(g[i - 1], t[i])
    <3> TAKE i \in 1..Len(t)
    <3>1. i - 1 \in 0..Len(t) /\ t[i] \in C
      BY <1>2
    <3>2. g[i - 1] \in Seq(C)
      BY <2>4, <3>1
    <3>3. g[i] = step[<<g[i - 1], t[i]>>]
      BY <2>4 DEF Folds
    <3> QED
      BY <2>1, <3>1, <3>2, <3>3
  <2>6. \A i \in 0..Len(t) : g[i] = IF i = 0 THEN << >> ELSE TakeChar(g[i - 1], t[i])
    <3>1. \A i \in 0..Len(t) : i = 0 \/ i \in 1..Len(t)
      BY <1>2
    <3>2. g[0] = << >>
      BY <2>4 DEF Folds
    <3> QED
      BY <2>5, <3>1, <3>2
  <2>7. g = [i \in 0..Len(t) |-> g[i]]
    BY <2>4
  <2>8. Is(g)
    BY <2>6, <2>7
  <2> QED
    BY <2>8
<1>4. Is(chosen)
  BY <1>3
<1> HIDE DEF chosen
<1>5. chosen[0] = << >> /\ \A i \in 1..Len(t) : chosen[i] = TakeChar(chosen[i - 1], t[i])
  <2>1. \A i \in 0..Len(t) : chosen[i] = IF i = 0 THEN << >> ELSE TakeChar(chosen[i - 1], t[i])
    BY <1>4
  <2>2. 0 \in 0..Len(t) /\ \A i \in 1..Len(t) : i \in 0..Len(t) /\ i # 0
    BY <1>2
  <2> QED
    BY <2>1, <2>2
<1> HIDE DEF Is
<1>6. \A i \in 0..Len(t) : chosen[i] \in Seq(C)
  <2> DEFINE T == {n \in Nat : n \in 0..Len(t) => chosen[n] \in Seq(C)}
  <2>1. 0 \in T
    BY <1>5, EmptySeq
  <2>2. ASSUME NEW n \in Nat, n \in T PROVE n + 1 \in T
    <3> SUFFICES ASSUME n + 1 \in 0..Len(t) PROVE chosen[n + 1] \in Seq(C)
      OBVIOUS
    <3>1. n \in 0..Len(t) /\ n + 1 \in 1..Len(t) /\ (n + 1) - 1 = n
      BY <1>2
    <3>2. chosen[n] \in Seq(C) /\ t[n + 1] \in C
      BY <1>2, <2>2, <3>1
    <3>3. chosen[n + 1] = TakeChar(chosen[n], t[n + 1])
      BY <1>5, <3>1
    <3> QED
      BY <3>2, <3>3, TakeCharTyped
  <2>3. Nat \subseteq T
    <3> HIDE DEF T
    <3> QED
      BY <2>1, <2>2, NatSetInduction
  <2> QED
    BY <1>2, <2>3
<1> QED
  BY <1>1, <1>5, <1>6

\* No character joins the one before it.
Apart(s) == \A j \in 1..(Len(s) - 1) : <<s[j], s[j + 1]>> \notin DOMAIN Composed

\* A character that was composed joins none before it.
CompositesStay == \A p, r \in DOMAIN Composed : r[2] # Composed[p]

\* Two characters whose lower-case forms join each other join already as they are.
LowerJoinsNone ==
    \A r \in DOMAIN Composed :
        \A a \in DOMAIN Lower \cup {r[1]}, b \in DOMAIN Lower \cup {r[2]} :
            LowerChar(a) = r[1] /\ LowerChar(b) = r[2] => <<a, b>> \in DOMAIN Composed

\* The lower-case form of a character is in lower case.
LowerStays == \A c \in DOMAIN Lower : LowerChar(Lower[c]) = Lower[c]

\* Space is a blank, is no capital and joins nothing.
BlankStays ==
    /\ Space \in Blank /\ Space \notin DOMAIN Lower
    /\ \A r \in DOMAIN Composed : r[1] # Space /\ r[2] # Space

\* A character that is taken in, composed or not, leaves no two that join.
LEMMA ComposeApart ==
    ASSUME CompositesStay, NEW C, Alphabet(C), NEW s \in Seq(C), NEW c \in C, Apart(s)
    PROVE  Apart(Compose(s, c))
<1>1. CASE s # << >> /\ <<Last(s), c>> \in DOMAIN Composed
  <2>1. PICK f, d : f = Front(s) /\ d = Composed[<<Last(s), c>>]
    OBVIOUS
  <2>2. /\ f \in Seq(C) /\ Len(f) = Len(s) - 1 /\ Len(s) \in Nat \ {0} /\ d \in C
        /\ \A j \in 1..(Len(s) - 1) : f[j] = s[j]
    BY <1>1, <2>1, LastAndFront DEF Alphabet
  <2>3. PICK u : u = Append(f, d)
    OBVIOUS
  <2>4. /\ Len(u) = Len(s) /\ u[Len(s)] = d
        /\ \A j \in 1..(Len(s) - 1) : u[j] = s[j]
    BY <2>2, <2>3
  <2>5. Compose(s, c) = u
    BY <1>1, <2>1, <2>3 DEF Compose
  <2>6. ASSUME NEW j \in 1..(Len(s) - 1) PROVE <<u[j], u[j + 1]>> \notin DOMAIN Composed
    <3>1. CASE j = Len(s) - 1
      <4>1. u[j + 1] = d
        BY <2>2, <2>4, <3>1
      <4>2. \A r \in DOMAIN Composed : r[2] # d
        BY <1>1, <2>1 DEF CompositesStay
      <4> QED
        BY <4>1, <4>2
    <3>2. CASE j # Len(s) - 1
      <4>1. j + 1 \in 1..(Len(s) - 1)
        BY <2>2, <3>2
      <4> QED
        BY <2>4, <4>1 DEF Apart
    <3> QED
      BY <3>1, <3>2
  <2> QED
    BY <2>4, <2>5, <2>6 DEF Apart
<1>2. CASE ~(s # << >> /\ <<Last(s), c>> \in DOMAIN Composed)
  <2>1. PICK u : u = Append(s, c)
    OBVIOUS
  <2>2. /\ Len(s) \in Nat /\ Len(u) = Len(s) + 1 /\ u[Len(s) + 1] = c
        /\ \A j \in 1..Len(s) : u[j] = s[j]
    BY <2>1
  <2>3. ASSUME NEW j \in 1..Len(s) PROVE <<u[j], u[j + 1]>> \notin DOMAIN Composed
    <3>1. CASE j = Len(s)
      <4>1. s # << >> /\ Last(s) = s[j]
        BY <2>2, <3>1, EmptySeq DEF Last
      <4> QED
        BY <1>2, <2>2, <3>1, <4>1
    <3>2. CASE j # Len(s)
      <4>1. j \in 1..(Len(s) - 1) /\ j + 1 \in 1..Len(s)
        BY <2>2, <3>2
      <4> QED
        BY <2>2, <4>1 DEF Apart
    <3> QED
      BY <3>1, <3>2
  <2>4. Compose(s, c) = u
    BY <1>2, <2>1 DEF Compose
  <2>5. Len(u) - 1 = Len(s)
    BY <2>2
  <2> QED
    BY <2>3, <2>4, <2>5 DEF Apart
<1> QED
  BY <1>1, <1>2

\* What has been composed joins no further.
LEMMA NfcApart ==
    ASSUME CompositesStay, NEW C, Alphabet(C), NEW t \in Seq(C)
    PROVE  Nfc(t) \in Seq(C) /\ Apart(Nfc(t))
<1>1. PICK f : /\ Nfc(t) = f[Len(t)] /\ f[0] = << >>
               /\ \A i \in 1..Len(t) : f[i] = Compose(f[i - 1], t[i])
               /\ \A i \in 0..Len(t) : f[i] \in Seq(C)
  BY NfcLoop
<1>2. Len(t) \in Nat /\ Len(t) \in 0..Len(t) /\ \A i \in 1..Len(t) : t[i] \in C
  OBVIOUS
<1> DEFINE T == {n \in Nat : n \in 0..Len(t) => Apart(f[n])}
<1>3. 0 \in T
  <2>1. Len(<< >>) = 0
    BY EmptySeq
  <2> QED
    BY <1>1, <2>1 DEF Apart
<1>4. ASSUME NEW n \in Nat, n \in T PROVE n + 1 \in T
  <2> SUFFICES ASSUME n + 1 \in 0..Len(t) PROVE Apart(f[n + 1])
    OBVIOUS
  <2>1. n \in 0..Len(t) /\ n + 1 \in 1..Len(t) /\ (n + 1) - 1 = n
    BY <1>2
  <2>2. f[n] \in Seq(C) /\ t[n + 1] \in C /\ Apart(f[n])
    BY <1>1, <1>2, <1>4, <2>1
  <2>3. f[n + 1] = Compose(f[n], t[n + 1])
    BY <1>1, <2>1
  <2> QED
    BY <2>2, <2>3, ComposeApart
<1>5. Len(t) \in T
  <2> HIDE DEF T
  <2>1. Nat \subseteq T
    BY <1>3, <1>4, NatSetInduction
  <2> QED
    BY <1>2, <2>1
<1> QED
  BY <1>1, <1>2, <1>5

\* A text is what appending its characters one after the other makes.
LEMMA PrefixStep ==
    ASSUME NEW C, NEW t \in Seq(C), NEW n \in Nat, n + 1 <= Len(t)
    PROVE  /\ SubSeq(t, 1, n) \in Seq(C) /\ Len(SubSeq(t, 1, n)) = n
           /\ SubSeq(t, 1, n + 1) = Append(SubSeq(t, 1, n), t[n + 1])
           /\ n # 0 => SubSeq(t, 1, n) # << >> /\ Last(SubSeq(t, 1, n)) = t[n]
<1>1. \A i \in 1..(n + 1) : t[i] \in C
  OBVIOUS
<1>2. PICK r : r = SubSeq(t, 1, n)
  OBVIOUS
<1>3. PICK s : s = SubSeq(t, 1, n + 1)
  OBVIOUS
<1>4. r \in Seq(C) /\ Len(r) = n /\ \A i \in 1..n : r[i] = t[i]
  BY <1>1, <1>2, SubSeqProperties
<1>5. s \in Seq(C) /\ Len(s) = n + 1 /\ \A i \in 1..(n + 1) : s[i] = t[i]
  BY <1>1, <1>3, SubSeqProperties
<1>6. /\ Append(r, t[n + 1]) \in Seq(C) /\ Len(Append(r, t[n + 1])) = n + 1
      /\ \A i \in 1..(n + 1) : Append(r, t[n + 1])[i] = t[i]
  <2>1. t[n + 1] \in C /\ \A i \in 1..(n + 1) : i = n + 1 \/ i \in 1..n
    BY <1>1
  <2>2. PICK u : u = Append(r, t[n + 1])
    OBVIOUS
  <2>3. /\ u \in Seq(C) /\ Len(u) = n + 1 /\ u[n + 1] = t[n + 1]
        /\ \A i \in 1..n : u[i] = r[i]
    BY <1>4, <2>1, <2>2, AppendProperties
  <2> QED
    BY <1>4, <2>1, <2>2, <2>3
<1>7. s = Append(r, t[n + 1])
  BY <1>5, <1>6, SeqEqual
<1>8. n # 0 => r # << >> /\ Last(r) = t[n]
  BY <1>4, EmptySeq DEF Last
<1> QED
  BY <1>2, <1>3, <1>4, <1>7, <1>8

\* A text in which nothing joins is composed already.
LEMMA NfcFixed ==
    ASSUME NEW C, Alphabet(C), NEW t \in Seq(C), Apart(t)
    PROVE  Nfc(t) = t
<1>1. PICK f : /\ Nfc(t) = f[Len(t)] /\ f[0] = << >>
               /\ \A i \in 1..Len(t) : f[i] = Compose(f[i - 1], t[i])
               /\ \A i \in 0..Len(t) : f[i] \in Seq(C)
  BY NfcLoop
<1>2. Len(t) \in Nat /\ Len(t) \in 0..Len(t)
  OBVIOUS
<1> DEFINE T == {n \in Nat : n \in 0..Len(t) => f[n] = SubSeq(t, 1, n)}
<1>3. 0 \in T
  BY <1>1, SubSeqEmpty
<1>4. ASSUME NEW n \in Nat, n \in T PROVE n + 1 \in T
  <2> SUFFICES ASSUME n + 1 \in 0..Len(t) PROVE f[n + 1] = SubSeq(t, 1, n + 1)
    OBVIOUS
  <2>1. n \in 0..Len(t) /\ n + 1 \in 1..Len(t) /\ (n + 1) - 1 = n /\ n + 1 <= Len(t)
    BY <1>2
  <2>2. PICK r : r = SubSeq(t, 1, n)
    OBVIOUS
  <2>3. f[n] = r /\ f[n + 1] = Compose(r, t[n + 1])
    BY <1>1, <1>4, <2>1, <2>2
  <2>4. /\ SubSeq(t, 1, n + 1) = Append(r, t[n + 1]) /\ r \in Seq(C) /\ Len(r) = n
        /\ n # 0 => r # << >> /\ Last(r) = t[n]
    BY <2>1, <2>2, PrefixStep
  <2>5. CASE n = 0
    <3>1. r = << >>
      BY <2>4, <2>5, EmptySeq
    <3> QED
      BY <2>3, <2>4, <3>1 DEF Compose
  <2>6. CASE n # 0
    <3>1. n \in 1..(Len(t) - 1)
      BY <1>2, <2>1, <2>6
    <3>2. <<Last(r), t[n + 1]>> \notin DOMAIN Composed
      BY <2>4, <2>6, <3>1 DEF Apart
    <3> QED
      BY <2>3, <2>4, <3>2 DEF Compose
  <2> QED
    BY <2>5, <2>6
<1>5. Len(t) \in T
  <2> HIDE DEF T
  <2>1. Nat \subseteq T
    BY <1>3, <1>4, NatSetInduction
  <2> QED
    BY <1>2, <2>1
<1> QED
  BY <1>1, <1>2, <1>5, SubSeqFull

\* No character joins another, and blanks are single ones, each behind a word.
Tidy(s) ==
    /\ Apart(s)
    /\ \A j \in 1..Len(s) : s[j] \in Blank => s[j] = Space /\ j # 1 /\ s[j - 1] \notin Blank

\* A character that is taken in, or skipped as a second blank, leaves a tidy text.
LEMMA TakeCharTidy ==
    ASSUME BlankStays, NEW C, Space \in C, NEW s \in Seq(C), NEW c \in C, Tidy(s),
           c \notin Blank /\ s # << >> => <<Last(s), c>> \notin DOMAIN Composed
    PROVE  /\ Tidy(TakeChar(s, c))
           /\ c \notin Blank => Last(TakeChar(s, c)) = c
           /\ c \in Blank /\ TakeChar(s, c) # << >> => Last(TakeChar(s, c)) = Space
<1>1. Len(s) \in Nat /\ \A j \in 1..Len(s) : s[j] \in C
  OBVIOUS
<1>2. ASSUME NEW d \in C,
             s # << >> => <<Last(s), d>> \notin DOMAIN Composed,
             d \in Blank => d = Space /\ s # << >> /\ Last(s) # Space
      PROVE  Tidy(Append(s, d)) /\ Last(Append(s, d)) = d
  <2>1. PICK u : u = Append(s, d)
    OBVIOUS
  <2>2. /\ u \in Seq(C) /\ Len(u) = Len(s) + 1 /\ u[Len(s) + 1] = d
        /\ \A j \in 1..Len(s) : u[j] = s[j]
    BY <2>1, AppendProperties
  <2>3. s # << >> => Len(s) # 0 /\ Last(s) = s[Len(s)]
    BY EmptySeq DEF Last
  <2>4. ASSUME NEW j \in 1..Len(s) PROVE <<u[j], u[j + 1]>> \notin DOMAIN Composed
    <3>1. CASE j = Len(s)
      <4>1. s # << >>
        BY <3>1, EmptySeq
      <4> QED
        BY <1>2, <2>2, <2>3, <3>1, <4>1
    <3>2. CASE j # Len(s)
      <4>1. j \in 1..(Len(s) - 1) /\ j + 1 \in 1..Len(s)
        BY <1>1, <3>2
      <4> QED
        BY <2>2, <4>1 DEF Tidy, Apart
    <3> QED
      BY <3>1, <3>2
  <2>5. Len(u) - 1 = Len(s)
    BY <1>1, <2>2
  <2>6. Apart(u)
    BY <2>4, <2>5 DEF Apart
  <2>7. ASSUME NEW j \in 1..Len(u), u[j] \in Blank
        PROVE  u[j] = Space /\ j # 1 /\ u[j - 1] \notin Blank
    <3>1. CASE j = Len(s) + 1
      <4>1. d = Space /\ s # << >> /\ Last(s) # Space
        BY <1>2, <2>2, <2>7, <3>1
      <4>2. Len(s) # 0 /\ Len(s) \in 1..Len(s) /\ j - 1 = Len(s) /\ u[j - 1] = Last(s)
        BY <1>1, <2>2, <2>3, <3>1, <4>1
      <4>3. s[Len(s)] \notin Blank
        BY <2>3, <4>1, <4>2 DEF Tidy
      <4> QED
        BY <2>2, <2>3, <3>1, <4>1, <4>2, <4>3
    <3>2. CASE j # Len(s) + 1
      <4>1. j \in 1..Len(s)
        BY <1>1, <2>2, <3>2
      <4>2. s[j] = Space /\ j # 1 /\ s[j - 1] \notin Blank /\ u[j] = s[j]
        BY <2>2, <2>7, <4>1 DEF Tidy
      <4>3. j - 1 \in 1..Len(s)
        BY <1>1, <4>1, <4>2
      <4> QED
        BY <2>2, <4>2, <4>3
    <3> QED
      BY <3>1, <3>2
  <2>8. Last(u) = d
    BY <2>2 DEF Last
  <2> QED
    BY <2>1, <2>6, <2>7, <2>8 DEF Tidy
<1>3. CASE c \notin Blank
  <2>1. TakeChar(s, c) = Append(s, c)
    BY <1>3 DEF TakeChar
  <2>2. Tidy(Append(s, c)) /\ Last(Append(s, c)) = c
    BY <1>2, <1>3
  <2> QED
    BY <1>3, <2>1, <2>2
<1>4. CASE c \in Blank /\ (s = << >> \/ Last(s) = Space)
  <2>1. TakeChar(s, c) = s
    BY <1>4 DEF TakeChar
  <2> QED
    BY <1>4, <2>1
<1>5. CASE c \in Blank /\ s # << >> /\ Last(s) # Space
  <2>1. TakeChar(s, c) = Append(s, Space)
    BY <1>5 DEF TakeChar
  <2>2. <<Last(s), Space>> \notin DOMAIN Composed
    BY DEF BlankStays
  <2>3. Tidy(Append(s, Space)) /\ Last(Append(s, Space)) = Space
    BY <1>2, <1>5, <2>2
  <2> QED
    BY <1>5, <2>1, <2>3
<1> QED
  BY <1>3, <1>4, <1>5

\* What is left when blanks are taken once is tidy and ends in a word.
LEMMA SingleBlanksTidy ==
    ASSUME BlankStays, NEW C, Space \in C, NEW t \in Seq(C), Apart(t)
    PROVE  /\ SingleBlanks(t) \in Seq(C) /\ Tidy(SingleBlanks(t))
           /\ SingleBlanks(t) # << >> => Last(SingleBlanks(t)) # Space
<1>1. PICK f : /\ SingleBlanks(t) = NoLastBlank(f[Len(t)]) /\ f[0] = << >>
               /\ \A i \in 1..Len(t) : f[i] = TakeChar(f[i - 1], t[i])
               /\ \A i \in 0..Len(t) : f[i] \in Seq(C)
  BY BlanksLoop
<1>2. Len(t) \in Nat /\ Len(t) \in 0..Len(t) /\ \A i \in 1..Len(t) : t[i] \in C
  OBVIOUS
<1> DEFINE Link(n) ==
             n # 0 => /\ t[n] \notin Blank => Last(f[n]) = t[n]
                      /\ t[n] \in Blank /\ f[n] # << >> => Last(f[n]) = Space
           T == {n \in Nat : n \in 0..Len(t) => Tidy(f[n]) /\ Link(n)}
<1>3. 0 \in T
  <2>1. Len(<< >>) = 0
    BY EmptySeq
  <2> QED
    BY <1>1, <2>1 DEF Tidy, Apart
<1>4. ASSUME NEW n \in Nat, n \in T PROVE n + 1 \in T
  <2> SUFFICES ASSUME n + 1 \in 0..Len(t) PROVE Tidy(f[n + 1]) /\ Link(n + 1)
    OBVIOUS
  <2>1. n \in 0..Len(t) /\ n + 1 \in 1..Len(t) /\ (n + 1) - 1 = n
    BY <1>2
  <2>2. f[n] \in Seq(C) /\ t[n + 1] \in C /\ Tidy(f[n]) /\ Link(n)
    BY <1>1, <1>2, <1>4, <2>1
  <2>3. PICK s, c : s = f[n] /\ c = t[n + 1]
    OBVIOUS
  <2>4. f[n + 1] = TakeChar(s, c)
    BY <1>1, <2>1, <2>3
  <2>5. s # << >> => <<Last(s), c>> \notin DOMAIN Composed
    <3> SUFFICES ASSUME s # << >> PROVE <<Last(s), c>> \notin DOMAIN Composed
      OBVIOUS
    <3>1. n # 0
      BY <1>1, <2>3
    <3>2. CASE t[n] \notin Blank
      <4>1. n \in 1..(Len(t) - 1) /\ Last(s) = t[n]
        BY <1>2, <2>1, <2>2, <2>3, <3>1, <3>2
      <4> QED
        BY <2>3, <4>1 DEF Apart
    <3>3. CASE t[n] \in Blank
      <4>1. Last(s) = Space
        BY <2>2, <2>3, <3>1, <3>3
      <4> QED
        BY <4>1 DEF BlankStays
    <3> QED
      BY <3>2, <3>3
  <2>6. s \in Seq(C) /\ c \in C /\ Tidy(s)
    BY <2>2, <2>3
  <2>7. /\ Tidy(TakeChar(s, c))
        /\ c \notin Blank => Last(TakeChar(s, c)) = c
        /\ c \in Blank /\ TakeChar(s, c) # << >> => Last(TakeChar(s, c)) = Space
    BY <2>5, <2>6, TakeCharTidy
  <2> QED
    BY <2>3, <2>4, <2>7
<1>5. PICK u : u = f[Len(t)]
  OBVIOUS
<1>6. u \in Seq(C) /\ Tidy(u)
  <2> HIDE DEF T
  <2>1. Nat \subseteq T
    BY <1>3, <1>4, NatSetInduction
  <2>2. Len(t) \in T
    BY <1>2, <2>1
  <2> USE DEF T
  <2> QED
    BY <1>1, <1>2, <1>5, <2>2
<1>7. SingleBlanks(t) = NoLastBlank(u)
  BY <1>1, <1>5
<1>8. CASE u # << >> /\ Last(u) = Space
  <2>1. PICK v : v = Front(u)
    OBVIOUS
  <2>2. /\ Len(u) \in Nat \ {0} /\ Last(u) = u[Len(u)]
        /\ v \in Seq(C) /\ Len(v) = Len(u) - 1
        /\ \A j \in 1..(Len(u) - 1) : v[j] = u[j]
    BY <1>6, <1>8, <2>1, LastAndFront
  <2>3. Apart(v)
    <3>1. ASSUME NEW j \in 1..(Len(v) - 1) PROVE <<v[j], v[j + 1]>> \notin DOMAIN Composed
      <4>1. j \in 1..(Len(u) - 1) /\ j + 1 \in 1..(Len(u) - 1)
        BY <2>2
      <4> QED
        BY <1>6, <2>2, <4>1 DEF Tidy, Apart
    <3> QED
      BY <3>1 DEF Apart
  <2>4. ASSUME NEW j \in 1..Len(v), v[j] \in Blank
        PROVE  v[j] = Space /\ j # 1 /\ v[j - 1] \notin Blank
    <3>1. j \in 1..(Len(u) - 1) /\ j \in 1..Len(u)
      BY <2>2
    <3>2. u[j] = Space /\ j # 1 /\ u[j - 1] \notin Blank /\ v[j] = u[j]
      BY <1>6, <2>2, <2>4, <3>1 DEF Tidy
    <3>3. j - 1 \in 1..(Len(u) - 1)
      BY <2>2, <3>1, <3>2
    <3> QED
      BY <2>2, <3>2, <3>3
  <2>5. v # << >> => Last(v) # Space
    <3> SUFFICES ASSUME v # << >> PROVE Last(v) # Space
      OBVIOUS
    <3>1. Len(v) \in Nat \ {0}
      BY <2>2, EmptySeq
    <3>2. Len(v) \in 1..(Len(u) - 1) /\ Last(v) = u[Len(u) - 1] /\ Len(u) \in 1..Len(u)
      BY <2>2, <3>1 DEF Last
    <3>3. u[Len(u)] \in Blank
      BY <1>8, <2>2 DEF BlankStays
    <3>4. u[Len(u) - 1] \notin Blank
      BY <1>6, <3>2, <3>3 DEF Tidy
    <3> QED
      BY <3>2, <3>4 DEF BlankStays
  <2>6. SingleBlanks(t) = v
    BY <1>7, <1>8, <2>1 DEF NoLastBlank
  <2> QED
    BY <2>2, <2>3, <2>4, <2>5, <2>6 DEF Tidy
<1>9. CASE ~(u # << >> /\ Last(u) = Space)
  BY <1>6, <1>7, <1>9 DEF NoLastBlank
<1> QED
  BY <1>8, <1>9

\* A tidy text that does not end in a blank is left as it is.
LEMMA SingleBlanksFixed ==
    ASSUME BlankStays, NEW C, Space \in C, NEW t \in Seq(C), Tidy(t), t # << >> => Last(t) # Space
    PROVE  SingleBlanks(t) = t
<1>1. PICK f : /\ SingleBlanks(t) = NoLastBlank(f[Len(t)]) /\ f[0] = << >>
               /\ \A i \in 1..Len(t) : f[i] = TakeChar(f[i - 1], t[i])
               /\ \A i \in 0..Len(t) : f[i] \in Seq(C)
  BY BlanksLoop
<1>2. Len(t) \in Nat /\ Len(t) \in 0..Len(t)
  OBVIOUS
<1> DEFINE T == {n \in Nat : n \in 0..Len(t) => f[n] = SubSeq(t, 1, n)}
<1>3. 0 \in T
  BY <1>1, SubSeqEmpty
<1>4. ASSUME NEW n \in Nat, n \in T PROVE n + 1 \in T
  <2> SUFFICES ASSUME n + 1 \in 0..Len(t) PROVE f[n + 1] = SubSeq(t, 1, n + 1)
    OBVIOUS
  <2>1. n \in 0..Len(t) /\ n + 1 \in 1..Len(t) /\ (n + 1) - 1 = n /\ n + 1 <= Len(t)
    BY <1>2
  <2>2. PICK r : r = SubSeq(t, 1, n)
    OBVIOUS
  <2>3. f[n] = r /\ f[n + 1] = TakeChar(r, t[n + 1])
    BY <1>1, <1>4, <2>1, <2>2
  <2>4. /\ SubSeq(t, 1, n + 1) = Append(r, t[n + 1]) /\ r \in Seq(C) /\ Len(r) = n
        /\ n # 0 => r # << >> /\ Last(r) = t[n]
    BY <2>1, <2>2, PrefixStep
  <2>5. CASE t[n + 1] \notin Blank
    BY <2>3, <2>4, <2>5 DEF TakeChar
  <2>6. CASE t[n + 1] \in Blank
    <3>1. t[n + 1] = Space /\ n + 1 # 1 /\ t[n] \notin Blank
      <4>1. t[n + 1] = Space /\ n + 1 # 1 /\ t[(n + 1) - 1] \notin Blank
        BY <2>1, <2>6 DEF Tidy
      <4> QED
        BY <2>1, <4>1
    <3>2. r # << >> /\ Last(r) # Space
      BY <2>4, <3>1 DEF BlankStays
    <3> QED
      BY <2>3, <2>4, <2>6, <3>1, <3>2 DEF TakeChar
  <2> QED
    BY <2>5, <2>6
<1>5. Len(t) \in T
  <2> HIDE DEF T
  <2>1. Nat \subseteq T
    BY <1>3, <1>4, NatSetInduction
  <2> QED
    BY <1>2, <2>1
<1>6. f[Len(t)] = t
  BY <1>2, <1>5, SubSeqFull
<1> QED
  BY <1>1, <1>6 DEF NoLastBlank

\* The lower-case form of what does not join does not join either, and is in lower case.
LEMMA LowerCaseApart ==
    ASSUME LowerStays, LowerJoinsNone, BlankStays, NEW C, Alphabet(C), NEW t \in Seq(C), Apart(t),
           NEW L, L = {c \in C : LowerChar(c) = c}
    PROVE  LowerCase(t) \in Seq(L) /\ Apart(LowerCase(t))
<1>1. Len(t) \in Nat /\ DOMAIN t = 1..Len(t) /\ \A j \in 1..Len(t) : t[j] \in C
  OBVIOUS
<1>2. PICK l : l = LowerCase(t)
  OBVIOUS
<1>3. l = [j \in 1..Len(t) |-> LowerChar(t[j])]
  BY <1>1, <1>2 DEF LowerCase
<1>4. \A c \in C : LowerChar(c) \in L
  <2> TAKE c \in C
  <2>1. CASE c \in DOMAIN Lower
    <3>1. LowerChar(c) = Lower[c] /\ Lower[c] \in C /\ LowerChar(Lower[c]) = Lower[c]
      BY <2>1 DEF LowerChar, LowerStays, Alphabet
    <3> QED
      BY <3>1
  <2>2. CASE c \notin DOMAIN Lower
    <3>1. LowerChar(c) = c
      BY <2>2 DEF LowerChar
    <3> QED
      BY <3>1
  <2> QED
    BY <2>1, <2>2
<1>5. l \in [1..Len(t) -> L]
  BY <1>1, <1>3, <1>4
<1>6. l \in Seq(L) /\ Len(l) = Len(t)
  BY <1>1, <1>5
<1>7. ASSUME NEW j \in 1..(Len(t) - 1) PROVE <<l[j], l[j + 1]>> \notin DOMAIN Composed
  <2>1. j \in 1..Len(t) /\ j + 1 \in 1..Len(t)
    BY <1>1
  <2>2. PICK a, b : a = t[j] /\ b = t[j + 1]
    OBVIOUS
  <2>3. l[j] = LowerChar(a) /\ l[j + 1] = LowerChar(b)
    BY <1>3, <2>1, <2>2
  <2>4. <<a, b>> \notin DOMAIN Composed
    BY <2>2 DEF Apart
  <2>5. ASSUME <<LowerChar(a), LowerChar(b)>> \in DOMAIN Composed PROVE FALSE
    <3>1. PICK r : r = <<LowerChar(a), LowerChar(b)>>
      OBVIOUS
    <3>2. r \in DOMAIN Composed /\ r[1] = LowerChar(a) /\ r[2] = LowerChar(b)
      BY <2>5, <3>1
    <3>3. a \in DOMAIN Lower \cup {r[1]} /\ b \in DOMAIN Lower \cup {r[2]}
      BY <3>2 DEF LowerChar
    <3> QED
      BY <2>4, <3>2, <3>3 DEF LowerJoinsNone
  <2> QED
    BY <2>3, <2>5
<1>8. Apart(l)
  BY <1>6, <1>7 DEF Apart
<1> QED
  BY <1>2, <1>6, <1>8

\* A text in lower case stays as it is.
LEMMA LowerCaseFixed ==
    ASSUME NEW C, NEW t \in Seq({c \in C : LowerChar(c) = c})
    PROVE  LowerCase(t) = t
<1>1. t = [j \in 1..Len(t) |-> t[j]] /\ DOMAIN t = 1..Len(t)
  OBVIOUS
<1>2. \A j \in 1..Len(t) : LowerChar(t[j]) = t[j]
  OBVIOUS
<1> QED
  BY <1>1, <1>2 DEF LowerCase

\* Normalising twice is normalising once, for any text and any tables with the four properties:
\* what the handler of GET /suggest and the service do to a text is what POST /search does
\* (normalization.py:16-18).  Python's tables lack LowerJoinsNone.
THEOREM NormalizeIsStable ==
    ASSUME CompositesStay, LowerJoinsNone, LowerStays, BlankStays, NEW t, IsText(t)
    PROVE  normalize_text(normalize_text(t)) = normalize_text(t)
<1>1. PICK C : C = {t[i] : i \in 1..Len(t)} \cup {Composed[r] : r \in DOMAIN Composed}
                     \cup {Lower[c] : c \in DOMAIN Lower} \cup {Space}
  OBVIOUS
<1>2. Alphabet(C)
  BY <1>1 DEF Alphabet
<1>3. t \in Seq(C)
  <2>1. Len(t) \in Nat /\ t = [i \in 1..Len(t) |-> t[i]] /\ \A i \in 1..Len(t) : t[i] \in C
    BY <1>1 DEF IsText
  <2>2. t \in [1..Len(t) -> C]
    BY <2>1
  <2> QED
    BY <2>1, <2>2
<1>4. PICK L : L = {c \in C : LowerChar(c) = c}
  OBVIOUS
<1>5. Space \in L /\ L \subseteq C
  BY <1>2, <1>4 DEF Alphabet, BlankStays, LowerChar
<1>6. PICK n, l, w : n = Nfc(t) /\ l = LowerCase(n) /\ w = SingleBlanks(l)
  OBVIOUS
<1>7. normalize_text(t) = w
  BY <1>6 DEF normalize_text
<1>8. n \in Seq(C) /\ Apart(n)
  BY <1>2, <1>3, <1>6, NfcApart
<1>9. l \in Seq(L) /\ Apart(l)
  BY <1>2, <1>4, <1>6, <1>8, LowerCaseApart
<1>10. w \in Seq(L) /\ Tidy(w) /\ (w # << >> => Last(w) # Space)
  BY <1>5, <1>6, <1>9, SingleBlanksTidy
<1>11. Nfc(w) = w
  <2>1. w \in Seq(C) /\ Apart(w)
    BY <1>5, <1>10 DEF Tidy
  <2> QED
    BY <1>2, <2>1, NfcFixed
<1>12. LowerCase(w) = w
  BY <1>4, <1>10, LowerCaseFixed
<1>13. SingleBlanks(w) = w
  BY <1>5, <1>10, SingleBlanksFixed
<1> QED
  BY <1>7, <1>11, <1>12, <1>13 DEF normalize_text

=============================================================================
