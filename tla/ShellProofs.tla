---------------------------- MODULE ShellProofs ----------------------------
(***************************************************************************)
(* What the operators of Shell return, for all words: where normalize goes *)
(* on, that it always comes to an end, and what it makes of a command that *)
(* was put under the governor.                                             *)
(***************************************************************************)
EXTENDS Shell, SequenceTheorems, FiniteSetTheorems, TLAPS

---------------------------------------------------------------------------
(* Induction                                                               *)

\* A set of numbers has a least one: the initial segments below its members
\* are finite, and strict inclusion is well founded on finite sets.
LEMMA LeastNat ==
    ASSUME NEW T \in SUBSET Nat, T # {}
    PROVE  \E m \in T : \A k \in T : m <= k
<1> DEFINE Below(m) == 0 .. m - 1
           Belows == {Below(m) : m \in T}
<1>1. ASSUME NEW m \in T PROVE Below(m) \in FiniteSubsetsOf(Nat)
  <2>1. IsFiniteSet(Below(m))
    BY FS_Interval
  <2>2. Below(m) \subseteq Nat
    OBVIOUS
  <2>3. QED
    BY <2>1, <2>2 DEF FiniteSubsetsOf
<1>2. Belows \subseteq FiniteSubsetsOf(Nat) /\ Belows # {}
  BY <1>1
<1>3. \E x \in Belows : \A y \in Belows : ~(<<y, x>> \in StrictSubsetOrdering(Nat))
  <2>1. IsWellFoundedOn(StrictSubsetOrdering(Nat), FiniteSubsetsOf(Nat))
    BY FS_StrictSubsetOrderingWellFounded
  <2> HIDE DEF Belows
  <2>2. QED
    BY <1>2, <2>1, WFMin, Zenon
<1>4. PICK m \in T : \A k \in T : <<Below(k), Below(m)>> \notin StrictSubsetOrdering(Nat)
  BY <1>3
<1>5. ASSUME NEW k \in T, k < m PROVE FALSE
  <2>1. Below(k) \subseteq Below(m)
    BY <1>5
  <2>2. k \in Below(m) /\ k \notin Below(k)
    BY <1>5
  <2>3. Below(k) \in SUBSET Nat /\ Below(m) \in SUBSET Nat
    OBVIOUS
  <2> HIDE DEF Below
  <2>4. <<Below(k), Below(m)>> \in StrictSubsetOrdering(Nat)
    BY <2>1, <2>2, <2>3 DEF StrictSubsetOrdering
  <2>5. QED
    BY <1>4, <2>4
<1>6. QED
  BY <1>4, <1>5

---------------------------------------------------------------------------
(* The loops of normalize                                                  *)

\* A loop over words of a kind stops at the first one of another kind, at the
\* latest behind the last word.
LEMMA PastStops ==
    ASSUME NEW Word, NEW words \in Seq(Word), NEW S, NoWord \notin S,
           NEW i \in 1 .. Len(words) + 1
    PROVE  /\ Past(S, words, i) \in i .. Len(words) + 1
           /\ WordAt(words, Past(S, words, i)) \notin S
           /\ \A k \in i .. Past(S, words, i) - 1 : words[k] \in S
<1> DEFINE T == {j \in i .. Len(words) + 1 : WordAt(words, j) \notin S}
<1>1. Len(words) \in Nat /\ DOMAIN words = 1 .. Len(words)
  BY LenProperties
<1>2. Len(words) + 1 \in T
  BY <1>1 DEF WordAt
<1>3. PICK j \in T : \A k \in T : j <= k
  <2>1. T \in SUBSET Nat /\ T # {}
    BY <1>1, <1>2
  <2> HIDE DEF T
  <2>2. QED
    BY <2>1, LeastNat
<1>4. \A k \in i .. j - 1 : words[k] \in S
  <2>1. ASSUME NEW k \in i .. j - 1 PROVE words[k] \in S
    <3>1. k \notin T /\ k \in i .. Len(words) + 1
      BY <1>1, <1>3
    <3>2. k \in DOMAIN words
      BY <1>1, <1>3
    <3>3. QED
      BY <3>1, <3>2 DEF WordAt
  <2>2. QED
    BY <2>1
<1>5. \E l \in i .. Len(words) + 1 :
         /\ WordAt(words, l) \notin S
         /\ \A k \in i .. l - 1 : words[k] \in S
  BY <1>3, <1>4
<1>6. QED
  BY <1>5 DEF Past

\* And there is no other such place.
LEMMA PastIsUnique ==
    ASSUME NEW Word, NEW words \in Seq(Word), NEW S, NoWord \notin S,
           NEW i \in 1 .. Len(words) + 1,
           NEW j \in i .. Len(words) + 1,
           WordAt(words, j) \notin S,
           \A k \in i .. j - 1 : words[k] \in S
    PROVE  Past(S, words, i) = j
<1> DEFINE p == Past(S, words, i)
<1>1. /\ p \in i .. Len(words) + 1
      /\ WordAt(words, p) \notin S
      /\ \A k \in i .. p - 1 : words[k] \in S
  BY PastStops
<1> HIDE DEF p
<1>2. Len(words) \in Nat /\ DOMAIN words = 1 .. Len(words)
  BY LenProperties
<1>3. ASSUME p < j PROVE FALSE
  <2>1. p \in i .. j - 1 /\ p \in DOMAIN words
    BY <1>1, <1>2, <1>3
  <2>2. QED
    BY <1>1, <2>1 DEF WordAt
<1>4. ASSUME j < p PROVE FALSE
  <2>1. j \in i .. p - 1 /\ j \in DOMAIN words
    BY <1>1, <1>2, <1>4
  <2>2. QED
    BY <1>1, <2>1 DEF WordAt
<1>5. p = j
  BY <1>1, <1>2, <1>3, <1>4
<1>6. QED
  BY <1>5 DEF p

LEMMA ProgramPlace ==
    ASSUME NEW Word, NEW words \in Seq(Word)
    PROVE  /\ Program(words) \in 1 .. Len(words) + 1
           /\ WordAt(words, Program(words)) \notin Assignments
           /\ \A k \in 1 .. Program(words) - 1 : words[k] \in Assignments
<1>1. Len(words) \in Nat /\ 1 \in 1 .. Len(words) + 1
  OBVIOUS
<1>2. QED
  BY <1>1, PastStops, WordsAssumption DEF Program

\* A wrapper is left behind: the loop of normalize makes progress.
LEMMA SkipsAhead ==
    ASSUME NEW Word, NEW words \in Seq(Word), NEW i \in 1 .. Len(words),
           Basename(words[i]) \in Wrappers
    PROVE  SkipWrapper(words, i) \in i + 1 .. Len(words) + 3
<1>1. Len(words) \in Nat /\ i + 1 \in 1 .. Len(words) + 1
  OBVIOUS
<1>2. ASSUME NEW S, NoWord \notin S PROVE Past(S, words, i + 1) \in i + 1 .. Len(words) + 3
  <2>1. Past(S, words, i + 1) \in i + 1 .. Len(words) + 1
    BY <1>1, <1>2, PastStops
  <2>2. QED
    BY <1>1, <2>1
<1>3. CASE Basename(words[i]) \in {"rtk", "command"}
  <2>1. NoWord \notin {"--"}
    BY Zenon DEF NoWord
  <2>2. QED
    BY <1>2, <1>3, <2>1 DEF SkipWrapper
<1>4. CASE Basename(words[i]) = "time"
  BY <1>2, <1>4, WordsAssumption DEF SkipWrapper
<1>5. CASE Basename(words[i]) = "env"
  BY <1>2, <1>5, WordsAssumption DEF SkipWrapper
<1>6. CASE Basename(words[i]) = "nice"
  BY <1>1, <1>6 DEF SkipWrapper
<1>7. QED
  BY <1>3, <1>4, <1>5, <1>6 DEF Wrappers

\* What normalize returns at a place depends on the places ahead alone.
LEMMA AheadIsEnough ==
    ASSUME NEW Word, NEW words \in Seq(Word), NEW i \in 1 .. Len(words) + 3, NEW f, NEW g,
           \A j \in i + 1 .. Len(words) + 3 : f[j] = g[j]
    PROVE  NormalizeAt(words, i, f) = NormalizeAt(words, i, g)
<1>1. ASSUME i <= Len(words), Basename(WordAt(words, i)) \in Wrappers
      PROVE  f[SkipWrapper(words, i)] = g[SkipWrapper(words, i)]
  <2>1. i \in 1 .. Len(words) /\ WordAt(words, i) = words[i]
    BY <1>1, LenProperties DEF WordAt
  <2>2. QED
    BY <1>1, <2>1, SkipsAhead
<1>2. Len(words) \in Nat
  OBVIOUS
<1>3. CASE i > Len(words)
  BY <1>3 DEF NormalizeAt
<1>4. CASE i <= Len(words) /\ Basename(WordAt(words, i)) \in Wrappers
  BY <1>1, <1>4 DEF NormalizeAt
<1>5. CASE i <= Len(words) /\ Basename(WordAt(words, i)) \notin Wrappers
  BY <1>5 DEF NormalizeAt
<1>6. QED
  BY <1>2, <1>3, <1>4, <1>5

\* The recursion of normalize defines a function, by induction from the end.
LEMMA NormalizeEnds ==
    ASSUME NEW Word, NEW words \in Seq(Word)
    PROVE  \E from : from = [i \in 1 .. Len(words) + 3 |-> NormalizeAt(words, i, from)]
<1> DEFINE last == Len(words) + 3
           Good(f, n) == \A i \in 1 .. last : i > last - n => f[i] = NormalizeAt(words, i, f)
           Bad == {n \in 0 .. last : ~ \E f : DOMAIN f = 1 .. last
                        /\ f = [i \in 1 .. last |-> f[i]] /\ Good(f, n)}
<1>1. last \in Nat
  OBVIOUS
<1>2. Bad = {}
  <2>1. SUFFICES ASSUME Bad # {} PROVE FALSE
    OBVIOUS
  <2>2. PICK n \in Bad : \A m \in Bad : n <= m
    <3>1. Bad \in SUBSET Nat
      BY <1>1
    <3> HIDE DEF Bad
    <3>2. QED
      BY <2>1, <3>1, LeastNat
  <2>3. n # 0
    <3>1. Good([i \in 1 .. last |-> 0], 0)
      BY <1>1
    <3>2. QED
      BY <2>2, <3>1
  <2>4. n - 1 \in 0 .. last /\ n - 1 \notin Bad
    BY <1>1, <2>2, <2>3
  <2>5. PICK f : DOMAIN f = 1 .. last /\ f = [i \in 1 .. last |-> f[i]] /\ Good(f, n - 1)
    BY <2>4
  <2> DEFINE at == last - n + 1
             g == [f EXCEPT ![at] = NormalizeAt(words, at, f)]
  <2>6. at \in 1 .. last
    BY <1>1, <2>2, <2>3
  <2>7. \A i \in at + 1 .. last : g[i] = f[i]
    BY <1>1, <2>5, <2>6
  <2>8. g[at] = NormalizeAt(words, at, f)
    BY <2>5, <2>6
  <2> HIDE DEF g
  <2>9. \A i \in at .. last : NormalizeAt(words, i, g) = NormalizeAt(words, i, f)
    <3>1. ASSUME NEW i \in at .. last
          PROVE  NormalizeAt(words, i, g) = NormalizeAt(words, i, f)
      <4>1. i \in 1 .. Len(words) + 3
        BY <1>1, <2>6
      <4>2. \A j \in i + 1 .. Len(words) + 3 : g[j] = f[j]
        BY <1>1, <2>6, <2>7
      <4>3. QED
        BY <4>1, <4>2, AheadIsEnough
    <3>2. QED
      BY <3>1
  <2>10. Good(g, n)
    <3>1. ASSUME NEW i \in 1 .. last, i > last - n
          PROVE  g[i] = NormalizeAt(words, i, g)
      <4>1. i \in at .. last
        BY <1>1, <2>2, <2>6, <3>1
      <4>2. CASE i = at
        BY <2>8, <2>9, <4>1, <4>2
      <4>3. CASE i # at
        <5>1. i \in at + 1 .. last /\ i > last - (n - 1)
          BY <1>1, <2>2, <2>6, <4>1, <4>3
        <5>2. f[i] = NormalizeAt(words, i, f)
          BY <2>5, <5>1
        <5>3. QED
          BY <2>7, <2>9, <4>1, <5>1, <5>2
      <4>4. QED
        BY <4>2, <4>3
    <3>2. QED
      BY <3>1
  <2>11. DOMAIN g = 1 .. last /\ g = [i \in 1 .. last |-> g[i]]
    BY <2>5 DEF g
  <2>12. QED
    BY <2>2, <2>10, <2>11
<1>3. PICK f : DOMAIN f = 1 .. last /\ f = [i \in 1 .. last |-> f[i]] /\ Good(f, last)
  BY <1>1, <1>2
<1>4. \A i \in 1 .. last : f[i] = NormalizeAt(words, i, f)
  BY <1>1, <1>3
<1>5. f = [i \in 1 .. last |-> NormalizeAt(words, i, f)]
  BY <1>3, <1>4
<1>6. QED
  BY <1>5

\* Normalize by what its loop does at the program.
LEMMA NormalizeUnfolds ==
    ASSUME NEW Word, NEW words \in Seq(Word)
    PROVE  \E from : /\ \A i \in 1 .. Len(words) + 3 : from[i] = NormalizeAt(words, i, from)
                     /\ Normalize(words) = NormalizeAt(words, Program(words), from)
<1> DEFINE from == CHOOSE h : h = [i \in 1 .. Len(words) + 3 |-> NormalizeAt(words, i, h)]
<1>1. from = [i \in 1 .. Len(words) + 3 |-> NormalizeAt(words, i, from)]
  BY NormalizeEnds, Zenon
<1>2. Normalize(words) = from[Program(words)]
  BY Zenon DEF Normalize
<1> HIDE DEF from
<1>3. Program(words) \in 1 .. Len(words) + 3
  <2>1. Len(words) \in Nat
    OBVIOUS
  <2>2. QED
    BY <2>1, ProgramPlace
<1>4. \A i \in 1 .. Len(words) + 3 : from[i] = NormalizeAt(words, i, from)
  BY <1>1
<1>5. QED
  BY <1>2, <1>3, <1>4

---------------------------------------------------------------------------
(* Words behind other words                                                *)

LEMMA Behind ==
    ASSUME NEW Word, NEW prefix \in Seq(Word), NEW words \in Seq(Word)
    PROVE  /\ prefix \o words \in Seq(Word)
           /\ Len(prefix \o words) = Len(prefix) + Len(words)
           /\ \A i \in 1 .. Len(prefix) : (prefix \o words)[i] = prefix[i]
           /\ \A i \in Nat \ {0} :
                 WordAt(prefix \o words, Len(prefix) + i) = WordAt(words, i)
<1> DEFINE n == Len(prefix)
           all == prefix \o words
<1>1. n \in Nat /\ Len(words) \in Nat /\ DOMAIN words = 1 .. Len(words)
  BY LenProperties
<1>2. /\ all \in Seq(Word) /\ Len(all) = n + Len(words)
      /\ \A i \in 1 .. n + Len(words) :
            all[i] = IF i <= n THEN prefix[i] ELSE words[i - n]
  BY ConcatProperties
<1>3. DOMAIN all = 1 .. n + Len(words)
  BY <1>2, LenProperties
<1> HIDE DEF n, all
<1>4. ASSUME NEW i \in 1 .. n PROVE all[i] = prefix[i]
  BY <1>1, <1>2
<1>5. ASSUME NEW i \in Nat \ {0} PROVE WordAt(all, n + i) = WordAt(words, i)
  <2>1. PICK m \in Nat : m = n + i /\ ~(m <= n) /\ m - n = i
    BY <1>1
  <2>2. m \in DOMAIN all <=> i \in DOMAIN words
    BY <1>1, <1>3, <2>1
  <2>3. i \in DOMAIN words => all[m] = words[m - n]
    BY <1>1, <1>2, <1>3, <2>1, <2>2
  <2>4. QED
    BY <2>1, <2>2, <2>3 DEF WordAt
<1>6. QED
  BY <1>2, <1>4, <1>5 DEF n, all

LEMMA PastShifts ==
    ASSUME NEW Word, NEW prefix \in Seq(Word), NEW words \in Seq(Word),
           NEW S, NoWord \notin S, NEW i \in 1 .. Len(words) + 1
    PROVE  Past(S, prefix \o words, Len(prefix) + i) = Len(prefix) + Past(S, words, i)
<1> DEFINE n == Len(prefix)
           all == prefix \o words
           p == Past(S, words, i)
<1>1. n \in Nat /\ Len(words) \in Nat /\ DOMAIN words = 1 .. Len(words)
  BY LenProperties
<1>2. /\ p \in i .. Len(words) + 1 /\ WordAt(words, p) \notin S
      /\ \A k \in i .. p - 1 : words[k] \in S
  BY PastStops
<1>3. /\ all \in Seq(Word) /\ Len(all) = n + Len(words)
      /\ \A k \in Nat \ {0} : WordAt(all, n + k) = WordAt(words, k)
  BY Behind
<1>4. DOMAIN all = 1 .. n + Len(words)
  BY <1>3, LenProperties
<1> HIDE DEF n, all, p
<1>5. n + i \in 1 .. Len(all) + 1 /\ n + p \in n + i .. Len(all) + 1
  BY <1>1, <1>2, <1>3
<1>6. WordAt(all, n + p) \notin S
  BY <1>1, <1>2, <1>3
<1>7. ASSUME NEW m \in n + i .. n + p - 1 PROVE all[m] \in S
  <2>1. PICK k \in i .. p - 1 : m = n + k
    <3>1. m - n \in i .. p - 1 /\ m = n + (m - n)
      BY <1>1, <1>2
    <3>2. QED
      BY <3>1
  <2>2. k \in Nat \ {0} /\ k \in DOMAIN words /\ m \in DOMAIN all
    BY <1>1, <1>2, <1>4, <2>1
  <2>3. all[m] = words[k]
    BY <1>3, <2>1, <2>2 DEF WordAt
  <2>4. QED
    BY <1>2, <2>3
<1>8. Past(S, all, n + i) = n + p
  <2>1. PICK a \in 1 .. Len(all) + 1 : a = n + i
    BY <1>5
  <2>2. PICK b \in a .. Len(all) + 1 : b = n + p
    BY <1>5, <2>1
  <2>3. WordAt(all, b) \notin S /\ \A m \in a .. b - 1 : all[m] \in S
    <3>1. \A m \in n + i .. n + p - 1 : all[m] \in S
      BY <1>7
    <3>2. a .. b - 1 = n + i .. n + p - 1
      BY <1>1, <1>2, <2>1, <2>2
    <3>3. QED
      BY <1>6, <2>2, <3>1, <3>2
  <2>4. Past(S, all, a) = b
    BY <1>3, <2>3, PastIsUnique
  <2>5. QED
    BY <2>1, <2>2, <2>4
<1>9. QED
  BY <1>8 DEF n, all, p

LEMMA SkipShifts ==
    ASSUME NEW Word, NEW prefix \in Seq(Word), NEW words \in Seq(Word),
           NEW i \in 1 .. Len(words), Basename(words[i]) \in Wrappers
    PROVE  SkipWrapper(prefix \o words, Len(prefix) + i)
              = Len(prefix) + SkipWrapper(words, i)
<1> DEFINE n == Len(prefix)
           all == prefix \o words
<1>1. n \in Nat /\ Len(words) \in Nat /\ DOMAIN words = 1 .. Len(words)
  BY LenProperties
<1>2. /\ all \in Seq(Word) /\ Len(all) = n + Len(words)
      /\ \A k \in Nat \ {0} : WordAt(all, n + k) = WordAt(words, k)
  BY Behind
<1>3. DOMAIN all = 1 .. n + Len(words)
  BY <1>2, LenProperties
<1>4. ASSUME NEW S, NoWord \notin S
      PROVE  Past(S, all, n + (i + 1)) = n + Past(S, words, i + 1)
  <2>1. PICK k \in 1 .. Len(words) + 1 : k = i + 1
    BY <1>1
  <2>2. Past(S, all, n + k) = n + Past(S, words, k)
    BY <1>4, PastShifts
  <2>3. QED
    BY <2>1, <2>2
<1> HIDE DEF n, all
<1>5. all[n + i] = words[i]
  <2>1. n + i \in DOMAIN all /\ i \in DOMAIN words /\ i \in Nat \ {0}
    BY <1>1, <1>3
  <2>2. QED
    BY <1>2, <2>1 DEF WordAt
<1>6. WordAt(all, n + (i + 1)) = WordAt(words, i + 1)
  BY <1>1, <1>2
<1>7. n + (i + 1) = (n + i) + 1
  BY <1>1
<1>8. CASE Basename(words[i]) \in {"rtk", "command"}
  <2>1. NoWord \notin {"--"}
    BY Zenon DEF NoWord
  <2>2. Past({"--"}, all, (n + i) + 1) = n + Past({"--"}, words, i + 1)
    BY <1>4, <1>7, <2>1
  <2>3. SkipWrapper(all, n + i) = n + SkipWrapper(words, i)
    BY <1>5, <1>8, <2>2 DEF SkipWrapper
  <2>4. QED
    BY <2>3 DEF n, all
<1>9. CASE Basename(words[i]) \in {"time", "env"}
  <2>1. Past(Flags, all, (n + i) + 1) = n + Past(Flags, words, i + 1)
    BY <1>4, <1>7, WordsAssumption
  <2>2. Past(Flags \cup Assignments, all, (n + i) + 1)
           = n + Past(Flags \cup Assignments, words, i + 1)
    BY <1>4, <1>7, WordsAssumption
  <2>3. SkipWrapper(all, n + i) = n + SkipWrapper(words, i)
    BY <1>5, <1>9, <2>1, <2>2 DEF SkipWrapper
  <2>4. QED
    BY <2>3 DEF n, all
<1>10. CASE Basename(words[i]) = "nice"
  <2>1. WordAt(all, (n + i) + 1) = WordAt(words, i + 1)
    BY <1>6, <1>7
  <2>2. SkipWrapper(all, n + i) = n + SkipWrapper(words, i)
    BY <1>1, <1>5, <1>10, <2>1 DEF SkipWrapper
  <2>3. QED
    BY <2>2 DEF n, all
<1>11. QED
  BY <1>8, <1>9, <1>10 DEF Wrappers

\* What is left from a place on does not depend on what stands before.
LEMMA RestShifts ==
    ASSUME NEW Word, NEW prefix \in Seq(Word), NEW words \in Seq(Word),
           NEW i \in 1 .. Len(words)
    PROVE  SubSeq(prefix \o words, Len(prefix) + i, Len(prefix \o words))
              = SubSeq(words, i, Len(words))
<1> DEFINE n == Len(prefix)
           all == prefix \o words
           m == Len(words) - i + 1
           left == SubSeq(all, n + i, Len(all))
           right == SubSeq(words, i, Len(words))
<1>1. n \in Nat /\ Len(words) \in Nat /\ DOMAIN words = 1 .. Len(words)
  BY LenProperties
<1>2. /\ all \in Seq(Word) /\ Len(all) = n + Len(words)
      /\ \A k \in Nat \ {0} : WordAt(all, n + k) = WordAt(words, k)
  BY Behind
<1>3. DOMAIN all = 1 .. n + Len(words)
  BY <1>2, LenProperties
<1> HIDE DEF n, all
<1>4. m \in Nat
  BY <1>1
<1>5. /\ left \in Seq(Word) /\ Len(left) = m
      /\ \A j \in 1 .. m : left[j] = all[n + i + j - 1]
  <2>1. PICK a \in 1 .. Len(all) + 1 : a = n + i /\ Len(all) - a + 1 = m
    BY <1>1, <1>2
  <2>2. a \in Int /\ Len(all) \in Int /\ a <= Len(all)
    BY <1>1, <1>2, <2>1
  <2>3. \A l \in a .. Len(all) : all[l] \in Word
    BY <1>2, <1>3, <2>1, <2>2, ElementOfSeq
  <2> HIDE DEF m, left
  <2>4. /\ SubSeq(all, a, Len(all)) \in Seq(Word)
        /\ Len(SubSeq(all, a, Len(all))) = m
        /\ \A j \in 1 .. m : SubSeq(all, a, Len(all))[j] = all[a + j - 1]
    BY <2>1, <2>2, <2>3, SubSeqProperties
  <2>5. left = SubSeq(all, a, Len(all))
    BY <2>1 DEF left
  <2>6. QED
    BY <2>1, <2>4, <2>5
<1>6. /\ right \in Seq(Word) /\ Len(right) = m
      /\ \A j \in 1 .. m : right[j] = words[i + j - 1]
  BY <1>1
<1>7. ASSUME NEW j \in 1 .. m PROVE all[n + i + j - 1] = words[i + j - 1]
  <2>1. PICK k \in 1 .. Len(words) : k = i + j - 1 /\ n + k = n + i + j - 1
    BY <1>1
  <2>2. n + k \in DOMAIN all /\ k \in DOMAIN words /\ k \in Nat \ {0}
    BY <1>1, <1>3
  <2>3. all[n + k] = words[k]
    BY <1>2, <2>2 DEF WordAt
  <2>4. QED
    BY <2>1, <2>3
<1> HIDE DEF m, left, right
<1>8. left = right
  BY <1>4, <1>5, <1>6, <1>7, SeqEqual
<1>9. QED
  BY <1>8 DEF n, all, left, right

\* The loop of normalize does the same behind a prefix.
LEMMA NormalizeShifts ==
    ASSUME NEW Word, NEW prefix \in Seq(Word), NEW words \in Seq(Word), NEW from, NEW full,
           \A i \in 1 .. Len(words) + 3 : from[i] = NormalizeAt(words, i, from),
           \A i \in 1 .. Len(prefix \o words) + 3 :
               full[i] = NormalizeAt(prefix \o words, i, full)
    PROVE  \A i \in 1 .. Len(words) + 3 : full[Len(prefix) + i] = from[i]
<1> DEFINE n == Len(prefix)
           all == prefix \o words
           last == Len(words) + 3
           Late == {d \in 0 .. last - 1 : full[n + (last - d)] # from[last - d]}
<1>1. n \in Nat /\ Len(words) \in Nat /\ DOMAIN words = 1 .. Len(words) /\ last \in Nat
  BY LenProperties
<1>2. /\ all \in Seq(Word) /\ Len(all) = n + Len(words)
      /\ \A k \in Nat \ {0} : WordAt(all, n + k) = WordAt(words, k)
  BY Behind
<1>3. /\ \A i \in 1 .. last : from[i] = NormalizeAt(words, i, from)
      /\ \A i \in 1 .. Len(all) + 3 : full[i] = NormalizeAt(all, i, full)
  OBVIOUS
<1>4. ASSUME NEW i \in 1 .. last, \A j \in i + 1 .. last : full[n + j] = from[j]
      PROVE  full[n + i] = from[i]
  <2>1. /\ full[n + i] = NormalizeAt(all, n + i, full)
        /\ from[i] = NormalizeAt(words, i, from)
    <3>1. n + i \in 1 .. Len(all) + 3
      BY <1>1, <1>2
    <3>2. QED
      BY <1>3, <3>1
  <2>2. WordAt(all, n + i) = WordAt(words, i)
    BY <1>1, <1>2
  <2>3. WordAt(all, (n + i) + 1) = WordAt(words, i + 1)
    <3>1. (n + i) + 1 = n + (i + 1) /\ i + 1 \in Nat \ {0}
      BY <1>1
    <3>2. QED
      BY <1>2, <3>1
  <2>4. n + i > Len(all) <=> i > Len(words)
    BY <1>1, <1>2
  <2>5. CASE i > Len(words)
    BY <2>1, <2>4, <2>5 DEF NormalizeAt
  <2>6. CASE i <= Len(words)
    <3>1. i \in 1 .. Len(words) /\ WordAt(words, i) = words[i]
      BY <1>1, <2>6 DEF WordAt
    <3>2. SubSeq(all, n + i, Len(all)) = SubSeq(words, i, Len(words))
      BY <3>1, RestShifts
    <3>3. ASSUME Basename(WordAt(words, i)) \in Wrappers
          PROVE  full[SkipWrapper(all, n + i)] = from[SkipWrapper(words, i)]
      <4>1. SkipWrapper(words, i) \in i + 1 .. last
        BY <3>1, <3>3, SkipsAhead
      <4>2. SkipWrapper(all, n + i) = n + SkipWrapper(words, i)
        BY <3>1, <3>3, SkipShifts
      <4>3. QED
        BY <1>4, <4>1, <4>2
    <3> HIDE DEF n, all
    <3>4. ~(n + i > Len(all)) /\ ~(i > Len(words))
      BY <1>1, <2>4, <2>6
    <3>5. NormalizeAt(all, n + i, full) = NormalizeAt(words, i, from)
      BY <2>2, <2>3, <3>2, <3>3, <3>4 DEF NormalizeAt
    <3>6. QED
      BY <2>1, <3>5
  <2>7. QED
    BY <1>1, <2>5, <2>6
<1> HIDE DEF n
<1>5. Late = {}
  <2>1. SUFFICES ASSUME Late # {} PROVE FALSE
    OBVIOUS
  <2>2. PICK d \in Late : \A e \in Late : d <= e
    <3>1. Late \in SUBSET Nat
      OBVIOUS
    <3> HIDE DEF Late
    <3>2. QED
      BY <2>1, <3>1, LeastNat
  <2>3. PICK i \in 1 .. last : i = last - d
    BY <1>1, <2>2
  <2>4. ASSUME NEW j \in i + 1 .. last PROVE full[n + j] = from[j]
    <3>1. last - j \in 0 .. last - 1 /\ last - (last - j) = j /\ ~(d <= last - j)
      BY <1>1, <2>2, <2>3
    <3>2. last - j \notin Late
      BY <2>2, <3>1
    <3>3. QED
      BY <3>1, <3>2
  <2>5. full[n + i] = from[i]
    BY <1>4, <2>4
  <2>6. QED
    BY <2>2, <2>3, <2>5
<1>6. ASSUME NEW i \in 1 .. last PROVE full[n + i] = from[i]
  <2>1. last - i \in 0 .. last - 1 /\ last - (last - i) = i
    BY <1>1
  <2>2. QED
    BY <1>5, <2>1
<1>7. QED
  BY <1>6 DEF n

---------------------------------------------------------------------------
(* Words under the governor                                                *)

LEMMA GovernedWords ==
    ASSUME NEW Word, NEW words \in Seq(Word)
    PROVE  LET k == Program(words) g == Govern(words) IN
           /\ g \in Seq(Word \cup {Governor, "run", "--"})
           /\ Len(g) = Len(words) + 3
           /\ \A i \in 1 .. k - 1 : g[i] = words[i]
           /\ g[k] = Governor /\ g[k + 1] = "run" /\ g[k + 2] = "--"
           /\ \A i \in k .. Len(words) : g[i + 3] = words[i]
<1> DEFINE Longer == Word \cup {Governor, "run", "--"}
           k == Program(words)
           head == SubSeq(words, 1, k - 1)
           prefix == <<Governor, "run", "--">>
           rest == SubSeq(words, k, Len(words))
<1>1. k \in 1 .. Len(words) + 1 /\ Len(words) \in Nat
  BY ProgramPlace
<1> HIDE DEF k
<1>2. words \in Seq(Longer)
  BY SeqMonotonic
<1>3. head \in Seq(Longer) /\ Len(head) = k - 1 /\ \A i \in 1 .. k - 1 : head[i] = words[i]
  BY <1>1, <1>2
<1>4. rest \in Seq(Longer) /\ Len(rest) = Len(words) - k + 1
      /\ \A i \in 1 .. Len(words) - k + 1 : rest[i] = words[k + i - 1]
  BY <1>1, <1>2
<1>5. prefix \in Seq(Longer) /\ Len(prefix) = 3 /\ prefix[1] = Governor
      /\ prefix[2] = "run" /\ prefix[3] = "--"
  OBVIOUS
<1>6. Govern(words) = head \o prefix \o rest
  BY DEF Govern, k
<1> DEFINE start == head \o prefix
<1> HIDE DEF head, prefix, rest
<1>7. /\ head \o prefix \in Seq(Longer)
      /\ Len(head \o prefix) = Len(head) + Len(prefix)
      /\ \A i \in 1 .. Len(head) + Len(prefix) : (head \o prefix)[i] =
            IF i <= Len(head) THEN head[i] ELSE prefix[i - Len(head)]
  <2>1. head \in Seq(Longer) /\ prefix \in Seq(Longer)
    BY <1>3, <1>5
  <2>2. QED
    BY <2>1, ConcatProperties, Zenon
<1>8. start \in Seq(Longer) /\ Len(start) = k + 2
  BY <1>1, <1>3, <1>5, <1>7
<1>9. \A i \in 1 .. k + 2 : start[i] = IF i <= k - 1 THEN head[i] ELSE prefix[i - (k - 1)]
  <2>1. Len(head) = k - 1 /\ Len(head) + Len(prefix) = k + 2
    BY <1>1, <1>3, <1>5
  <2>2. QED
    BY <1>7, <2>1
<1>10. \A i \in 1 .. k - 1 : start[i] = words[i]
  <2>1. ASSUME NEW i \in 1 .. k - 1 PROVE start[i] = words[i]
    <3>1. i \in 1 .. k + 2 /\ i <= k - 1
      BY <1>1
    <3>2. start[i] = head[i]
      BY <1>9, <3>1
    <3>3. QED
      BY <1>3, <3>2
  <2>2. QED
    BY <2>1
<1>11. start[k] = Governor /\ start[k + 1] = "run" /\ start[k + 2] = "--"
  <2>1. ASSUME NEW m \in 1 .. k + 2, ~(m <= k - 1)
        PROVE  start[m] = prefix[m - (k - 1)]
    BY <1>9, <2>1
  <2>2. start[k] = Governor
    <3>1. PICK m \in 1 .. k + 2 : m = k /\ ~(m <= k - 1)
      BY <1>1
    <3>2. start[m] = prefix[m - (k - 1)]
      BY <2>1, <3>1
    <3>3. m - (k - 1) = 1
      BY <1>1, <3>1
    <3>4. QED
      BY <1>5, <3>1, <3>2, <3>3
  <2>3. start[k + 1] = "run"
    <3>1. PICK m \in 1 .. k + 2 : m = k + 1 /\ ~(m <= k - 1)
      BY <1>1
    <3>2. start[m] = prefix[m - (k - 1)]
      BY <2>1, <3>1
    <3>3. m - (k - 1) = 2
      BY <1>1, <3>1
    <3>4. QED
      BY <1>5, <3>1, <3>2, <3>3
  <2>4. start[k + 2] = "--"
    <3>1. PICK m \in 1 .. k + 2 : m = k + 2 /\ ~(m <= k - 1)
      BY <1>1
    <3>2. start[m] = prefix[m - (k - 1)]
      BY <2>1, <3>1
    <3>3. m - (k - 1) = 3
      BY <1>1, <3>1
    <3>4. QED
      BY <1>5, <3>1, <3>2, <3>3
  <2>5. QED
    BY <2>2, <2>3, <2>4
<1> HIDE DEF start
<1>12. Govern(words) = start \o rest
  BY <1>6 DEF start
<1>13. /\ start \o rest \in Seq(Longer) /\ Len(start \o rest) = Len(words) + 3
       /\ \A i \in 1 .. Len(words) + 3 :
             (start \o rest)[i] = IF i <= k + 2 THEN start[i] ELSE rest[i - (k + 2)]
  <2>1. Len(start) + Len(rest) = Len(words) + 3
    BY <1>1, <1>4, <1>8
  <2>2. QED
    BY <1>4, <1>8, <2>1, ConcatProperties
<1>14. \A i \in 1 .. k + 2 : (start \o rest)[i] = start[i]
  BY <1>1, <1>13
<1>15. \A i \in k .. Len(words) : (start \o rest)[i + 3] = words[i]
  <2>1. ASSUME NEW i \in k .. Len(words) PROVE (start \o rest)[i + 3] = words[i]
    <3>1. i + 3 \in 1 .. Len(words) + 3 /\ ~(i + 3 <= k + 2)
      BY <1>1
    <3>2. i - k + 1 \in 1 .. Len(words) - k + 1 /\ i + 3 - (k + 2) = i - k + 1
          /\ k + (i - k + 1) - 1 = i
      BY <1>1
    <3>3. (start \o rest)[i + 3] = rest[i + 3 - (k + 2)]
      BY <1>1, <1>13, <3>1
    <3>4. rest[i - k + 1] = words[k + (i - k + 1) - 1]
      BY <1>4, <3>2
    <3>5. QED
      BY <3>2, <3>3, <3>4
  <2>2. QED
    BY <2>1
<1>16. \A i \in 1 .. k - 1 : i \in 1 .. k + 2
  BY <1>1
<1>17. k \in 1 .. k + 2 /\ k + 1 \in 1 .. k + 2 /\ k + 2 \in 1 .. k + 2
  BY <1>1
<1>18. QED
  BY <1>10, <1>11, <1>12, <1>13, <1>14, <1>15, <1>16, <1>17 DEF k

\* The governor's prefix is where the program was.
LEMMA GovernKeepsProgram ==
    ASSUME NEW Word, NEW words \in Seq(Word)
    PROVE  Program(Govern(words)) = Program(words)
<1> DEFINE k == Program(words)
           g == Govern(words)
<1>1. k \in 1 .. Len(words) + 1 /\ Len(words) \in Nat
      /\ \A i \in 1 .. k - 1 : words[i] \in Assignments
  BY ProgramPlace
<1>2. g \in Seq(Word \cup {Governor, "run", "--"}) /\ Len(g) = Len(words) + 3
      /\ (\A i \in 1 .. k - 1 : g[i] = words[i]) /\ g[k] = Governor
  BY GovernedWords
<1> HIDE DEF k, g
<1>3. WordAt(g, k) \notin Assignments
  BY <1>1, <1>2, GovernorAssumption DEF WordAt
<1>4. \A i \in 1 .. k - 1 : g[i] \in Assignments
  BY <1>1, <1>2
<1>5. k \in 1 .. Len(g) + 1 /\ 1 \in 1 .. Len(g) + 1
  BY <1>1, <1>2
<1>6. Program(g) = k
  BY <1>2, <1>3, <1>4, <1>5, PastIsUnique, WordsAssumption DEF Program
<1>7. QED
  BY <1>6 DEF k, g

(***************************************************************************)
(* Whatever command is put under the governor, normalize finds it there:   *)
(* another hook, or another pass of this one, leaves it alone.             *)
(***************************************************************************)
THEOREM GovernIsRecognised ==
    ASSUME NEW Word, NEW words \in Seq(Word), NEW rules
    PROVE  AlreadyWrapped(Govern(words)) /\ Class(Govern(words), rules) = "light"
<1> DEFINE k == Program(words)
           g == Govern(words)
<1>1. k \in 1 .. Len(words) + 1 /\ Len(words) \in Nat
  BY ProgramPlace
<1>2. g \in Seq(Word \cup {Governor, "run", "--"}) /\ Len(g) = Len(words) + 3 /\ g[k] = Governor /\ g[k + 1] = "run"
  BY GovernedWords
<1>3. Program(g) = k
  BY GovernKeepsProgram
<1> HIDE DEF k, g
<1>4. PICK from : Normalize(g) = NormalizeAt(g, k, from)
  BY <1>2, <1>3, NormalizeUnfolds
<1>5. ~(k > Len(g)) /\ WordAt(g, k) = Governor /\ WordAt(g, k + 1) = "run"
  BY <1>1, <1>2 DEF WordAt
<1>6. Basename(WordAt(g, k)) = "agent-gov"
  BY <1>5, GovernorAssumption DEF Basename
<1>7. NormalizeAt(g, k, from) = [kind |-> "wrapped", argv |-> << >>]
  BY <1>5, <1>6 DEF NormalizeAt
<1>8. AlreadyWrapped(g)
  BY <1>4, <1>7 DEF AlreadyWrapped
<1>9. Class(g, rules) = "light"
  BY <1>8 DEF Class, ClassOf, AlreadyWrapped
<1>10. QED
  BY <1>8, <1>9 DEF g

\* A command that is under the governor is not heavy.
LEMMA WrappedIsLight ==
    ASSUME NEW words, NEW rules, AlreadyWrapped(words)
    PROVE  Class(words, rules) = "light"
BY DEF Class, ClassOf, AlreadyWrapped

---------------------------------------------------------------------------
(* Lines                                                                   *)

LEMMA LineFields ==
    ASSUME NEW Word, NEW line \in LinesOf(Word)
    PROVE  /\ line.syntax \in {"plain", "odd", "deep"}
           /\ line.segs \in Seq([words : Seq(Word), sep : Word, hidden : BOOLEAN])
           /\ Len(line.segs) \in Nat /\ DOMAIN line.segs = 1 .. Len(line.segs)
           /\ \A i \in DOMAIN line.segs :
                 line.segs[i] \in [words : Seq(Word), sep : Word, hidden : BOOLEAN]
<1>1. line.segs \in Seq([words : Seq(Word), sep : Word, hidden : BOOLEAN])
      /\ line.syntax \in {"plain", "odd", "deep"}
  BY DEF LinesOf
<1>2. Len(line.segs) \in Nat /\ DOMAIN line.segs = 1 .. Len(line.segs)
  BY <1>1, LenProperties
<1>3. QED
  BY <1>1, <1>2, ElementOfSeq

LEMMA MoreWords ==
    ASSUME NEW Word, NEW More, Word \subseteq More
    PROVE  LinesOf(Word) \subseteq LinesOf(More)
<1> DEFINE Segs(S) == [words : Seq(S), sep : S, hidden : BOOLEAN]
<1>1. Seq(Word) \subseteq Seq(More)
  BY SeqMonotonic
<1>2. Segs(Word) \subseteq Segs(More)
  BY <1>1
<1> HIDE DEF Segs
<1>3. Seq(Segs(Word)) \subseteq Seq(Segs(More))
  BY <1>2, SeqMonotonic
<1>4. QED
  BY <1>3 DEF LinesOf, Segs

\* What the check of RTK's answer leaves of the freedom to answer.
LEMMA CheckedLine ==
    ASSUME NEW Word, NEW original \in LinesOf(Word),
           NEW More, NEW candidate \in LinesOf(More), NEW rules,
           RewritePreservesStructure(original, candidate, rules),
           original # candidate
    PROVE  /\ candidate.syntax = original.syntax
           /\ Len(candidate.segs) = Len(original.segs)
           /\ \A i \in DOMAIN original.segs :
                 LET before == original.segs[i]
                     after  == candidate.segs[i]
                 IN  /\ after.sep = before.sep /\ after.hidden = before.hidden
                     /\ before.hidden => after.words = before.words
                     /\ ~before.hidden =>
                           /\ SegmentClass(before, rules) = SegmentClass(after, rules)
                           /\ AddsOnlyRtkPrefix(before.words, after.words)
<1>1. /\ Supported(original) /\ Supported(candidate)
      /\ ShellFrame(original) = ShellFrame(candidate)
      /\ \A i \in Visible(original) :
            /\ SegmentClass(original.segs[i], rules) = SegmentClass(candidate.segs[i], rules)
            /\ AddsOnlyRtkPrefix(original.segs[i].words, candidate.segs[i].words)
  BY DEF RewritePreservesStructure
<1>2. candidate.syntax = original.syntax
  BY <1>1 DEF Supported
<1>3. DOMAIN candidate.segs = DOMAIN original.segs
  BY <1>1 DEF ShellFrame
<1>4. Len(candidate.segs) = Len(original.segs)
  BY <1>3, LineFields
<1>5. ASSUME NEW i \in DOMAIN original.segs
      PROVE  LET before == original.segs[i]
                 after  == candidate.segs[i]
             IN  /\ after.sep = before.sep /\ after.hidden = before.hidden
                 /\ before.hidden => after.words = before.words
                 /\ ~before.hidden =>
                       /\ SegmentClass(before, rules) = SegmentClass(after, rules)
                       /\ AddsOnlyRtkPrefix(before.words, after.words)
  <2> DEFINE before == original.segs[i]
             after  == candidate.segs[i]
             Frame(seg) == IF seg.hidden THEN seg ELSE [seg EXCEPT !.words = << >>]
  <2>1. /\ before \in [words : Seq(Word), sep : Word, hidden : BOOLEAN]
        /\ after \in [words : Seq(More), sep : More, hidden : BOOLEAN]
    BY <1>3, LineFields
  <2>2. ShellFrame(original)[i] = Frame(before) /\ ShellFrame(candidate)[i] = Frame(after)
    BY <1>3 DEF ShellFrame
  <2>3. Frame(before) = Frame(after)
    BY <1>1, <2>2
  <2>4. ~before.hidden => i \in Visible(original)
    BY DEF Visible
  <2> HIDE DEF before, after
  <2>5. /\ Frame(before).sep = before.sep /\ Frame(before).hidden = before.hidden
        /\ Frame(after).sep = after.sep /\ Frame(after).hidden = after.hidden
    BY <2>1
  <2>6. after.sep = before.sep /\ after.hidden = before.hidden
    BY <2>3, <2>5
  <2>7. before.hidden => after.words = before.words
    BY <2>3, <2>6
  <2>8. QED
    BY <1>1, <2>4, <2>6, <2>7 DEF before, after
<1>6. QED
  BY <1>2, <1>4, <1>5
=============================================================================
