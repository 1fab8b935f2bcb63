---------------------------- MODULE LexerProofs ------------------------------
(****************************************************************************)
(* Theorems about Lexer, for any alphabet, input and size of the buffer: the *)
(* buffer is never written behind its end, and the tokens are the reference.  *)
(****************************************************************************)
EXTENDS Lexer, SequenceTheorems, FiniteSetTheorems, WellFoundedInduction, TLAPS

Kinds == {Plain[c] : c \in DOMAIN Plain} \cup {"T_GT", "T_GTGT", "T_WORD", "T_EOF", "T_ERROR"}

(* A text that was in the buffer, as a word or as the word of a token. *)
Fits(text, S) == text \in Seq(S) /\ Len(text) <= MaxWord
Returned == {t \in [kind : Kinds, text : Seq(Alphabet \cup {Nul})] : Len(t.text) <= MaxWord}

(* store_char() writes to *np only while there is room for it. *)
LEMMA StoreCharFits ==
    ASSUME NEW S, NEW w, Fits(w, S), NEW c \in S
    PROVE  Fits(StoreChar(w, c), S)
<1>1. w \in Seq(S) /\ Len(w) <= MaxWord /\ Len(w) \in Nat /\ MaxWord \in Nat
  BY LenProperties, MaxWordAssumption DEF Fits
<1>2. Append(w, c) \in Seq(S) /\ Len(Append(w, c)) = Len(w) + 1
  BY <1>1, AppendProperties
<1>. QED  BY <1>1, <1>2 DEF StoreChar, Fits

(* The NUL, when there is room for it, too. *)
LEMMA WordReturned ==
    ASSUME NEW w, Fits(w, Alphabet)
    PROVE  Token("T_WORD", StoreChar(w, Nul)) \in Returned
<1>1. Fits(w, Alphabet \cup {Nul})
  BY SeqMonotonic DEF Fits
<1>2. Fits(StoreChar(w, Nul), Alphabet \cup {Nul})
  BY <1>1, StoreCharFits
<1>. QED  BY <1>2 DEF Fits, Token, Returned, Kinds

LEMMA EmptyFits == Fits(<<>>, Alphabet)
BY EmptySeq, MaxWordAssumption DEF Fits

(* A token without a text. *)
LEMMA PlainReturned == \A kind \in Kinds : Token(kind, <<>>) \in Returned
<1>1. <<>> \in Seq(Alphabet \cup {Nul}) /\ Len(<<>>) <= MaxWord
  BY EmptySeq, MaxWordAssumption
<1>. QED  BY <1>1 DEF Token, Returned

-----------------------------------------------------------------------------
(* The inductive invariant *)

Reading == input \in Seq(Alphabet) /\ at \in 1 .. Len(input) + 1
States  == {"NEUTRAL", "GTGT", "INQUOTE", "INWORD", "ended"}

LexInv == Reading /\ state \in States /\ Fits(word, Alphabet) /\ tokens \in Seq(Returned)

LEMMA LexInit == Init => LexInv
<1>. SUFFICES ASSUME Init PROVE LexInv
  OBVIOUS
<1>1. PICK n \in 0 .. MaxInput : input \in [1 .. n -> Alphabet]
  BY DEF Init
<1>2. n \in Nat
  BY MaxInputAssumption
<1>3. input \in Seq(Alphabet)
  BY <1>1, <1>2
<1>4. Len(input) \in Nat
  BY <1>3, LenProperties
<1>5. tokens \in Seq(Returned)
  BY EmptySeq DEF Init
<1>. QED  BY <1>3, <1>4, <1>5, EmptyFits DEF Init, LexInv, Reading, States

(* A token is returned, or another character is in the buffer.               *)
LEMMA Typed ==
    ASSUME LexInv, UNCHANGED input, at' \in 1 .. Len(input) + 1, state' \in States,
           Fits(word', Alphabet),
           tokens' = tokens \/ \E t \in Returned : tokens' = Append(tokens, t)
    PROVE  LexInv'
<1>1. tokens' \in Seq(Returned)
  BY AppendProperties DEF LexInv
<1>. QED  BY <1>1 DEF LexInv, Reading, Fits

LEMMA LexNext == LexInv /\ [Next]_vars => LexInv'
<1>. SUFFICES ASSUME LexInv, [Next]_vars PROVE LexInv'
  OBVIOUS
<1>1. /\ input \in Seq(Alphabet) /\ at \in 1 .. Len(input) + 1 /\ Len(input) \in Nat
      /\ Fits(word, Alphabet)
  BY LenProperties DEF LexInv, Reading
<1>2. ASSUME More PROVE /\ at + 1 \in 1 .. Len(input) + 1 /\ Char \in Alphabet
  BY <1>1, <1>2, ElementOfSeq DEF More, Char
<1>3. CASE Neutral
  <2>1. More /\ at' = at + 1 /\ UNCHANGED input
    BY <1>3 DEF Neutral
  <2>2. state' \in States
    BY <1>3 DEF Neutral, Return, States, LexInv
  <2>3. Fits(word', Alphabet)
    BY <1>1, <1>2, <1>3, <2>1, EmptyFits, StoreCharFits DEF Neutral, Return
  <2>4. tokens' = tokens \/ \E t \in Returned : tokens' = Append(tokens, t)
    BY <1>3, PlainReturned DEF Neutral, Return, Kinds
  <2>. QED  BY <1>2, <2>1, <2>2, <2>3, <2>4, Typed
<1>4. CASE GtGt
  <2>1. More /\ at' \in {at, at + 1} /\ UNCHANGED input
    BY <1>4 DEF GtGt
  <2>2. /\ \E kind \in Kinds : Return(Token(kind, <<>>))
        /\ state' = "NEUTRAL" /\ word' = <<>>
    BY <1>4 DEF GtGt, Return, Kinds
  <2>3. \E t \in Returned : tokens' = Append(tokens, t)
    BY <2>2, PlainReturned DEF Return
  <2>. QED  BY <1>1, <1>2, <2>1, <2>2, <2>3, EmptyFits, Typed DEF States
<1>5. CASE InQuote
  <2>1. More /\ UNCHANGED input
    BY <1>5 DEF InQuote
  <2>2. at' \in 1 .. Len(input) + 1
    BY <1>1, <1>2, <1>5, <2>1 DEF InQuote, Return
  <2>3. state' \in States
    BY <1>5 DEF InQuote, Return, States, LexInv
  <2>4. Fits(word', Alphabet)
    <3>1. Char = "backslash" =>
            (IF at = Len(input) THEN "backslash" ELSE input[at + 1]) \in Alphabet
      <4>1. at # Len(input) => at + 1 \in 1 .. Len(input)
        BY <1>1, <2>1 DEF More
      <4>. QED  BY <1>1, <1>2, <2>1, <4>1, ElementOfSeq
    <3>. QED  BY <1>1, <1>2, <1>5, <2>1, <3>1, EmptyFits, StoreCharFits DEF InQuote, Return
  <2>5. tokens' = tokens \/ \E t \in Returned : tokens' = Append(tokens, t)
    BY <1>1, <1>5, WordReturned DEF InQuote, Return
  <2>. QED  BY <2>1, <2>2, <2>3, <2>4, <2>5, Typed
<1>6. CASE InWord
  <2>1. More /\ at' \in {at, at + 1} /\ UNCHANGED input
    BY <1>6 DEF InWord
  <2>2. state' \in States
    BY <1>6 DEF InWord, Return, States, LexInv
  <2>3. Fits(word', Alphabet)
    BY <1>1, <1>2, <1>6, <2>1, EmptyFits, StoreCharFits DEF InWord, Return
  <2>4. tokens' = tokens \/ \E t \in Returned : tokens' = Append(tokens, t)
    BY <1>1, <1>6, WordReturned DEF InWord, Return
  <2>. QED  BY <1>1, <1>2, <2>1, <2>2, <2>3, <2>4, Typed
<1>7. CASE End
  <2>1. UNCHANGED <<input, at>> /\ state' = "ended" /\ word' = <<>>
    BY <1>7 DEF End
  <2>2. \E t \in Returned : tokens' = Append(tokens, t)
    BY <1>7, PlainReturned DEF End, Kinds
  <2>. QED  BY <1>1, <2>1, <2>2, EmptyFits, Typed DEF States
<1>8. CASE UNCHANGED vars
  BY <1>8 DEF vars, LexInv, Reading, Fits
<1>. QED  BY <1>3, <1>4, <1>5, <1>6, <1>7, <1>8 DEF Next

-----------------------------------------------------------------------------
(* No input makes gettoken() write behind the end of the buffer it is given, *)
(* and what it returns was in that buffer; it reads no character behind the  *)
(* end of the input.                                                         *)
THEOREM TypeCorrect == Spec => []TypeOK
<1>1. LexInv => TypeOK
  <2>. SUFFICES ASSUME LexInv PROVE TypeOK
    OBVIOUS
  <2>1. \A n \in 1 .. Len(tokens) : tokens[n] \in Returned
    BY ElementOfSeq DEF LexInv
  <2>2. \A n \in 1 .. Len(tokens) :
          tokens[n].text \in Seq(Alphabet \cup {Nul}) /\ Len(tokens[n].text) <= MaxWord
    BY <2>1 DEF Returned
  <2>. QED  BY <2>2 DEF LexInv, Reading, States, Fits, TypeOK
<1>. QED  BY <1>1, LexInit, LexNext, PTL DEF Spec

-----------------------------------------------------------------------------
(* Induction: a set of numbers that is not empty has a least one, and one of *)
(* numbers up to n a greatest, so what fails somewhere fails somewhere first. *)

LEMMA Least ==
    ASSUME NEW T \in SUBSET Nat, T # {}
    PROVE  \E x \in T : \A y \in T : x <= y
<1>. DEFINE below == {p \in Nat \X Nat : p[1] < p[2]}
<1>1. IsWellFoundedOn(below, Nat)
  BY NatLessThanWellFounded DEF OpToRel
<1>2. PICK x \in T : \A y \in T : <<y, x>> \notin below
  <2>. HIDE DEF below
  <2>. QED  BY <1>1, WFMin
<1>3. \A y \in T : ~(y < x)
  BY <1>2
<1>. QED  BY <1>3

LEMMA Greatest ==
    ASSUME NEW n \in Nat, NEW T \in SUBSET (1 .. n), T # {}
    PROVE  \E x \in T : \A y \in T : y <= x
<1>. DEFINE mirror == {m \in Nat : m <= n /\ n - m \in T}
<1>1. PICK z \in T : TRUE
  OBVIOUS
<1>2. n - z \in mirror
  BY <1>1
<1>3. PICK m \in mirror : \A y \in mirror : m <= y
  <2>1. mirror \in SUBSET Nat /\ mirror # {}
    BY <1>2
  <2>. HIDE DEF mirror
  <2>. QED  BY <2>1, Least
<1>4. n - m \in T /\ m \in Nat
  BY <1>3
<1>5. ASSUME NEW y \in T PROVE y <= n - m
  <2>1. n - y \in Nat /\ n - y <= n /\ n - (n - y) = y
    BY <1>5
  <2>2. m <= n - y
    BY <1>3, <1>5, <2>1
  <2>. QED  BY <1>4, <2>1, <2>2
<1>. QED  BY <1>4, <1>5

(* Min, of FiniteSetsExt, is the least element. *)
LEMMA MinLeast ==
    ASSUME NEW T \in SUBSET Nat, T # {}
    PROVE  Min(T) \in T /\ \A y \in T : Min(T) <= y
BY Least DEF Min

-----------------------------------------------------------------------------
(* The reference: the equation of TokensFrom has a solution, and each of its *)
(* values is a sequence of tokens.                                           *)

Places(s) == 1 .. Len(s) + 2

LEMMA EndsAhead ==
    ASSUME NEW s \in Seq(Alphabet), NEW a \in 1 .. Len(s)
    PROVE  /\ QuoteEnds(s, a) # {} =>
                Min(QuoteEnds(s, a)) \in QuoteEnds(s, a) /\ Min(QuoteEnds(s, a)) \in a + 1 .. Len(s)
           /\ WordEnds(s, a) # {} =>
                Min(WordEnds(s, a)) \in WordEnds(s, a) /\ Min(WordEnds(s, a)) \in a + 1 .. Len(s)
<1>1. Len(s) \in Nat
  BY LenProperties
<1>2. QuoteEnds(s, a) \in SUBSET Nat /\ WordEnds(s, a) \in SUBSET Nat
  BY <1>1 DEF QuoteEnds, WordEnds
<1>3. QuoteEnds(s, a) \subseteq a + 1 .. Len(s) /\ WordEnds(s, a) \subseteq a + 1 .. Len(s)
  BY DEF QuoteEnds, WordEnds
<1>. QED  BY <1>2, <1>3, MinLeast

(* The tokens from a place on depend on those from later places only. *)
LEMMA FromLater ==
    ASSUME NEW s \in Seq(Alphabet), NEW a \in Places(s), NEW g, NEW h,
           \A b \in Places(s) : b > a => g[b] = h[b]
    PROVE  FromPlace(s, g, a) = FromPlace(s, h, a)
<1>1. Len(s) \in Nat
  BY LenProperties
<1>2. CASE a > Len(s)
  BY <1>2 DEF FromPlace
<1>3. CASE ~(a > Len(s))
  <2>1. a \in 1 .. Len(s)
    BY <1>1, <1>3 DEF Places
  <2>2. g[a + 1] = h[a + 1] /\ g[a + 2] = h[a + 2]
    BY <1>1, <2>1 DEF Places
  <2>3. QuoteEnds(s, a) # {} =>
            g[Min(QuoteEnds(s, a)) + 1] = h[Min(QuoteEnds(s, a)) + 1]
    <3>1. \A b \in a + 1 .. Len(s) : b + 1 \in Places(s) /\ b + 1 > a
      BY <1>1, <2>1 DEF Places
    <3>. QED  BY <2>1, <3>1, EndsAhead
  <2>4. WordEnds(s, a) # {} => g[Min(WordEnds(s, a))] = h[Min(WordEnds(s, a))]
    <3>1. \A b \in a + 1 .. Len(s) : b \in Places(s) /\ b > a
      BY <1>1, <2>1 DEF Places
    <3>. QED  BY <2>1, <3>1, EndsAhead
  <2>. QED  BY <1>3, <2>2, <2>3, <2>4 DEF FromPlace
<1>. QED  BY <1>2, <1>3

-----------------------------------------------------------------------------
(* The characters kept of a quoted word, in their order *)

Rank(K, k) == Cardinality({j \in K : j <= k})

LEMMA RankRises ==
    ASSUME NEW K \in SUBSET Nat, IsFiniteSet(K), NEW k \in K
    PROVE  /\ Rank(K, k) \in 1 .. Cardinality(K)
           /\ \A l \in K : k < l => Rank(K, k) < Rank(K, l)
<1>. DEFINE upto(l) == {j \in K : j <= l}
<1>1. \A l \in K : /\ upto(l) \in SUBSET K /\ IsFiniteSet(upto(l)) /\ l \in upto(l)
                   /\ Cardinality(upto(l)) \in Nat /\ Cardinality(upto(l)) <= Cardinality(K)
  <2>1. \A l \in K : upto(l) \in SUBSET K /\ l \in upto(l)
    OBVIOUS
  <2>. HIDE DEF upto
  <2>2. \A l \in K : IsFiniteSet(upto(l)) /\ Cardinality(upto(l)) <= Cardinality(K)
    BY <2>1, FS_Subset
  <2>. QED  BY <2>1, <2>2, FS_CardinalityType
<1>2. Cardinality(K) \in Nat
  BY FS_CardinalityType
<1>3. Cardinality(upto(k)) # 0
  <2>1. upto(k) # {} /\ IsFiniteSet(upto(k))
    BY <1>1
  <2>. QED  BY <2>1, FS_EmptySet
<1>4. ASSUME NEW l \in K, k < l PROVE Cardinality(upto(k)) < Cardinality(upto(l))
  <2>. DEFINE others == upto(l) \ {l}
  <2>1. upto(k) \in SUBSET others
    <3>1. \A j \in K : j \in Nat /\ (j <= k => j <= l /\ j # l)
      BY <1>4
    <3>. QED  BY <3>1
  <2>2. IsFiniteSet(others) /\ Cardinality(others) = Cardinality(upto(l)) - 1
    <3>. HIDE DEF upto
    <3>. QED  BY <1>1, FS_RemoveElement
  <2>3. Cardinality(upto(k)) <= Cardinality(others)
    <3>. HIDE DEF upto, others
    <3>. QED  BY <2>1, <2>2, FS_Subset
  <2>. QED
    <3>. HIDE DEF upto, others
    <3>. QED  BY <1>1, <2>2, <2>3
<1>. QED
  <2>. HIDE DEF upto
  <2>1. Cardinality(upto(k)) \in 1 .. Cardinality(K)
    BY <1>1, <1>2, <1>3
  <2>. QED  BY <1>4, <2>1 DEF Rank, upto

(* As many places as ranks, and no rank twice: there is a place for each. *)
LEMMA NthRank ==
    ASSUME NEW K \in SUBSET Nat, IsFiniteSet(K)
    PROVE  /\ Cardinality(K) \in Nat
           /\ \A n \in 1 .. Cardinality(K) : Nth(K, n) \in K /\ Rank(K, Nth(K, n)) = n
           /\ \A k \in K : Rank(K, k) \in 1 .. Cardinality(K) /\ Nth(K, Rank(K, k)) = k
<1>1. Cardinality(K) \in Nat
  BY FS_CardinalityType
<1>2. \A k \in K : Rank(K, k) \in 1 .. Cardinality(K)
  BY RankRises
<1>3. \A k, l \in K : Rank(K, k) = Rank(K, l) => k = l
  <2>1. \A k, l \in K : k < l => Rank(K, k) < Rank(K, l)
    BY RankRises
  <2>2. \A k, l \in K : k = l \/ k < l \/ l < k
    OBVIOUS
  <2>. QED  BY <1>1, <1>2, <2>1, <2>2
<1>. DEFINE f == [k \in K |-> Rank(K, k)]  T == 1 .. Cardinality(K)
<1>4. f \in Injection(K, T)
  BY <1>2, <1>3 DEF Injection, IsInjective
<1>5. IsFiniteSet(T) /\ Cardinality(T) = Cardinality(K)
  BY <1>1, FS_Interval
<1>6. f \in Surjection(K, T)
  <2>. HIDE DEF f, T
  <2>. QED  BY <1>4, <1>5, FS_Injection
<1>7. \A n \in T : \E k \in K : Rank(K, k) = n
  BY <1>6 DEF Surjection
<1>8. \A n \in T : Nth(K, n) \in K /\ Rank(K, Nth(K, n)) = n
  BY <1>7 DEF Nth, Rank
<1>. QED  BY <1>1, <1>2, <1>3, <1>8

(* One more place, behind the others, is the last. *)
LEMMA NthAdd ==
    ASSUME NEW K \in SUBSET Nat, IsFiniteSet(K), NEW b \in Nat, \A k \in K : k < b
    PROVE  /\ Cardinality(K \cup {b}) = Cardinality(K) + 1
           /\ Nth(K \cup {b}, Cardinality(K) + 1) = b
           /\ \A n \in 1 .. Cardinality(K) : Nth(K \cup {b}, n) = Nth(K, n)
<1>. DEFINE L == K \cup {b}
<1>1. Cardinality(K) \in Nat /\ IsFiniteSet(L) /\ Cardinality(L) = Cardinality(K) + 1
  <2>1. b \notin K
    OBVIOUS
  <2>. QED  BY <2>1, FS_AddElement, FS_CardinalityType
<1>2. L \in SUBSET Nat /\ b \in L
  OBVIOUS
<1>3. Rank(L, b) = Cardinality(L)
  <2>1. \A j \in L : j <= b
    <3>1. \A j \in K : j \in Nat /\ j < b
      OBVIOUS
    <3>. QED  BY <3>1
  <2>2. {j \in L : j <= b} = L
    BY <2>1
  <2>. QED  BY <2>2 DEF Rank
<1>4. \A k \in K : Rank(L, k) = Rank(K, k)
  <2>1. ASSUME NEW k \in K PROVE {j \in L : j <= k} = {j \in K : j <= k}
    OBVIOUS
  <2>. QED  BY <2>1 DEF Rank
<1>5. K \subseteq L
  OBVIOUS
<1>. HIDE DEF L
<1>6. Nth(L, Cardinality(K) + 1) = b
  BY <1>1, <1>2, <1>3, NthRank
<1>7. ASSUME NEW n \in 1 .. Cardinality(K) PROVE Nth(L, n) = Nth(K, n)
  <2>1. Nth(K, n) \in K /\ Rank(K, Nth(K, n)) = n
    BY NthRank
  <2>2. Nth(K, n) \in L /\ Rank(L, Nth(K, n)) = n
    BY <1>4, <1>5, <2>1
  <2>. QED  BY <1>1, <1>2, <2>2, NthRank
<1>. QED  BY <1>1, <1>6, <1>7 DEF L

(* Two backslashes escape each other, and nothing else ends an escape but    *)
(* the character behind it.                                                  *)
LEMMA EscapedNext ==
    ASSUME NEW s, NEW a \in Nat
    PROVE  /\ ~Escaped(s, a, a + 1)
           /\ \A k \in Nat : k > a => /\ s[k] # "backslash" => ~Escaped(s, a, k + 1)
                                      /\ s[k] = "backslash" => (Escaped(s, a, k + 1) <=> ~Escaped(s, a, k))
<1>1. ~Escaped(s, a, a + 1)
  <2>1. Backslashes(s, a, a + 1) = {}
    BY DEF Backslashes
  <2>. QED  BY <2>1, FS_EmptySet DEF Escaped
<1>2. ASSUME NEW k \in Nat, k > a, s[k] # "backslash" PROVE ~Escaped(s, a, k + 1)
  <2>1. Backslashes(s, a, k + 1) = {}
    BY <1>2 DEF Backslashes
  <2>. QED  BY <2>1, FS_EmptySet DEF Escaped
<1>3. ASSUME NEW k \in Nat, k > a, s[k] = "backslash"
      PROVE  Escaped(s, a, k + 1) <=> ~Escaped(s, a, k)
  <2>. DEFINE B == Backslashes(s, a, k)
  <2>1. B \in SUBSET (a + 1 .. k - 1) /\ k \notin B
    BY DEF Backslashes
  <2>2. Backslashes(s, a, k + 1) = B \cup {k}
    <3>1. ASSUME NEW j \in Int
          PROVE  j \in Backslashes(s, a, k + 1) <=> j \in B \cup {k}
      <4>1. CASE j = k
        <5>1. k \in a + 1 .. (k + 1) - 1 /\ \A m \in k .. (k + 1) - 1 : m = k
          BY <1>3
        <5>. QED  BY <1>3, <4>1, <5>1 DEF Backslashes
      <4>2. CASE j # k
        <5>1. j \in a + 1 .. (k + 1) - 1 <=> j \in a + 1 .. k - 1
          BY <1>3, <4>2
        <5>2. j <= k => \A m \in Int : m \in j .. (k + 1) - 1 <=> m = k \/ m \in j .. k - 1
          BY <1>3
        <5>. QED  BY <1>3, <4>2, <5>1, <5>2 DEF Backslashes
      <4>. QED  BY <4>1, <4>2
    <3>2. Backslashes(s, a, k + 1) \subseteq Int /\ B \cup {k} \subseteq Int
      BY DEF Backslashes
    <3>. QED  BY <3>1, <3>2
  <2>3. IsFiniteSet(B)
    <3>1. IsFiniteSet(a + 1 .. k - 1)
      BY FS_Interval
    <3>. HIDE DEF B
    <3>. QED  BY <2>1, <3>1, FS_Subset
  <2>4. Cardinality(B) \in Nat /\ Cardinality(B \cup {k}) = Cardinality(B) + 1
    <3>. HIDE DEF B
    <3>. QED  BY <2>1, <2>3, FS_AddElement, FS_CardinalityType
  <2>5. \A n \in Nat : (n + 1) % 2 = 1 <=> n % 2 # 1
    OBVIOUS
  <2>. QED
    <3>. HIDE DEF B
    <3>1. (Cardinality(B) + 1) % 2 = 1 <=> Cardinality(B) % 2 # 1
      BY <2>4, <2>5
    <3>. QED  BY <2>2, <2>4, <3>1 DEF Escaped, B
<1>. QED  BY <1>1, <1>2, <1>3

LEMMA KeptPlaces ==
    ASSUME NEW s, NEW a \in Nat, NEW b \in Nat
    PROVE  /\ Kept(s, a, b) \in SUBSET Nat /\ IsFiniteSet(Kept(s, a, b))
           /\ \A k \in Kept(s, a, b) : k \in Nat /\ a < k /\ k < b
<1>1. Kept(s, a, b) \in SUBSET (a + 1 .. b - 1)
  BY DEF Kept
<1>2. IsFiniteSet(a + 1 .. b - 1)
  BY FS_Interval
<1>3. \A k \in a + 1 .. b - 1 : k \in Nat /\ a < k /\ k < b
  OBVIOUS
<1>. QED  BY <1>1, <1>2, <1>3, FS_Subset

LEMMA QuotedText ==
    ASSUME NEW s \in Seq(Alphabet), NEW a \in Nat, NEW b \in Nat, b <= Len(s) + 1
    PROVE  /\ Quoted(s, a, b) \in Seq(Alphabet)
           /\ Len(Quoted(s, a, b)) = Cardinality(Kept(s, a, b))
           /\ \A n \in 1 .. Cardinality(Kept(s, a, b)) :
                 Quoted(s, a, b)[n] = s[Nth(Kept(s, a, b), n)]
<1>1. PICK K : K = Kept(s, a, b)
  OBVIOUS
<1>2. /\ K \in SUBSET Nat /\ IsFiniteSet(K)
      /\ \A k \in K : k \in Nat /\ a < k /\ k < b
  BY <1>1, KeptPlaces
<1>3. /\ Cardinality(K) \in Nat
      /\ \A n \in 1 .. Cardinality(K) : Nth(K, n) \in K
  BY <1>2, NthRank
<1>4. Len(s) \in Nat
  BY LenProperties
<1>5. \A k \in K : k \in 1 .. Len(s)
  BY <1>2, <1>4
<1>6. \A n \in 1 .. Cardinality(K) : s[Nth(K, n)] \in Alphabet
  BY <1>3, <1>5, ElementOfSeq
<1>7. Quoted(s, a, b) = [n \in 1 .. Cardinality(K) |-> s[Nth(K, n)]]
  BY <1>1 DEF Quoted
<1>. QED  BY <1>1, <1>3, <1>6, <1>7

(* A character that is kept comes behind those before it; a backslash that   *)
(* escapes is not kept.                                                      *)
LEMMA QuotedNext ==
    ASSUME NEW s \in Seq(Alphabet), NEW a \in Nat, NEW b \in 1 .. Len(s), a < b
    PROVE  /\ (s[b] = "backslash" => Escaped(s, a, b)) =>
                  Quoted(s, a, b + 1) = Append(Quoted(s, a, b), s[b])
           /\ s[b] = "backslash" /\ ~Escaped(s, a, b) => Quoted(s, a, b + 1) = Quoted(s, a, b)
<1>. DEFINE K == Kept(s, a, b)  L == Kept(s, a, b + 1)
<1>1. Len(s) \in Nat /\ b \in Nat /\ b + 1 \in Nat /\ b <= Len(s) + 1 /\ b + 1 <= Len(s) + 1
  BY LenProperties
<1>2. \A k \in Int : k \in a + 1 .. (b + 1) - 1 <=> k = b \/ k \in a + 1 .. b - 1
  BY <1>1
<1>3. s[b] = "backslash" /\ ~Escaped(s, a, b) => L = K
  BY <1>2 DEF Kept
<1>4. (s[b] = "backslash" => Escaped(s, a, b)) => L = K \cup {b}
  BY <1>2 DEF Kept
<1>5. s[b] \in Alphabet
  BY ElementOfSeq
<1>6. /\ K \in SUBSET Nat /\ IsFiniteSet(K) /\ \A k \in K : k < b
  BY <1>1, KeptPlaces
<1>7. ASSUME L = K \cup {b} PROVE Quoted(s, a, b + 1) = Append(Quoted(s, a, b), s[b])
  <2>1. /\ Cardinality(K) \in Nat /\ Cardinality(L) = Cardinality(K) + 1
        /\ Nth(L, Cardinality(K) + 1) = b
        /\ \A n \in 1 .. Cardinality(K) : Nth(L, n) = Nth(K, n)
    <3>. HIDE DEF K, L
    <3>. QED  BY <1>1, <1>6, <1>7, NthAdd, FS_CardinalityType
  <2>. DEFINE q == Quoted(s, a, b)  r == Quoted(s, a, b + 1)
  <2>2. /\ q \in Seq(Alphabet) /\ Len(q) = Cardinality(K)
        /\ \A n \in 1 .. Cardinality(K) : q[n] = s[Nth(K, n)]
    BY <1>1, QuotedText
  <2>3. /\ r \in Seq(Alphabet) /\ Len(r) = Cardinality(L)
        /\ \A n \in 1 .. Cardinality(L) : r[n] = s[Nth(L, n)]
    BY <1>1, QuotedText
  <2>. HIDE DEF K, L, q, r
  <2>4. /\ Append(q, s[b]) \in Seq(Alphabet) /\ Len(Append(q, s[b])) = Cardinality(K) + 1
        /\ Append(q, s[b])[Cardinality(K) + 1] = s[b]
        /\ \A n \in 1 .. Cardinality(K) : Append(q, s[b])[n] = q[n]
    BY <1>5, <2>2, AppendProperties
  <2>5. \A n \in 1 .. Cardinality(L) : n = Cardinality(K) + 1 \/ n \in 1 .. Cardinality(K)
    BY <2>1
  <2>6. \A n \in 1 .. Cardinality(L) : r[n] = Append(q, s[b])[n]
    BY <2>1, <2>2, <2>3, <2>4, <2>5
  <2>7. r = Append(q, s[b])
    BY <2>1, <2>3, <2>4, <2>6, SeqEqual
  <2>. QED  BY <2>7 DEF q, r
<1>8. L = K => Quoted(s, a, b + 1) = Quoted(s, a, b)
  BY DEF Quoted
<1>. QED  BY <1>3, <1>4, <1>7, <1>8

LEMMA QuotedStart ==
    ASSUME NEW s \in Seq(Alphabet), NEW a \in 1 .. Len(s)
    PROVE  Quoted(s, a, a + 1) = <<>>
<1>1. Kept(s, a, a + 1) = {}
  BY LenProperties DEF Kept
<1>2. Cardinality(Kept(s, a, a + 1)) = 0
  BY <1>1, FS_EmptySet
<1>3. a \in Nat /\ a + 1 \in Nat /\ a + 1 <= Len(s) + 1
  BY LenProperties
<1>4. Quoted(s, a, a + 1) \in Seq(Alphabet) /\ Len(Quoted(s, a, a + 1)) = 0
  BY <1>2, <1>3, QuotedText
<1>. QED  BY <1>4, EmptySeq

(* The buffer: what is cut of a text and then gets a character has as much   *)
(* of the longer text as there is room for.                                  *)
LEMMA CutText ==
    ASSUME NEW S, NEW t \in Seq(S)
    PROVE  /\ Cut(t) \in Seq(S) /\ Len(Cut(t)) <= MaxWord
           /\ Len(Cut(t)) = IF Len(t) < MaxWord THEN Len(t) ELSE MaxWord
           /\ \A n \in 1 .. Len(Cut(t)) : Cut(t)[n] = t[n]
<1>1. Len(t) \in Nat /\ MaxWord \in Nat \ {0}
  BY LenProperties, MaxWordAssumption
<1>2. PICK m \in 0 .. Len(t) : m = IF Len(t) < MaxWord THEN Len(t) ELSE MaxWord
  BY <1>1
<1>3. \A n \in 1 .. m : t[n] \in S
  BY <1>1, <1>2, ElementOfSeq
<1>4. Cut(t) = SubSeq(t, 1, m)
  BY <1>2 DEF Cut
<1>5. /\ SubSeq(t, 1, m) \in Seq(S) /\ Len(SubSeq(t, 1, m)) = m
      /\ \A n \in 1 .. m : SubSeq(t, 1, m)[n] = t[n]
  BY <1>1, <1>3, SubSeqProperties
<1>. QED  BY <1>1, <1>2, <1>4, <1>5

LEMMA CutAppend ==
    ASSUME NEW S, NEW t \in Seq(S), NEW c \in S
    PROVE  Cut(Append(t, c)) = StoreChar(Cut(t), c)
<1>. DEFINE u == Append(t, c)  q == Cut(t)  r == Cut(u)
<1>1. Len(t) \in Nat /\ MaxWord \in Nat \ {0}
  BY LenProperties, MaxWordAssumption
<1>2. /\ u \in Seq(S) /\ Len(u) = Len(t) + 1 /\ u[Len(t) + 1] = c
      /\ \A n \in 1 .. Len(t) : u[n] = t[n]
  BY <1>1, AppendProperties
<1>3. /\ q \in Seq(S) /\ Len(q) = IF Len(t) < MaxWord THEN Len(t) ELSE MaxWord
      /\ \A n \in 1 .. Len(q) : q[n] = t[n]
  BY CutText
<1>4. /\ r \in Seq(S) /\ Len(r) = IF Len(u) < MaxWord THEN Len(u) ELSE MaxWord
      /\ \A n \in 1 .. Len(r) : r[n] = u[n]
  <2>. HIDE DEF u
  <2>. QED  BY <1>2, CutText
<1>. HIDE DEF u, q, r
<1>5. CASE Len(t) >= MaxWord
  <2>1. Len(r) = Len(q) /\ \A n \in 1 .. Len(r) : r[n] = q[n]
    BY <1>1, <1>2, <1>3, <1>4, <1>5
  <2>2. r = q
    BY <1>3, <1>4, <2>1, SeqEqual
  <2>. QED  BY <1>1, <1>3, <1>5, <2>2 DEF StoreChar, u, q, r
<1>6. CASE Len(t) < MaxWord
  <2>1. /\ Append(q, c) \in Seq(S) /\ Len(Append(q, c)) = Len(t) + 1
        /\ Append(q, c)[Len(t) + 1] = c
        /\ \A n \in 1 .. Len(t) : Append(q, c)[n] = q[n]
    BY <1>1, <1>3, <1>6, AppendProperties
  <2>2. Len(r) = Len(t) + 1
    BY <1>1, <1>2, <1>4, <1>6
  <2>3. \A n \in 1 .. Len(t) + 1 : n = Len(t) + 1 \/ n \in 1 .. Len(t)
    BY <1>1
  <2>4. \A n \in 1 .. Len(t) + 1 : r[n] = Append(q, c)[n]
    BY <1>2, <1>3, <1>4, <1>6, <2>1, <2>2, <2>3
  <2>5. r = Append(q, c)
    BY <1>4, <2>1, <2>2, <2>4, SeqEqual
  <2>6. ~(Len(q) >= MaxWord)
    BY <1>1, <1>3, <1>6
  <2>. QED  BY <2>5, <2>6 DEF StoreChar, u, q, r
<1>. QED  BY <1>1, <1>5, <1>6

LEMMA CutEmpty == Cut(<<>>) = <<>>
<1>1. PICK none \in Seq(Alphabet) : none = <<>> /\ Len(none) = 0
  BY EmptySeq
<1>2. /\ Cut(none) \in Seq(Alphabet)
      /\ Len(Cut(none)) = IF Len(none) < MaxWord THEN Len(none) ELSE MaxWord
  BY CutText
<1>3. Len(Cut(none)) = 0
  BY <1>1, <1>2, MaxWordAssumption
<1>. QED  BY <1>1, <1>2, <1>3, EmptySeq

LEMMA WordTokenText ==
    ASSUME NEW t \in Seq(Alphabet)
    PROVE  WordToken(t) \in Returned /\ WordToken(t) = Token("T_WORD", StoreChar(Cut(t), Nul))
<1>1. t \in Seq(Alphabet \cup {Nul})
  BY SeqMonotonic
<1>2. Cut(Append(t, Nul)) = StoreChar(Cut(t), Nul)
  BY <1>1, CutAppend
<1>3. Fits(Cut(t), Alphabet)
  BY CutText DEF Fits
<1>. QED  BY <1>2, <1>3, WordReturned DEF WordToken

-----------------------------------------------------------------------------
(* The reference has a solution *)

LEMMA PlainFirst ==
    ASSUME NEW token \in Returned, NEW rest \in Seq(Returned)
    PROVE  <<token>> \o rest \in Seq(Returned)
<1>1. <<token>> \in Seq(Returned)
  OBVIOUS
<1>. QED  BY <1>1, ConcatProperties

LEMMA FromTyped ==
    ASSUME NEW s \in Seq(Alphabet), NEW a \in Places(s), NEW g,
           \A b \in Places(s) : b > a => g[b] \in Seq(Returned)
    PROVE  FromPlace(s, g, a) \in Seq(Returned)
<1>1. Len(s) \in Nat
  BY LenProperties
<1>2. <<>> \in Seq(Returned)
  BY EmptySeq
<1>3. CASE a > Len(s)
  BY <1>2, <1>3 DEF FromPlace
<1>4. CASE ~(a > Len(s))
  <2>1. a \in 1 .. Len(s) /\ a \in Nat
    BY <1>1, <1>4 DEF Places
  <2>2. g[a + 1] \in Seq(Returned) /\ g[a + 2] \in Seq(Returned)
    BY <1>1, <2>1 DEF Places
  <2>3. \A kind \in Kinds : /\ <<Token(kind, <<>>)>> \o g[a + 1] \in Seq(Returned)
                            /\ <<Token(kind, <<>>)>> \o g[a + 2] \in Seq(Returned)
    BY <2>2, PlainFirst, PlainReturned
  <2>4. ASSUME QuoteEnds(s, a) # {}
        PROVE  LET b == Min(QuoteEnds(s, a))
               IN  <<WordToken(Quoted(s, a, b))>> \o g[b + 1] \in Seq(Returned)
    <3>1. PICK b \in a + 1 .. Len(s) : b = Min(QuoteEnds(s, a))
      BY <2>1, <2>4, EndsAhead
    <3>2. b \in Nat /\ b <= Len(s) + 1 /\ g[b + 1] \in Seq(Returned)
      BY <1>1, <2>1 DEF Places
    <3>3. Quoted(s, a, b) \in Seq(Alphabet)
      BY <2>1, <3>2, QuotedText
    <3>. QED  BY <3>1, <3>2, <3>3, WordTokenText, PlainFirst
  <2>5. ASSUME WordEnds(s, a) # {}
        PROVE  LET b == Min(WordEnds(s, a))
               IN  <<WordToken(SubSeq(s, a, b - 1))>> \o g[b] \in Seq(Returned)
    <3>1. PICK b \in a + 1 .. Len(s) : b = Min(WordEnds(s, a))
      BY <2>1, <2>5, EndsAhead
    <3>2. g[b] \in Seq(Returned) /\ a \in Int /\ b - 1 \in Int
      BY <1>1, <2>1 DEF Places
    <3>3. SubSeq(s, a, b - 1) \in Seq(Alphabet)
      <4>1. \A k \in a .. b - 1 : s[k] \in Alphabet
        BY <1>1, <2>1, ElementOfSeq
      <4>. QED  BY <3>2, <4>1, SubSeqProperties
    <3>. QED  BY <3>1, <3>2, <3>3, WordTokenText, PlainFirst
  <2>. QED  BY <1>2, <1>4, <2>2, <2>3, <2>4, <2>5 DEF FromPlace, Kinds
<1>. QED  BY <1>3, <1>4

(* From the last place to the first there is always one more value.          *)
LEMMA Solution ==
    ASSUME NEW s \in Seq(Alphabet)
    PROVE  \E g : g = [a \in Places(s) |-> FromPlace(s, g, a)]
<1>. DEFINE n == Len(s) + 2
            solves(g, m) == \A a \in Places(s) : a > n - m => g[a] = FromPlace(s, g, a)
            functions == [Places(s) -> Seq(Returned)]
            open == {m \in Nat : ~\E g \in functions : solves(g, m)}
<1>1. n \in Nat /\ Places(s) = 1 .. n
  BY LenProperties DEF Places
<1>2. 0 \notin open
  <2>. DEFINE g == [a \in Places(s) |-> <<>>]
  <2>1. g \in functions
    BY EmptySeq
  <2>2. solves(g, 0)
    BY <1>1
  <2>. HIDE DEF functions, solves, g
  <2>. QED  BY <2>1, <2>2
<1>3. ASSUME NEW m \in Nat, m < n, m \notin open PROVE m + 1 \notin open
  <2>1. PICK g \in functions : solves(g, m)
    BY <1>3
  <2>2. PICK c \in Places(s) : c = n - m
    BY <1>1, <1>3
  <2>. DEFINE h == [a \in Places(s) |-> IF a <= c THEN FromPlace(s, g, c) ELSE g[a]]
  <2>3. FromPlace(s, g, c) \in Seq(Returned)
    BY FromTyped
  <2>4. h \in functions
    <3>. HIDE DEF n
    <3>. QED  BY <2>3
  <2>5. /\ h[c] = FromPlace(s, g, c)
        /\ \A a \in Places(s) : a > c => h[a] = g[a]
    BY <1>1
  <2>. HIDE DEF h
  <2>6. ASSUME NEW a \in Places(s), a >= c PROVE FromPlace(s, h, a) = FromPlace(s, g, a)
    <3>1. \A b \in Places(s) : b > a => b > c
      BY <1>1, <2>6
    <3>2. \A b \in Places(s) : b > a => h[b] = g[b]
      BY <2>5, <3>1
    <3>. QED  BY <3>2, FromLater
  <2>7. ASSUME NEW a \in Places(s), a > n - (m + 1) PROVE h[a] = FromPlace(s, h, a)
    <3>1. CASE a = c
      BY <1>1, <2>5, <2>6, <3>1
    <3>2. CASE a # c
      <4>1. a > c /\ a >= c /\ a > n - m
        BY <1>1, <1>3, <2>2, <2>7, <3>2
      <4>2. g[a] = FromPlace(s, g, a)
        BY <2>1, <4>1
      <4>. QED  BY <2>5, <2>6, <4>1, <4>2
    <3>. QED  BY <3>1, <3>2
  <2>8. solves(h, m + 1)
    BY <2>7
  <2>. HIDE DEF functions, solves
  <2>. QED  BY <2>4, <2>8
<1>4. n \notin open
  <2>. DEFINE late == {m \in open : m <= n}
  <2>1. SUFFICES ASSUME n \in open PROVE FALSE
    OBVIOUS
  <2>2. late \in SUBSET Nat /\ late # {}
    BY <1>1, <2>1
  <2>. HIDE DEF late
  <2>3. PICK x \in late : \A y \in late : x <= y
    BY <2>2, Least
  <2>4. x \in open /\ x \in Nat /\ x <= n
    BY DEF late
  <2>. HIDE DEF open
  <2>5. x # 0
    BY <1>2, <2>4
  <2>6. x - 1 \in Nat /\ x - 1 < n /\ x - 1 < x /\ (x - 1) + 1 = x
    BY <1>1, <2>4, <2>5
  <2>7. x - 1 \in open
    BY <1>3, <2>4, <2>6
  <2>8. x - 1 \in late
    BY <1>1, <2>6, <2>7 DEF late
  <2>. QED  BY <2>3, <2>4, <2>6, <2>8
<1>5. PICK g \in functions : solves(g, n)
  BY <1>1, <1>4
<1>6. \A a \in Places(s) : g[a] = FromPlace(s, g, a)
  BY <1>1, <1>5
<1>7. g = [a \in Places(s) |-> FromPlace(s, g, a)]
  BY <1>6
<1>. QED  BY <1>7

(* So TokensFrom is what its definition says, and all its values are tokens. *)
LEMMA TokensEquation ==
    ASSUME NEW s \in Seq(Alphabet)
    PROVE  \A a \in Places(s) : /\ TokensFrom(s)[a] = FromPlace(s, TokensFrom(s), a)
                                /\ TokensFrom(s)[a] \in Seq(Returned)
<1>1. TokensFrom(s) = [a \in Places(s) |-> FromPlace(s, TokensFrom(s), a)]
  BY Solution DEF TokensFrom, Places
<1>. DEFINE g == TokensFrom(s)
<1>. HIDE DEF g
<1>2. \A a \in Places(s) : g[a] = FromPlace(s, g, a)
  BY <1>1 DEF g
<1>. DEFINE bad == {a \in Places(s) : g[a] \notin Seq(Returned)}
<1>3. bad = {}
  <2>1. SUFFICES ASSUME bad # {} PROVE FALSE
    OBVIOUS
  <2>2. Len(s) + 2 \in Nat /\ bad \in SUBSET (1 .. Len(s) + 2)
    BY LenProperties DEF Places
  <2>3. PICK x \in bad : \A y \in bad : y <= x
    <3>. HIDE DEF bad
    <3>. QED  BY <2>1, <2>2, Greatest
  <2>4. \A b \in Places(s) : b > x => ~(b <= x)
    BY <2>2 DEF Places
  <2>5. \A b \in Places(s) : b > x => g[b] \in Seq(Returned)
    BY <2>3, <2>4
  <2>6. FromPlace(s, g, x) \in Seq(Returned)
    BY <2>5, FromTyped
  <2>. QED  BY <1>2, <2>6
<1>. QED  BY <1>2, <1>3 DEF g

-----------------------------------------------------------------------------
(* gettoken() and the reference *)

LEMMA PlainChars == DOMAIN Plain = {";", "&", "|", "<", "newline"}
BY DEF Plain

(* What the tokens from place a on add to those returned is all of them. *)
Ahead(a) ==
    /\ a \in 1 .. Len(input) + 1
    /\ tokens \o TokensFrom(input)[a] = Expected

Ordinary(c) == c \notin Special \cup {"quote"}

(* In quotes that began at a, none of the characters so far ends them. *)
Quoting(a) ==
    /\ a \in 1 .. Len(input) /\ a < at /\ input[a] = "quote"
    /\ \A b \in a + 1 .. at - 1 : input[b] = "quote" => Escaped(input, a, b)
    /\ at <= Len(input) => ~Escaped(input, a, at) /\ word = Cut(Quoted(input, a, at))

(* In a word that began at a. *)
Wording(a) ==
    /\ a \in 1 .. Len(input) /\ a < at /\ Ordinary(input[a])
    /\ \A b \in a .. at - 1 : input[b] \notin Special
    /\ word = Cut(SubSeq(input, a, at - 1))

TokInv ==
    /\ state = "NEUTRAL" => Ahead(at) /\ word = <<>>
    /\ state = "GTGT" => at > 1 /\ input[at - 1] = ">" /\ Ahead(at - 1)
    /\ state = "INQUOTE" => \E a \in 1 .. Len(input) : Ahead(a) /\ Quoting(a)
    /\ state = "INWORD" => \E a \in 1 .. Len(input) : Ahead(a) /\ Wording(a)
    /\ state = "ended" => Front(tokens) = Expected

(* What a step knows before it looks at the state. *)
LEMMA ReadingFacts ==
    ASSUME LexInv
    PROVE  /\ input \in Seq(Alphabet) /\ Len(input) \in Nat
           /\ at \in 1 .. Len(input) + 1 /\ at \in Nat
           /\ tokens \in Seq(Returned)
           /\ \A a \in 1 .. Len(input) + 2 :
                 /\ TokensFrom(input)[a] = FromPlace(input, TokensFrom(input), a)
                 /\ TokensFrom(input)[a] \in Seq(Returned)
<1>1. input \in Seq(Alphabet) /\ at \in 1 .. Len(input) + 1 /\ tokens \in Seq(Returned)
  BY DEF LexInv, Reading
<1>2. Len(input) \in Nat
  BY <1>1, LenProperties
<1>. QED  BY <1>1, <1>2, TokensEquation DEF Places

(* What comes from a place on, by the character there. *)
LEMMA FromBlank ==
    ASSUME LexInv, NEW b \in 1 .. Len(input), input[b] = "blank"
    PROVE  TokensFrom(input)[b] = TokensFrom(input)[b + 1]
<1>. DEFINE g == TokensFrom(input)
<1>1. g[b] = FromPlace(input, g, b) /\ ~(b > Len(input))
  BY ReadingFacts
<1>. HIDE DEF g
<1>2. FromPlace(input, g, b) = g[b + 1]
  BY <1>1, PlainChars DEF FromPlace
<1>. QED  BY <1>1, <1>2 DEF g

LEMMA FromPlain ==
    ASSUME LexInv, NEW b \in 1 .. Len(input), input[b] \in DOMAIN Plain
    PROVE  TokensFrom(input)[b] = <<Token(Plain[input[b]], <<>>)>> \o TokensFrom(input)[b + 1]
<1>. DEFINE g == TokensFrom(input)
<1>1. g[b] = FromPlace(input, g, b) /\ ~(b > Len(input))
  BY ReadingFacts
<1>. HIDE DEF g
<1>2. FromPlace(input, g, b) = <<Token(Plain[input[b]], <<>>)>> \o g[b + 1]
  BY <1>1, PlainChars DEF FromPlace
<1>. QED  BY <1>1, <1>2 DEF g

LEMMA FromGt ==
    ASSUME LexInv, NEW b \in 1 .. Len(input), input[b] = ">"
    PROVE  /\ b = Len(input) => TokensFrom(input)[b] = <<>>
           /\ b # Len(input) /\ input[b + 1] = ">" =>
                 TokensFrom(input)[b] = <<Token("T_GTGT", <<>>)>> \o TokensFrom(input)[b + 2]
           /\ b # Len(input) /\ input[b + 1] # ">" =>
                 TokensFrom(input)[b] = <<Token("T_GT", <<>>)>> \o TokensFrom(input)[b + 1]
<1>. DEFINE g == TokensFrom(input)
<1>1. g[b] = FromPlace(input, g, b) /\ ~(b > Len(input))
  BY ReadingFacts
<1>. HIDE DEF g
<1>2. b = Len(input) => FromPlace(input, g, b) = <<>>
  BY <1>1, PlainChars DEF FromPlace
<1>3. b # Len(input) /\ input[b + 1] = ">" =>
          FromPlace(input, g, b) = <<Token("T_GTGT", <<>>)>> \o g[b + 2]
  BY <1>1, PlainChars DEF FromPlace
<1>4. b # Len(input) /\ input[b + 1] # ">" =>
          FromPlace(input, g, b) = <<Token("T_GT", <<>>)>> \o g[b + 1]
  BY <1>1, PlainChars DEF FromPlace
<1>. QED  BY <1>1, <1>2, <1>3, <1>4 DEF g

LEMMA FromQuote ==
    ASSUME LexInv, NEW b \in 1 .. Len(input), input[b] = "quote"
    PROVE  /\ QuoteEnds(input, b) = {} => TokensFrom(input)[b] = <<>>
           /\ \A e : QuoteEnds(input, b) # {} /\ e = Min(QuoteEnds(input, b)) =>
                 TokensFrom(input)[b] = <<WordToken(Quoted(input, b, e))>> \o TokensFrom(input)[e + 1]
<1>. DEFINE g == TokensFrom(input)
<1>1. g[b] = FromPlace(input, g, b) /\ ~(b > Len(input))
  BY ReadingFacts
<1>. HIDE DEF g
<1>2. QuoteEnds(input, b) = {} => FromPlace(input, g, b) = <<>>
  BY <1>1, PlainChars DEF FromPlace
<1>3. ASSUME NEW e, QuoteEnds(input, b) # {}, e = Min(QuoteEnds(input, b))
      PROVE  FromPlace(input, g, b) = <<WordToken(Quoted(input, b, e))>> \o g[e + 1]
  BY <1>1, <1>3, PlainChars DEF FromPlace
<1>. QED  BY <1>1, <1>2, <1>3 DEF g

LEMMA FromWord ==
    ASSUME LexInv, NEW b \in 1 .. Len(input), Ordinary(input[b])
    PROVE  /\ WordEnds(input, b) = {} => TokensFrom(input)[b] = <<>>
           /\ \A e : WordEnds(input, b) # {} /\ e = Min(WordEnds(input, b)) =>
                 TokensFrom(input)[b] = <<WordToken(SubSeq(input, b, e - 1))>> \o TokensFrom(input)[e]
<1>. DEFINE g == TokensFrom(input)
<1>1. g[b] = FromPlace(input, g, b) /\ ~(b > Len(input))
  BY ReadingFacts
<1>. HIDE DEF g
<1>2. WordEnds(input, b) = {} => FromPlace(input, g, b) = <<>>
  BY <1>1, PlainChars DEF FromPlace, Ordinary, Special
<1>3. ASSUME NEW e, WordEnds(input, b) # {}, e = Min(WordEnds(input, b))
      PROVE  FromPlace(input, g, b) = <<WordToken(SubSeq(input, b, e - 1))>> \o g[e]
  BY <1>1, <1>3, PlainChars DEF FromPlace, Ordinary, Special
<1>. QED  BY <1>1, <1>2, <1>3 DEF g

(* The token that is returned is the first of those that were to come. *)
LEMMA TokenTaken ==
    ASSUME LexInv, NEW a, Ahead(a), NEW c \in 1 .. Len(input) + 1, NEW token \in Returned,
           TokensFrom(input)[a] = <<token>> \o TokensFrom(input)[c],
           tokens' = Append(tokens, token), UNCHANGED input
    PROVE  Ahead(c)'
<1>1. /\ tokens \in Seq(Returned) /\ c \in 1 .. Len(input) + 2
      /\ TokensFrom(input)[c] \in Seq(Returned) /\ <<token>> \in Seq(Returned)
  BY ReadingFacts
<1>2. tokens' = tokens \o <<token>>
  BY <1>1, AppendIsConcat
<1>3. PICK rest \in Seq(Returned) : rest = TokensFrom(input)[c]
  BY <1>1
<1>4. (tokens \o <<token>>) \o rest = tokens \o (<<token>> \o rest)
  BY <1>1, ConcatAssociative
<1>6. tokens' \o TokensFrom(input)[c] = Expected
  BY <1>2, <1>3, <1>4 DEF Ahead
<1>5. Expected' = Expected
  BY DEF Expected
<1>. QED  BY <1>5, <1>6 DEF Ahead

(* Nothing is returned, and nothing was to come of the characters passed.    *)
LEMMA NothingTaken ==
    ASSUME NEW a, Ahead(a), NEW c \in 1 .. Len(input) + 1,
           TokensFrom(input)[a] = TokensFrom(input)[c], UNCHANGED <<input, tokens>>
    PROVE  Ahead(c)'
<1>1. Expected' = Expected
  BY DEF Expected
<1>. QED  BY <1>1 DEF Ahead

-----------------------------------------------------------------------------
(* The invariant is kept by each state of gettoken() *)

LEMMA TokInit == Init => TokInv
<1>. SUFFICES ASSUME Init PROVE TokInv
  OBVIOUS
<1>1. LexInv
  BY LexInit
<1>2. TokensFrom(input)[1] \in Seq(Returned) /\ 1 \in 1 .. Len(input) + 1
  BY <1>1, ReadingFacts
<1>3. <<>> \o TokensFrom(input)[1] = TokensFrom(input)[1]
  BY <1>2, ConcatEmptySeq
<1>. QED  BY <1>2, <1>3 DEF Init, TokInv, Ahead, Expected

(* The character to be read, and where reading goes on. *)
LEMMA CharFacts ==
    ASSUME LexInv, More
    PROVE  /\ at \in 1 .. Len(input) /\ Char \in Alphabet /\ Char = input[at]
           /\ at + 1 \in 1 .. Len(input) + 1
<1>1. at \in 1 .. Len(input) /\ at + 1 \in 1 .. Len(input) + 1
  BY ReadingFacts DEF More
<1>. QED  BY <1>1, ReadingFacts, ElementOfSeq DEF Char

LEMMA TokNeutral == ASSUME LexInv, TokInv, Neutral PROVE TokInv'
<1>1. /\ More /\ state = "NEUTRAL" /\ at' = at + 1 /\ UNCHANGED input /\ Ahead(at) /\ word = <<>>
  BY DEF Neutral, TokInv
<1>2. /\ at \in 1 .. Len(input) /\ Char = input[at] /\ Char \in Alphabet
      /\ Len(input) \in Nat /\ input \in Seq(Alphabet)
  BY <1>1, CharFacts, ReadingFacts
<1>3. PICK c \in 1 .. Len(input) + 1 : c = at + 1 /\ c = at' /\ c \in Nat
  BY <1>1, <1>2
<1>4. PICK b \in 1 .. Len(input) : b = at /\ b \in Nat /\ c = b + 1
  BY <1>2, <1>3
<1>6. CASE Char \in DOMAIN Plain
  <2>1. PICK token \in Returned : token = Token(Plain[Char], <<>>)
    BY <1>6, PlainReturned DEF Kinds
  <2>2. tokens' = Append(tokens, token) /\ state' = "NEUTRAL" /\ word' = <<>>
    BY <1>6, <2>1, PlainChars DEF Neutral, Return, Special
  <2>3. TokensFrom(input)[b] = <<token>> \o TokensFrom(input)[c]
    BY <1>2, <1>4, <1>6, <2>1, FromPlain
  <2>4. Ahead(c)'
    BY <1>1, <1>4, <2>2, <2>3, TokenTaken
  <2>. QED  BY <1>3, <2>2, <2>4 DEF TokInv, Ahead
<1>7. CASE Char = "blank"
  <2>1. UNCHANGED <<state, word, tokens>>
    BY <1>7, PlainChars DEF Neutral, Special
  <2>2. TokensFrom(input)[b] = TokensFrom(input)[c]
    BY <1>2, <1>4, <1>7, FromBlank
  <2>3. Ahead(c)'
    BY <1>1, <1>4, <2>1, <2>2, NothingTaken
  <2>. QED  BY <1>1, <1>3, <2>1, <2>3 DEF TokInv, Ahead
<1>8. ASSUME UNCHANGED tokens PROVE Ahead(b)'
  <2>1. Expected' = Expected
    BY <1>1 DEF Expected
  <2>. QED  BY <1>1, <1>4, <1>8, <2>1 DEF Ahead
<1>9. CASE Char = ">"
  <2>1. state' = "GTGT" /\ UNCHANGED <<word, tokens>>
    BY <1>9, PlainChars DEF Neutral, Special
  <2>2. at' > 1 /\ at' - 1 = b /\ input'[b] = ">"
    BY <1>1, <1>2, <1>3, <1>4, <1>9
  <2>. QED  BY <1>8, <2>1, <2>2 DEF TokInv, Ahead
<1>10. CASE Char = "quote"
  <2>1. state' = "INQUOTE" /\ UNCHANGED <<word, tokens>>
    BY <1>10, PlainChars DEF Neutral, Special
  <2>2. Quoted(input, b, c) = <<>> /\ ~Escaped(input, b, c)
    BY <1>2, <1>4, QuotedStart, EscapedNext
  <2>3. Quoting(b)'
    <3>1. b < c /\ ~\E d \in b + 1 .. c - 1 : TRUE
      BY <1>3, <1>4
    <3>2. input'[b] = "quote" /\ b \in 1 .. Len(input')
      BY <1>1, <1>2, <1>4, <1>10
    <3>3. word' = Cut(Quoted(input', b, at')) /\ ~Escaped(input', b, at')
      BY <1>1, <1>3, <2>1, <2>2, CutEmpty
    <3>. QED  BY <1>3, <3>1, <3>2, <3>3 DEF Quoting
  <2>. QED  BY <1>1, <1>8, <2>1, <2>3 DEF TokInv
<1>11. CASE Char \notin Special \cup {"quote"}
  <2>1. state' = "INWORD" /\ word' = StoreChar(word, Char) /\ UNCHANGED tokens
    BY <1>11, PlainChars DEF Neutral, Special
  <2>2. SubSeq(input, b, c - 1) = Append(<<>>, Char)
    <3>1. c - 1 = b /\ b \in Int /\ b \in b .. Len(input)
      BY <1>2, <1>4
    <3>2. SubSeq(input, b, b) = SubSeq(input, b, b - 1) \o <<input[b]>>
      BY <1>2, <3>1, SubSeqRecursiveSecond
    <3>3. SubSeq(input, b, b - 1) = <<>>
      BY <3>1, SubSeqEmpty
    <3>4. <<>> \in Seq(Alphabet)
      BY EmptySeq
    <3>5. input[b] \in Alphabet /\ input[b] = Char
      BY <1>2, <1>4, ElementOfSeq DEF Char
    <3>6. Append(<<>>, Char) = <<>> \o <<Char>>
      BY <3>4, <3>5, AppendIsConcat
    <3>. QED  BY <3>1, <3>2, <3>3, <3>5, <3>6
  <2>3. Cut(Append(<<>>, Char)) = StoreChar(Cut(<<>>), Char)
    BY <1>2, EmptySeq, CutAppend
  <2>4. Wording(b)'
    <3>1. word' = Cut(SubSeq(input', b, at' - 1))
      BY <1>1, <1>3, <2>1, <2>2, <2>3, CutEmpty
    <3>2. b < at' /\ Ordinary(input'[b]) /\ b \in 1 .. Len(input')
      BY <1>1, <1>2, <1>3, <1>4, <1>11 DEF Ordinary
    <3>3. \A d \in b .. at' - 1 : d = b
      BY <1>3, <1>4
    <3>. QED  BY <3>1, <3>2, <3>3 DEF Wording, Ordinary
  <2>. QED  BY <1>1, <1>8, <2>1, <2>4 DEF TokInv
<1>. QED  BY <1>6, <1>7, <1>9, <1>10, <1>11 DEF Neutral

LEMMA TokGtGt == ASSUME LexInv, TokInv, GtGt PROVE TokInv'
<1>1. /\ More /\ state = "GTGT" /\ UNCHANGED input
      /\ at > 1 /\ input[at - 1] = ">" /\ Ahead(at - 1)
  BY DEF GtGt, TokInv
<1>2. /\ at \in 1 .. Len(input) /\ Char = input[at] /\ Len(input) \in Nat
  BY <1>1, CharFacts, ReadingFacts
<1>3. PICK b \in 1 .. Len(input) : b = at - 1 /\ b + 1 = at /\ b # Len(input) /\ b + 2 = at + 1
  BY <1>1, <1>2
<1>4. Token("T_GTGT", <<>>) \in Returned /\ Token("T_GT", <<>>) \in Returned
  BY PlainReturned DEF Kinds
<1>5. CASE Char = ">"
  <2>1. /\ tokens' = Append(tokens, Token("T_GTGT", <<>>)) /\ at' = at + 1
        /\ state' = "NEUTRAL" /\ word' = <<>>
    BY <1>5 DEF GtGt, Return
  <2>2. PICK c \in 1 .. Len(input) + 1 : c = at' /\ c = b + 2
    BY <1>2, <1>3, <2>1
  <2>3. TokensFrom(input)[b] = <<Token("T_GTGT", <<>>)>> \o TokensFrom(input)[c]
    BY <1>1, <1>2, <1>3, <1>5, <2>2, FromGt
  <2>4. Ahead(c)'
    BY <1>1, <1>3, <1>4, <2>1, <2>3, TokenTaken
  <2>. QED  BY <2>1, <2>2, <2>4 DEF TokInv, Ahead
<1>6. CASE Char # ">"
  <2>1. /\ tokens' = Append(tokens, Token("T_GT", <<>>)) /\ at' = at
        /\ state' = "NEUTRAL" /\ word' = <<>>
    BY <1>6 DEF GtGt, Return
  <2>2. PICK c \in 1 .. Len(input) + 1 : c = at' /\ c = b + 1
    BY <1>2, <1>3, <2>1
  <2>3. TokensFrom(input)[b] = <<Token("T_GT", <<>>)>> \o TokensFrom(input)[c]
    BY <1>1, <1>2, <1>3, <1>6, <2>2, FromGt
  <2>4. Ahead(c)'
    BY <1>1, <1>3, <1>4, <2>1, <2>3, TokenTaken
  <2>. QED  BY <2>1, <2>2, <2>4 DEF TokInv, Ahead
<1>. QED  BY <1>5, <1>6

(* The first of the places that end a word, as the reference takes it.       *)
LEMMA FirstIsMin ==
    ASSUME NEW T \in SUBSET Nat, NEW e \in T, \A y \in T : ~(y < e)
    PROVE  Min(T) = e
<1>1. Min(T) \in T /\ \A y \in T : Min(T) <= y
  BY MinLeast
<1>2. Min(T) \in Nat /\ e \in Nat /\ Min(T) <= e /\ ~(Min(T) < e)
  BY <1>1
<1>. QED  BY <1>2

LEMMA TokInWord == ASSUME LexInv, TokInv, InWord PROVE TokInv'
<1>1. /\ More /\ state = "INWORD" /\ UNCHANGED input
      /\ \E a \in 1 .. Len(input) : Ahead(a) /\ Wording(a)
  BY DEF InWord, TokInv
<1>2. /\ at \in 1 .. Len(input) /\ Char = input[at] /\ Char \in Alphabet
      /\ at + 1 \in 1 .. Len(input) + 1 /\ Len(input) \in Nat /\ input \in Seq(Alphabet)
  BY <1>1, CharFacts, ReadingFacts
<1>3. PICK a \in 1 .. Len(input) : Ahead(a) /\ Wording(a)
  BY <1>1
<1>4. /\ a < at /\ Ordinary(input[a]) /\ \A k \in a .. at - 1 : input[k] \notin Special
      /\ word = Cut(SubSeq(input, a, at - 1))
  BY <1>3 DEF Wording
<1>5. SubSeq(input, a, at - 1) \in Seq(Alphabet)
  <2>1. \A k \in a .. at - 1 : input[k] \in Alphabet
    BY <1>2, ElementOfSeq
  <2>. QED  BY <1>2, <2>1, SubSeqProperties
<1>6. CASE Char \in Special
  <2>1. /\ tokens' = Append(tokens, Token("T_WORD", StoreChar(word, Nul)))
        /\ at' = at /\ state' = "NEUTRAL" /\ word' = <<>>
    BY <1>6 DEF InWord, Return
  <2>2. PICK c \in 1 .. Len(input) + 1 : c = at /\ c = at'
    BY <1>2, <2>1
  <2>3. at \in WordEnds(input, a)
    BY <1>2, <1>4, <1>6 DEF WordEnds
  <2>4. Min(WordEnds(input, a)) = at
    <3>1. WordEnds(input, a) \in SUBSET Nat
      BY <1>2 DEF WordEnds
    <3>2. ASSUME NEW y \in WordEnds(input, a), y < at PROVE FALSE
      <4>1. y \in a .. at - 1 /\ input[y] \in Special
        BY <1>2, <3>2 DEF WordEnds
      <4>. QED  BY <1>4, <4>1
    <3>. QED  BY <2>3, <3>1, <3>2, FirstIsMin
  <2>5. TokensFrom(input)[a] = <<WordToken(SubSeq(input, a, at - 1))>> \o TokensFrom(input)[c]
    BY <1>4, <2>2, <2>3, <2>4, FromWord
  <2>6. /\ WordToken(SubSeq(input, a, at - 1)) \in Returned
        /\ tokens' = Append(tokens, WordToken(SubSeq(input, a, at - 1)))
    BY <1>4, <1>5, <2>1, WordTokenText
  <2>7. Ahead(c)'
    BY <1>1, <1>3, <2>5, <2>6, TokenTaken
  <2>. QED  BY <2>1, <2>2, <2>7 DEF TokInv, Ahead
<1>7. CASE Char \notin Special
  <2>1. word' = StoreChar(word, Char) /\ at' = at + 1 /\ UNCHANGED <<state, tokens>>
    BY <1>7 DEF InWord
  <2>2. SubSeq(input, a, at) = Append(SubSeq(input, a, at - 1), Char)
    <3>1. at \in a .. Len(input)
      BY <1>2, <1>4
    <3>2. SubSeq(input, a, at) = SubSeq(input, a, at - 1) \o <<input[at]>>
      BY <1>2, <3>1, SubSeqRecursiveSecond
    <3>. QED  BY <1>2, <1>5, <3>2, AppendIsConcat
  <2>3. word' = Cut(SubSeq(input, a, at))
    BY <1>2, <1>4, <1>5, <2>1, <2>2, CutAppend
  <2>4. Wording(a)'
    <3>1. at' - 1 = at /\ a < at'
      BY <1>2, <1>4, <2>1
    <3>2. \A k \in a .. at : k = at \/ k \in a .. at - 1
      BY <1>2
    <3>3. \A k \in a .. at : input[k] \notin Special
      BY <1>2, <1>4, <1>7, <3>2
    <3>. QED  BY <1>1, <1>4, <2>3, <3>1, <3>3 DEF Wording
  <2>5. Ahead(a)'
    <3>1. Expected' = Expected
      BY <1>1 DEF Expected
    <3>. QED  BY <1>1, <1>3, <2>1, <3>1 DEF Ahead
  <2>. QED  BY <1>1, <2>1, <2>4, <2>5 DEF TokInv
<1>. QED  BY <1>6, <1>7

LEMMA TokInQuote == ASSUME LexInv, TokInv, InQuote PROVE TokInv'
<1>1. /\ More /\ state = "INQUOTE" /\ UNCHANGED input
      /\ \E a \in 1 .. Len(input) : Ahead(a) /\ Quoting(a)
  BY DEF InQuote, TokInv
<1>2. /\ at \in 1 .. Len(input) /\ Char = input[at] /\ Char \in Alphabet
      /\ at + 1 \in 1 .. Len(input) + 1 /\ Len(input) \in Nat /\ input \in Seq(Alphabet)
  BY <1>1, CharFacts, ReadingFacts
<1>3. PICK a \in 1 .. Len(input) : Ahead(a) /\ Quoting(a)
  BY <1>1
<1>4. /\ a < at /\ input[a] = "quote" /\ a \in Nat /\ at \in Nat /\ at > a
      /\ \A k \in a + 1 .. at - 1 : input[k] = "quote" => Escaped(input, a, k)
      /\ ~Escaped(input, a, at) /\ word = Cut(Quoted(input, a, at))
  BY <1>2, <1>3 DEF Quoting
<1>5. Quoted(input, a, at) \in Seq(Alphabet)
  BY <1>2, <1>4, QuotedText
<1>6. ASSUME UNCHANGED <<state, tokens>>, Quoting(a)' PROVE TokInv'
  <2>1. Expected' = Expected
    BY <1>1 DEF Expected
  <2>2. Ahead(a)'
    BY <1>1, <1>3, <1>6, <2>1 DEF Ahead
  <2>. QED  BY <1>1, <1>6, <2>2 DEF TokInv
<1>7. CASE Char = "backslash" /\ at = Len(input)
  <2>1. at' = at + 1 /\ UNCHANGED <<state, tokens>>
    BY <1>7 DEF InQuote
  <2>2. at' > Len(input') /\ a < at' /\ \A k \in a + 1 .. at' - 1 : k = at \/ k \in a + 1 .. at - 1
    BY <1>1, <1>2, <1>4, <1>7, <2>1
  <2>3. \A k \in a + 1 .. at' - 1 : input[k] = "quote" => Escaped(input, a, k)
    BY <1>2, <1>4, <1>7, <2>2
  <2>4. ~(at' <= Len(input'))
    BY <1>1, <1>2, <1>7, <2>1
  <2>5. Quoting(a)'
    BY <1>1, <1>4, <2>2, <2>3, <2>4 DEF Quoting
  <2>. QED  BY <1>6, <2>1, <2>5
<1>8. CASE Char = "backslash" /\ at # Len(input)
  <2>1. at' = at + 2 /\ UNCHANGED <<state, tokens>> /\ word' = StoreChar(word, input[at + 1])
    BY <1>8 DEF InQuote
  <2>2. PICK k \in 1 .. Len(input) : k = at + 1 /\ k \in Nat /\ k > a /\ at' = k + 1
    BY <1>2, <1>4, <1>8, <2>1
  <2>3. input[k] \in Alphabet
    BY <1>2, ElementOfSeq
  <2>4. Escaped(input, a, k)
    BY <1>2, <1>4, <1>8, <2>2, EscapedNext
  <2>5. ~Escaped(input, a, k + 1)
    BY <1>4, <2>2, <2>4, EscapedNext
  <2>6. Quoted(input, a, k) = Quoted(input, a, at)
    BY <1>2, <1>4, <1>8, <2>2, QuotedNext
  <2>7. Quoted(input, a, k + 1) = Append(Quoted(input, a, at), input[k])
    BY <1>2, <1>4, <2>2, <2>4, <2>6, QuotedNext
  <2>8. word' = Cut(Quoted(input, a, k + 1))
    BY <1>4, <1>5, <2>1, <2>2, <2>3, <2>7, CutAppend
  <2>9. a < at' /\ \A m \in a + 1 .. at' - 1 : m = k \/ m = at \/ m \in a + 1 .. at - 1
    BY <1>2, <1>4, <2>2
  <2>10. \A m \in a + 1 .. at' - 1 : input[m] = "quote" => Escaped(input, a, m)
    BY <1>2, <1>4, <1>8, <2>4, <2>9
  <2>11. Quoting(a)'
    BY <1>1, <1>4, <2>2, <2>5, <2>8, <2>9, <2>10 DEF Quoting
  <2>. QED  BY <1>6, <2>1, <2>11
<1>9. CASE Char = "quote"
  <2>1. /\ tokens' = Append(tokens, Token("T_WORD", StoreChar(word, Nul)))
        /\ at' = at + 1 /\ state' = "NEUTRAL" /\ word' = <<>>
    BY <1>9 DEF InQuote, Return
  <2>2. PICK c \in 1 .. Len(input) + 1 : c = at + 1 /\ c = at'
    BY <1>2, <2>1
  <2>3. at \in QuoteEnds(input, a)
    <3>1. at \in a + 1 .. Len(input)
      BY <1>2, <1>4
    <3>2. input[at] = "quote" /\ ~Escaped(input, a, at)
      BY <1>4, <1>9 DEF Char
    <3>. QED  BY <3>1, <3>2 DEF QuoteEnds
  <2>4. Min(QuoteEnds(input, a)) = at
    <3>1. QuoteEnds(input, a) \in SUBSET Nat
      BY <1>2 DEF QuoteEnds
    <3>2. ASSUME NEW y \in QuoteEnds(input, a), y < at PROVE FALSE
      <4>1. y \in a + 1 .. at - 1 /\ input[y] = "quote" /\ ~Escaped(input, a, y)
        BY <1>2, <3>2 DEF QuoteEnds
      <4>. QED  BY <1>4, <4>1
    <3>. QED  BY <2>3, <3>1, <3>2, FirstIsMin
  <2>5. TokensFrom(input)[a] = <<WordToken(Quoted(input, a, at))>> \o TokensFrom(input)[c]
    BY <1>4, <2>2, <2>3, <2>4, FromQuote
  <2>6. /\ WordToken(Quoted(input, a, at)) \in Returned
        /\ tokens' = Append(tokens, WordToken(Quoted(input, a, at)))
    BY <1>4, <1>5, <2>1, WordTokenText
  <2>7. Ahead(c)'
    BY <1>1, <1>3, <2>5, <2>6, TokenTaken
  <2>. QED  BY <2>1, <2>2, <2>7 DEF TokInv, Ahead
<1>10. CASE Char \notin {"backslash", "quote"}
  <2>1. at' = at + 1 /\ UNCHANGED <<state, tokens>> /\ word' = StoreChar(word, Char)
    BY <1>10 DEF InQuote
  <2>2. Quoted(input, a, at + 1) = Append(Quoted(input, a, at), Char)
    BY <1>2, <1>4, <1>10, QuotedNext
  <2>3. ~Escaped(input, a, at + 1)
    BY <1>2, <1>4, <1>10, EscapedNext
  <2>4. word' = Cut(Quoted(input, a, at + 1))
    BY <1>2, <1>4, <1>5, <2>1, <2>2, CutAppend
  <2>5. a < at' /\ \A m \in a + 1 .. at' - 1 : m = at \/ m \in a + 1 .. at - 1
    BY <1>2, <1>4, <2>1
  <2>6. \A m \in a + 1 .. at' - 1 : input[m] = "quote" => Escaped(input, a, m)
    BY <1>2, <1>4, <1>10, <2>5
  <2>7. Quoting(a)'
    BY <1>1, <1>4, <2>1, <2>3, <2>4, <2>5, <2>6 DEF Quoting
  <2>. QED  BY <1>6, <2>1, <2>7
<1>. QED  BY <1>7, <1>8, <1>9, <1>10

(* The end of the input is said by one more token; what was begun is not one *)
(* of the reference either.                                                  *)
LEMMA TokEnd == ASSUME LexInv, TokInv, End PROVE TokInv'
<1>1. /\ state # "ended" /\ at > Len(input) /\ state' = "ended" /\ UNCHANGED input
      /\ \E t \in Returned : tokens' = Append(tokens, t)
  BY PlainReturned DEF End, Kinds
<1>2. /\ Len(input) \in Nat /\ at = Len(input) + 1 /\ tokens \in Seq(Returned)
      /\ input \in Seq(Alphabet)
  BY <1>1, ReadingFacts
<1>3. \E a : Ahead(a) /\ TokensFrom(input)[a] = <<>>
  <2>1. CASE state = "NEUTRAL"
    <3>1. Ahead(at)
      BY <2>1 DEF TokInv
    <3>2. TokensFrom(input)[at] = FromPlace(input, TokensFrom(input), at)
      BY ReadingFacts
    <3>3. FromPlace(input, TokensFrom(input), at) = <<>>
      BY <1>1 DEF FromPlace
    <3>. QED  BY <3>1, <3>2, <3>3
  <2>2. CASE state = "GTGT"
    <3>1. at > 1 /\ input[at - 1] = ">" /\ Ahead(at - 1)
      BY <2>2 DEF TokInv
    <3>2. PICK b \in 1 .. Len(input) : b = at - 1 /\ b = Len(input)
      BY <1>2, <3>1
    <3>. QED  BY <3>1, <3>2, FromGt
  <2>3. CASE state = "INQUOTE"
    <3>1. PICK a \in 1 .. Len(input) : Ahead(a) /\ Quoting(a)
      BY <2>3 DEF TokInv
    <3>2. \A k \in a + 1 .. at - 1 : input[k] = "quote" => Escaped(input, a, k)
      BY <3>1 DEF Quoting
    <3>3. QuoteEnds(input, a) = {}
      BY <1>2, <3>2 DEF QuoteEnds
    <3>. QED  BY <3>1, <3>3, FromQuote DEF Quoting
  <2>4. CASE state = "INWORD"
    <3>1. PICK a \in 1 .. Len(input) : Ahead(a) /\ Wording(a)
      BY <2>4 DEF TokInv
    <3>2. \A k \in a .. at - 1 : input[k] \notin Special
      BY <3>1 DEF Wording
    <3>3. WordEnds(input, a) = {}
      BY <1>2, <3>2 DEF WordEnds
    <3>. QED  BY <3>1, <3>3, FromWord DEF Wording
  <2>. QED  BY <1>1, <2>1, <2>2, <2>3, <2>4 DEF LexInv, States
<1>4. tokens = Expected
  BY <1>2, <1>3, ConcatEmptySeq DEF Ahead
<1>5. PICK t \in Returned : tokens' = Append(tokens, t)
  BY <1>1
<1>6. Front(Append(tokens, t)) = tokens
  <2>1. /\ Append(tokens, t) \in Seq(Returned) /\ Len(Append(tokens, t)) - 1 = Len(tokens)
        /\ Len(tokens) \in Nat
        /\ \A n \in 1 .. Len(tokens) : Append(tokens, t)[n] = tokens[n]
    BY <1>2, AppendProperties, LenProperties
  <2>2. \A n \in 1 .. Len(tokens) : tokens[n] \in Returned
    BY <1>2, ElementOfSeq
  <2>3. /\ SubSeq(Append(tokens, t), 1, Len(tokens)) \in Seq(Returned)
        /\ Len(SubSeq(Append(tokens, t), 1, Len(tokens))) = Len(tokens)
        /\ \A n \in 1 .. Len(tokens) :
              SubSeq(Append(tokens, t), 1, Len(tokens))[n] = Append(tokens, t)[n]
    BY <2>1, <2>2, SubSeqProperties
  <2>4. SubSeq(Append(tokens, t), 1, Len(tokens)) = tokens
    BY <1>2, <2>1, <2>3, SeqEqual
  <2>. QED  BY <2>1, <2>4 DEF Front
<1>7. Expected' = Expected
  BY <1>1 DEF Expected
<1>. QED  BY <1>1, <1>4, <1>5, <1>6, <1>7 DEF TokInv

LEMMA TokNext == LexInv /\ TokInv /\ [Next]_vars => TokInv'
<1>. SUFFICES ASSUME LexInv, TokInv, [Next]_vars PROVE TokInv'
  OBVIOUS
<1>1. CASE UNCHANGED vars
  <2>1. UNCHANGED <<input, at, state, word, tokens>>
    BY <1>1 DEF vars
  <2>. QED  BY <2>1 DEF TokInv, Ahead, Expected, Quoting, Wording
<1>. QED  BY <1>1, TokNeutral, TokGtGt, TokInQuote, TokInWord, TokEnd DEF Next

-----------------------------------------------------------------------------
(* The tokens gettoken() has returned so far are the first of those that the *)
(* reference finds in the whole input, and at its end all of them: for every *)
(* input, with one character put back at most and a buffer of any size.      *)
THEOREM ReferenceCorrect == Spec => []MatchesReference
<1>1. ASSUME LexInv, NEW a, Ahead(a) PROVE IsPrefix(tokens, Expected)
  <2>1. /\ tokens \in Seq(Returned) /\ a \in 1 .. Len(input) + 2
        /\ TokensFrom(input)[a] \in Seq(Returned)
    BY <1>1, ReadingFacts DEF Ahead
  <2>2. PICK rest \in Seq(Returned) : rest = TokensFrom(input)[a] /\ tokens \o rest = Expected
    BY <1>1, <2>1 DEF Ahead
  <2>3. /\ tokens \o rest \in Seq(Returned) /\ Len(tokens) \in Nat /\ Len(rest) \in Nat
        /\ Len(tokens \o rest) = Len(tokens) + Len(rest)
    BY <2>1, ConcatProperties, LenProperties
  <2>4. SubSeq(tokens \o rest, 1, Len(tokens)) = SubSeq(tokens, 1, Len(tokens))
    <3>1. \A n \in 1 .. Len(tokens) : (tokens \o rest)[n] = tokens[n] /\ tokens[n] \in Returned
      BY <2>1, <2>3, ConcatProperties, ElementOfSeq
    <3>2. /\ SubSeq(tokens \o rest, 1, Len(tokens)) \in Seq(Returned)
          /\ Len(SubSeq(tokens \o rest, 1, Len(tokens))) = Len(tokens)
          /\ \A n \in 1 .. Len(tokens) :
                SubSeq(tokens \o rest, 1, Len(tokens))[n] = (tokens \o rest)[n]
      BY <2>3, <3>1, SubSeqProperties
    <3>3. SubSeq(tokens \o rest, 1, Len(tokens)) = tokens
      BY <2>1, <3>1, <3>2, SeqEqual
    <3>. QED  BY <2>1, <3>3, SubSeqFull
  <2>. QED  BY <2>2, <2>3, <2>4 DEF IsPrefix
<1>2. LexInv /\ TokInv => MatchesReference
  BY <1>1 DEF TokInv, MatchesReference, LexInv, States
<1>. QED  BY <1>2, LexInit, LexNext, TokInit, TokNext, PTL DEF Spec

=============================================================================
