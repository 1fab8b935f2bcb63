-------------------------------- MODULE Lexer --------------------------------
(****************************************************************************)
(* gettoken() and store_char() of communication/shell.c: the characters of   *)
(* stdin, read one by one with one ungetc() at most, become the tokens that  *)
(* command() reads (module Shell starts from those).                         *)
(*                                                                           *)
(* Characters are named; every one that is nothing special to gettoken() is  *)
(* like "a".  A word is what is in the buffer of the caller, with the NUL at *)
(* its end when there was room for it.                                       *)
(****************************************************************************)
EXTENDS Integers, SequencesExt

CONSTANTS Alphabet,   \* the characters that are typed
          MaxWord,    \* the size of the buffer, MAXWORD or MAXFNAME
          MaxInput    \* bound: the characters of an input

Special == {";", "&", "|", "<", ">", "newline", "blank"}
Nul == "nul"

ASSUME AlphabetAssumption == Nul \notin Alphabet
ASSUME MaxWordAssumption == MaxWord \in Nat \ {0}
ASSUME MaxInputAssumption == MaxInput \in Nat

VARIABLES
    input,    \* all that will be read from stdin
    at,       \* the place of the next character
    state,    \* of gettoken(); "ended" after the end of the input
    word,     \* the buffer up to wordn
    tokens    \* the tokens returned so far

vars == <<input, at, state, word, tokens>>

Token(kind, text) == [kind |-> kind, text |-> text]
Plain == [c \in {";", "&", "|", "<", "newline"} |->
            CASE c = ";" -> "T_SEMI" [] c = "&" -> "T_AMP" [] c = "|" -> "T_BAR"
              [] c = "<" -> "T_LT" [] OTHER -> "T_NL"]

Init ==
    /\ input \in UNION {[1 .. n -> Alphabet] : n \in 0 .. MaxInput}
    /\ at = 1
    /\ state = "NEUTRAL" /\ word = <<>> /\ tokens = <<>>

(* Mutant: "*np > maxword". *)
StoreChar_OffByOne(w, c) == IF Len(w) > MaxWord THEN w ELSE Append(w, c)

(* A character that has no room is dropped, and so is the NUL. *)
StoreChar(w, c) == IF Len(w) >= MaxWord THEN w ELSE Append(w, c)

Char == input[at]
More == state # "ended" /\ at <= Len(input)

Return(token) ==
    /\ tokens' = Append(tokens, token)
    /\ state' = "NEUTRAL" /\ word' = <<>>

(* case NEUTRAL *)
Neutral ==
    /\ More /\ state = "NEUTRAL"
    /\ at' = at + 1
    /\ \/ /\ Char \in DOMAIN Plain
          /\ Return(Token(Plain[Char], <<>>))
       \/ /\ Char = "blank"
          /\ UNCHANGED <<state, word, tokens>>
       \/ /\ Char = ">"
          /\ state' = "GTGT"
          /\ UNCHANGED <<word, tokens>>
       \/ /\ Char = "quote"
          /\ state' = "INQUOTE"
          /\ UNCHANGED <<word, tokens>>
       \/ /\ Char \notin Special \cup {"quote"}
          /\ state' = "INWORD"
          /\ word' = StoreChar(word, Char)
          /\ UNCHANGED tokens
    /\ UNCHANGED input

(* case GTGT, with ungetc() of what is not a second ">" *)
GtGt ==
    /\ More /\ state = "GTGT"
    /\ IF Char = ">"
       THEN at' = at + 1 /\ Return(Token("T_GTGT", <<>>))
       ELSE UNCHANGED at /\ Return(Token("T_GT", <<>>))
    /\ UNCHANGED input

(* case INQUOTE; a backslash takes the next character as it is *)
InQuote ==
    /\ More /\ state = "INQUOTE"
    /\ \/ /\ Char = "backslash"
          /\ word' = StoreChar(word, IF at = Len(input) THEN "backslash" ELSE input[at + 1])
          /\ at' = IF at = Len(input) THEN at + 1 ELSE at + 2
          /\ UNCHANGED <<state, tokens>>
       \/ /\ Char = "quote"
          /\ Return(Token("T_WORD", StoreChar(word, Nul)))
          /\ at' = at + 1
       \/ /\ Char \notin {"backslash", "quote"}
          /\ word' = StoreChar(word, Char)
          /\ at' = at + 1
          /\ UNCHANGED <<state, tokens>>
    /\ UNCHANGED input

(* Mutant: the character that ends the word is not put back. *)
InWord_NoUngetc ==
    /\ More /\ state = "INWORD"
    /\ IF Char \in Special
       THEN at' = at + 1 /\ Return(Token("T_WORD", StoreChar(word, Nul)))
       ELSE /\ word' = StoreChar(word, Char)
            /\ at' = at + 1
            /\ UNCHANGED <<state, tokens>>
    /\ UNCHANGED input

(* case INWORD, with ungetc() of what ends the word *)
InWord ==
    /\ More /\ state = "INWORD"
    /\ IF Char \in Special
       THEN UNCHANGED at /\ Return(Token("T_WORD", StoreChar(word, Nul)))
       ELSE /\ word' = StoreChar(word, Char)
            /\ at' = at + 1
            /\ UNCHANGED <<state, tokens>>
    /\ UNCHANGED input

(* getchar() returned EOF: T_ERROR at the end of the input and T_EOF when    *)
(* there was an error.  A word, or a ">", that was begun is lost.            *)
End ==
    /\ state # "ended" /\ at > Len(input)
    /\ \E ferror \in BOOLEAN :
          tokens' = Append(tokens, Token(IF ferror THEN "T_EOF" ELSE "T_ERROR", <<>>))
    /\ state' = "ended" /\ word' = <<>>
    /\ UNCHANGED <<input, at>>

Next == Neutral \/ GtGt \/ InQuote \/ InWord \/ End

Spec == Init /\ [][Next]_vars

-----------------------------------------------------------------------------
(* What the tokens of a text s are, from where each begins and ends *)

(* Is the character at k, in quotes that begin at a, behind a backslash that *)
(* is not itself behind one? *)
Backslashes(s, a, k) == {j \in a + 1 .. k - 1 : \A m \in j .. k - 1 : s[m] = "backslash"}
Escaped(s, a, k) == Cardinality(Backslashes(s, a, k)) % 2 = 1

QuoteEnds(s, a) == {b \in a + 1 .. Len(s) : s[b] = "quote" /\ ~Escaped(s, a, b)}
WordEnds(s, a)  == {b \in a + 1 .. Len(s) : s[b] \in Special}

(* The place in K that has n of K up to it. *)
Nth(K, n) == CHOOSE k \in K : Cardinality({j \in K : j <= k}) = n

(* What is between the quotes at a and b without the backslashes that escape. *)
Kept(s, a, b) == {k \in a + 1 .. b - 1 : s[k] = "backslash" => Escaped(s, a, k)}
Quoted(s, a, b) ==
    LET K == Kept(s, a, b) IN [n \in 1 .. Cardinality(K) |-> s[Nth(K, n)]]

(* As much of a text as there is room for, and a word with the NUL behind it. *)
Cut(text) == SubSeq(text, 1, IF Len(text) < MaxWord THEN Len(text) ELSE MaxWord)
WordToken(text) == Token("T_WORD", Cut(Append(text, Nul)))

(* The tokens from place a on, given those from each later place on. *)
FromPlace(s, later, a) ==
    IF a > Len(s) THEN <<>>
    ELSE CASE s[a] = "blank" -> later[a + 1]
           [] s[a] \in DOMAIN Plain -> <<Token(Plain[s[a]], <<>>)>> \o later[a + 1]
           [] s[a] = ">" ->
                IF a = Len(s) THEN <<>>
                ELSE IF s[a + 1] = ">" THEN <<Token("T_GTGT", <<>>)>> \o later[a + 2]
                ELSE <<Token("T_GT", <<>>)>> \o later[a + 1]
           [] s[a] = "quote" ->
                IF QuoteEnds(s, a) = {} THEN <<>>
                ELSE LET b == Min(QuoteEnds(s, a))
                     IN  <<WordToken(Quoted(s, a, b))>> \o later[b + 1]
           [] OTHER ->
                IF WordEnds(s, a) = {} THEN <<>>
                ELSE LET b == Min(WordEnds(s, a))
                     IN  <<WordToken(SubSeq(s, a, b - 1))>> \o later[b]

TokensFrom(s) ==
    LET from[a \in 1 .. Len(s) + 2] == FromPlace(s, from, a) IN from

(* The tokens of the input, but for the last one, which says that it ends. *)
Expected == TokensFrom(input)[1]

-----------------------------------------------------------------------------
(* Properties *)

TypeOK ==
    /\ input \in Seq(Alphabet)
    /\ at \in 1 .. Len(input) + 1
    /\ state \in {"NEUTRAL", "GTGT", "INQUOTE", "INWORD", "ended"}
    /\ word \in Seq(Alphabet) /\ Len(word) <= MaxWord
    /\ \A n \in 1 .. Len(tokens) :
          tokens[n].text \in Seq(Alphabet \cup {Nul}) /\ Len(tokens[n].text) <= MaxWord

(* What gettoken() returns, one character of lookahead and one buffer per    *)
(* call, is what the whole input says: where each token begins and ends, what *)
(* quotes and backslashes keep in a word, and what of a word too long is left, *)
(* its NUL included.  Up to the end of the input no character is in two      *)
(* tokens or in none.                                                        *)
MatchesReference ==
    IF state = "ended" THEN Front(tokens) = Expected ELSE IsPrefix(tokens, Expected)

=============================================================================
