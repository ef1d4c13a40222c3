----------------------------- MODULE Tokenizer -----------------------------
(***************************************************************************)
(* src/Tokenizer.cpp, by which documents and queries (QueryParser::parse)  *)
(* are cut into the same terms.  Bytes are looked at one by one, so a byte *)
(* outside ASCII separates like a space.                                   *)
(***************************************************************************)
EXTENDS Integers, Sequences, SequencesExt, FiniteSets

CONSTANTS
    TermLower,  \* tolower of each byte that isalnum accepts; no other is in its domain
    Stopwords

\* tolower makes letters and digits of letters and digits, and changes nothing twice.
ASSUME LowerAssumption ==
    \A c \in DOMAIN TermLower :
        TermLower[c] \in DOMAIN TermLower /\ TermLower[TermLower[c]] = TermLower[c]

isalnum(c) == c \in DOMAIN TermLower

\* What has been gathered becomes a token at a separator and at the end.
PushedEmpty(tokens, temp) == IF temp \notin Stopwords THEN Append(tokens, temp) ELSE tokens
Pushed(tokens, temp) ==
    IF temp \notin Stopwords /\ temp # <<>> THEN Append(tokens, temp) ELSE tokens

CharRead(s, c) ==
    IF isalnum(c) THEN [s EXCEPT !.temp = Append(@, TermLower[c])]
    ELSE [tokens |-> Pushed(s.tokens, s.temp), temp |-> <<>>]

getstrs(text) ==
    LET after[n \in 0..Len(text)] ==
            IF n = 0 THEN [tokens |-> <<>>, temp |-> <<>>] ELSE CharRead(after[n - 1], text[n])
        end == after[Len(text)]
    IN  Pushed(end.tokens, end.temp)

-----------------------------------------------------------------------------
\* A word is a longest run of letters and digits.
WordStarts(text, i) == isalnum(text[i]) /\ (i = 1 \/ ~isalnum(text[i - 1]))
WordEnds(text, i, j) ==
    /\ \A k \in i..j : isalnum(text[k])
    /\ j = Len(text) \/ ~isalnum(text[j + 1])

\* The word that starts at i, in lower case.
WordAt(text, i) ==
    LET last == CHOOSE j \in i..Len(text) : WordEnds(text, i, j)
    IN  [k \in 1..(last - i + 1) |-> TermLower[text[i + k - 1]]]

\* All words in their order, as often as they occur, without the stop words.
WordsOf(text) ==
    LET upTo[n \in 0..Len(text)] ==
            IF n = 0 THEN <<>>
            ELSE IF WordStarts(text, n) /\ WordAt(text, n) \notin Stopwords
                 THEN Append(upTo[n - 1], WordAt(text, n))
                 ELSE upTo[n - 1]
    IN  upTo[Len(text)]

\* The terms are these words; and to cut them again changes nothing: a document found
\* by a term is found by what the term is shown as.
TokensRight(text) ==
    /\ getstrs(text) = WordsOf(text)
    /\ \A k \in DOMAIN getstrs(text) : getstrs(getstrs(text)[k]) = <<getstrs(text)[k]>>
=============================================================================
