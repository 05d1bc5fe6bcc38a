---------------------------- MODULE Normalization ----------------------------
(***************************************************************************)
(* What the program does to text: normalisation and validation, shared by  *)
(* the read and the write path, the cache key, the keys a flush deletes,   *)
(* and the LIKE pattern of a prefix.                                       *)
(*                                                                         *)
(* A text is a sequence of characters.  What Python's tables say about     *)
(* characters is given by constants: of NFC only the composition, since    *)
(* the constants name no character that decomposes into others.            *)
(***************************************************************************)
EXTENDS Naturals, SequencesExt

CONSTANTS
    Lower,             \* Lower[c]: the lower-case form of the characters that have one
    Composed,          \* Composed[<<c, m>>]: the one character for c and the mark m
    Blank,             \* the blanks
    Control,           \* the characters of category Cc
    MaxPrefixLength,   \* max_prefix_length
    MaxQueryLength     \* max_query_length

ASSUME LengthAssumption ==
    /\ MaxPrefixLength \in Nat \ {0}
    /\ MaxQueryLength \in Nat \ {0}

-----------------------------------------------------------------------------
IsText(t) == t = [i \in 1..Len(t) |-> t[i]] /\ Len(t) \in Nat

LowerChar(c) == IF c \in DOMAIN Lower THEN Lower[c] ELSE c

LowerCase(t) == [i \in DOMAIN t |-> LowerChar(t[i])]

\* A mark joins the character before it, if it can.
Compose(s, c) ==
    IF s # <<>> /\ <<Last(s), c>> \in DOMAIN Composed
    THEN Append(Front(s), Composed[<<Last(s), c>>])
    ELSE Append(s, c)

\* unicodedata.normalize("NFC", t)
Nfc(t) ==
    LET composed[i \in 0..Len(t)] ==
        IF i = 0 THEN <<>> ELSE Compose(composed[i - 1], t[i])
    IN composed[Len(t)]

Space == " "

\* Blanks count once, and not at the beginning.
TakeChar(s, c) ==
    IF c \notin Blank THEN Append(s, c)
    ELSE IF s = <<>> \/ Last(s) = Space THEN s ELSE Append(s, Space)

\* strip() and " ".join(split()): single blanks between words, none around them.
SingleBlanks(t) ==
    LET taken[i \in 0..Len(t)] == IF i = 0 THEN <<>> ELSE TakeChar(taken[i - 1], t[i])
        words == taken[Len(t)]
    IN IF words # <<>> /\ Last(words) = Space THEN Front(words) ELSE words

normalize_text(raw) == SingleBlanks(LowerCase(Nfc(raw)))

\* validate_text accepts the input: what is left is neither empty nor too long nor unfit
\* to be stored.
IsValid(raw, max_length) ==
    LET text == normalize_text(raw)
    IN text # <<>> /\ Len(text) <= max_length /\ \A i \in DOMAIN text : text[i] \notin Control

\* What GET /suggest looks up: the handler normalises to validate, the service again.
PrefixOf(raw) == normalize_text(normalize_text(raw))

\* What POST /search records.
QueryOf(raw) == normalize_text(raw)

suggestion_cache_key(prefix) == <<"suggestion", prefix>>

\* Faulty: range(1, n) instead of range(1, n + 1).
InvalidatedKeysBelow(queries) ==
    UNION {{suggestion_cache_key(SubSeq(q, 1, i)) : i \in 1..Min({Len(q), MaxPrefixLength}) - 1} :
              q \in queries}

\* _invalidate_cache: the keys of all prefixes of the queries, up to the longest prefix.
InvalidatedKeys(queries) ==
    UNION {{suggestion_cache_key(SubSeq(q, 1, i)) : i \in 1..Min({Len(q), MaxPrefixLength})} :
              q \in queries}

-----------------------------------------------------------------------------
(* LIKE.                                                                   *)

\* t.replace(c, "\\" + c)
Escaped(t, c) == FlattenSeq([i \in DOMAIN t |-> IF t[i] = c THEN <<"\\", c>> ELSE <<t[i]>>])

\* Faulty: the backslashes that escape are escaped themselves.
EscapeLikeBackslashLast(prefix) == Escaped(Escaped(Escaped(prefix, "%"), "_"), "\\")

escape_like(prefix) == Escaped(Escaped(Escaped(prefix, "\\"), "%"), "_")

\* PostgreSQL: text LIKE pattern ESCAPE '\'.  A character of the pattern is taken as it is
\* when a backslash before it says so and is none that is taken as it is itself; at[j]: where
\* in the text the pattern from j on matches the rest.
Like(text, pattern) ==
    \E asItIs \in SUBSET DOMAIN pattern :
        /\ \A j \in DOMAIN pattern :
              j \in asItIs <=> j > 1 /\ pattern[j - 1] = "\\" /\ j - 1 \notin asItIs
        /\ \E at \in [1..(Len(pattern) + 1) -> 1..(Len(text) + 1)] :
              /\ at[1] = 1 /\ at[Len(pattern) + 1] = Len(text) + 1
              /\ \A j \in DOMAIN pattern :
                    CASE j \notin asItIs /\ pattern[j] = "\\" -> at[j + 1] = at[j]
                      [] j \notin asItIs /\ pattern[j] = "%"  -> at[j + 1] >= at[j]
                      [] j \notin asItIs /\ pattern[j] = "_"  -> at[j + 1] = at[j] + 1
                      [] OTHER -> at[j + 1] = at[j] + 1 /\ text[at[j]] = pattern[j]

\* WHERE query LIKE :pattern
StartsWith(query, prefix) == Like(query, Append(escape_like(prefix), "%"))

=============================================================================
