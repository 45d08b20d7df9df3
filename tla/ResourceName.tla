---------------------------- MODULE ResourceName ----------------------------
(***************************************************************************)
(* SanitizeResourceName: the Kubernetes name of an upstream object.        *)
(*                                                                         *)
(* A name is a sequence of characters.  Of a character only this matters:  *)
(* what lower-casing makes of it, whether the result is one of a-z and     *)
(* 0-9, and its place in the byte order.                                   *)
(***************************************************************************)
EXTENDS Naturals, FiniteSets, Sequences, SequencesExt

CONSTANTS
    Char,             \* characters in byte order, a sequence
    AlphaNum,         \* those among a-z and 0-9
    Lower,            \* strings.ToLower on a character
    Hash(_),          \* the first nameHashLength hex digits of SHA-256
    maxK8sNameLength,
    nameHashLength

Chars == {Char[i] : i \in 1..Len(Char)}

(* An alphabet with a dash and an x, on which lower-casing settles at once. *)
ASSUME NameAssumption ==
    /\ Char \in Seq(Chars) /\ \A i, j \in 1..Len(Char) : i # j => Char[i] # Char[j]
    /\ AlphaNum \subseteq Chars
    /\ "-" \in Chars \ AlphaNum /\ "x" \in AlphaNum
    /\ Lower \in [Chars -> Chars]
    /\ \A c \in Chars : /\ Lower[Lower[c]] = Lower[c]
                        /\ c \in AlphaNum \cup {"-"} => Lower[c] = c
    /\ maxK8sNameLength \in Nat /\ nameHashLength \in Nat \ {0}
    /\ nameHashLength + 2 <= maxK8sNameLength

TrimLeft(s) ==
    IF \E i \in 1..Len(s) : s[i] # "-"
    THEN SubSeq(s, CHOOSE i \in 1..Len(s) :
                       s[i] # "-" /\ \A j \in 1..(i - 1) : s[j] = "-", Len(s))
    ELSE <<>>

TrimRight(s) ==
    IF \E i \in 1..Len(s) : s[i] # "-"
    THEN SubSeq(s, 1, CHOOSE i \in 1..Len(s) :
                          s[i] # "-" /\ \A j \in (i + 1)..Len(s) : s[j] = "-")
    ELSE <<>>

(* A turn of buildBaseName: what has been built, and whether no dash may follow. *)
WriteRune(acc, r) ==
    IF r \in AlphaNum  THEN [b |-> Append(acc.b, r), lastDash |-> FALSE]
    ELSE IF acc.lastDash THEN acc
    ELSE [b |-> Append(acc.b, "-"), lastDash |-> TRUE]

(* What the loop has built after each character. *)
Built(lowered) ==
    LET acc[i \in 0..Len(lowered)] ==
            IF i = 0 THEN [b |-> <<>>, lastDash |-> TRUE]
            ELSE WriteRune(acc[i - 1], lowered[i])
    IN  acc

buildBaseName(lowered) == Built(lowered)[Len(lowered)].b

shortHash(original) == Hash(original)
IsHash(h) == h \in [1..nameHashLength -> AlphaNum]

\* Mutant: no room is kept for the dash before the hash.
maxBaseLenNoDash == maxK8sNameLength - nameHashLength

maxBaseLen == maxK8sNameLength - nameHashLength - 1

\* Mutant: the limit itself counts as too long.
FitsBelow(s) == Len(s) < maxK8sNameLength

Fits(s) == Len(s) <= maxK8sNameLength

(* A name that is not empty and fits stays; others carry a hash of the original. *)
finalizeSanitizedName(sanitized, original) ==
    LET suffix  == shortHash(original)
        cut     == TrimRight(SubSeq(sanitized, 1, maxK8sNameLength))
        trimmed == IF Len(cut) > maxBaseLen
                   THEN TrimRight(SubSeq(cut, 1, maxBaseLen)) ELSE cut
    IN  IF sanitized = <<>>          THEN <<"x", "-">> \o suffix
        ELSE IF Fits(sanitized)      THEN sanitized
        ELSE IF maxK8sNameLength < nameHashLength + 2 THEN suffix
        ELSE (IF trimmed = <<>> THEN <<"x">> ELSE trimmed) \o <<"-">> \o suffix

Lowered(s) == [i \in DOMAIN s |-> Lower[s[i]]]

SanitizeResourceName(name) ==
    finalizeSanitizedName(TrimLeft(TrimRight(buildBaseName(Lowered(name)))), name)

Place(c) == CHOOSE i \in 1..Len(Char) : Char[i] = c

(* sort.Strings: byte order, a prefix first. *)
Before(s, t) ==
    \/ IsStrictPrefix(s, t)
    \/ \E i \in 1..Len(s) : /\ i <= Len(t)
                            /\ SubSeq(s, 1, i - 1) = SubSeq(t, 1, i - 1)
                            /\ Place(s[i]) < Place(t[i])

-----------------------------------------------------------------------------
(* A DNS-1123 like name: words of a-z and 0-9 with single dashes between. *)
IsResourceName(s) ==
    /\ Len(s) \in 1..maxK8sNameLength
    /\ \A i \in 1..Len(s) : s[i] \in AlphaNum \cup {"-"}
    /\ s[1] # "-" /\ s[Len(s)] # "-"
    /\ \A i \in 1..(Len(s) - 1) : s[i] # "-" \/ s[i + 1] # "-"

(***************************************************************************)
(* The reference definition: of the lowered name, keep the alphanumeric    *)
(* characters, and as a dash the first character of each gap between two   *)
(* of them.                                                                *)
(***************************************************************************)
Word(s, i) == s[i] \in AlphaNum

Gap(s, i) == /\ ~Word(s, i) /\ i > 1 /\ Word(s, i - 1)
             /\ \E j \in (i + 1)..Len(s) : Word(s, j)

Kept(s) == {i \in 1..Len(s) : Word(s, i) \/ Gap(s, i)}

(* How many of a set of positions come up to i. *)
Rank(positions, i) == Cardinality({j \in positions : j <= i})

WordsJoined(name) ==
    LET s == Lowered(name)
        Position(n) == CHOOSE i \in Kept(s) : Rank(Kept(s), i) = n
    IN  [n \in 1..Cardinality(Kept(s)) |-> IF Word(s, Position(n)) THEN s[Position(n)] ELSE "-"]

=============================================================================
