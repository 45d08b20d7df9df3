--------------------------- MODULE TransformProofs ---------------------------
(***************************************************************************)
(* Proofs about names, about TCP and UDP sections and about the HTTP       *)
(* section: for every alphabet and every limit on names, for sections and  *)
(* configurations of any size and names of any length.                     *)
(*                                                                         *)
(*   Induction and loops    what the proofs about loops rest on            *)
(*   Names                  SanitizedIsName                                *)
(*   Words                  LoopJoinsWords                                 *)
(*   Numerals and ports     PortSurvivesName                               *)
(*   TCP and UDP            RouteSafety, UniformSafety, DangleSafety       *)
(*   HTTP                   the sanitized section, converted services and  *)
(*                          routes, from end to end                        *)
(*                                                                         *)
(* A reconciled section: routes read the port off the name of a Service,   *)
(* so its invariant says that they do, and that a Service of a name that   *)
(* reads as a port has that port; then a Service may be replaced under the *)
(* routes that name it.                                                    *)
(*                                                                         *)
(* The HTTP section: the names done are exactly those that have a spec,    *)
(* none of them comes after one still to do, and under each Kubernetes     *)
(* name is the rewritten spec of the last of its names so far.             *)
(***************************************************************************)
EXTENDS HTTPTransform, StreamReconcile, SequenceTheorems, FiniteSetTheorems,
        WellFoundedInduction, TLAPS


-----------------------------------------------------------------------------
(***************************************************************************)
(* Induction and loops.  What holds for 0 and goes from i - 1 to i holds   *)
(* up to any bound, and a loop whose steps are total runs to its end; with *)
(* sets and functions in the place of predicates and operators.            *)
(***************************************************************************)

(* Every set of natural numbers that is not empty has a least element. *)
LEMMA LeastOf ==
    ASSUME NEW T, T \subseteq Nat, T # {}
    PROVE  \E m \in T : \A k \in T : m <= k
  <1> DEFINE R == OpToRel(<, Nat)
  <1>1. \A x \in Nat, y \in Nat : y < x => <<y, x>> \in R
    BY Zenon DEF OpToRel
  <1>2. IsWellFoundedOn(R, Nat)
    BY NatLessThanWellFounded, Zenon
  <1> HIDE DEF R
  <1>3. PICK x \in T : \A y \in T : ~ (<<y, x>> \in R)
    BY <1>2, WFMin
  <1>4. \A y \in T : x \in Nat /\ y \in Nat /\ ~(y < x)
    BY <1>1, <1>3
  <1>5. \A y \in T : x <= y
    BY <1>4
  <1> QED
    BY <1>5

(* Induction up to a bound, with a set in the place of a predicate. *)
LEMMA UpTo ==
    ASSUME NEW n \in Nat, NEW T, 0 \in T,
           \A i \in 1..n : i - 1 \in T => i \in T
    PROVE  \A i \in 0..n : i \in T
  <1> DEFINE Bad == {i \in 0..n : i \notin T}
  <1> SUFFICES ASSUME Bad # {} PROVE FALSE
    OBVIOUS
  <1>1. PICK m \in Bad : \A k \in Bad : m <= k
    <2>1. Bad \subseteq Nat
      OBVIOUS
    <2> HIDE DEF Bad
    <2> QED
      BY <2>1, LeastOf
  <1>2. m \in 1..n /\ m \notin T
    BY <1>1
  <1>3. m - 1 \in 0..n /\ ~(m <= m - 1)
    BY <1>2
  <1>4. m - 1 \in T
    BY <1>1, <1>3
  <1> QED
    BY <1>2, <1>4

(* g has the values of a loop over n turns, from c, with a step F for each turn. *)
Loop(g, n, S, c, F) ==
    g \in [0..n -> S] /\ g[0] = c /\ \A i \in 1..n : g[i] = F[i][g[i - 1]]

(* A loop whose steps stay in S runs to its end: what a recursive function
   over 0..n needs in order to have the values its definition says. *)
LEMMA LoopExists ==
    ASSUME NEW n \in Nat, NEW S, NEW c \in S, NEW F \in [1..n -> [S -> S]]
    PROVE  \E g : Loop(g, n, S, c, F)
  <1> DEFINE Runs(m, g) == g[0] = c /\ \A i \in 1..m : g[i] = F[i][g[i - 1]]
             T == {m \in 0..n : \E g \in [0..m -> S] : Runs(m, g)}
  <1>1. 0 \in T
    <2>1. [i \in 0..0 |-> c] \in [0..0 -> S] /\ Runs(0, [i \in 0..0 |-> c])
      OBVIOUS
    <2>2. \E g \in [0..0 -> S] : Runs(0, g)
      BY <2>1, Zenon
    <2> HIDE DEF Runs
    <2> QED
      BY <2>2
  <1>2. ASSUME NEW m \in 1..n, m - 1 \in T PROVE m \in T
    <2>1. PICK g \in [0..(m - 1) -> S] : Runs(m - 1, g)
      BY <1>2, Zenon
    <2> DEFINE h == [i \in 0..m |-> IF i = m THEN F[m][g[m - 1]] ELSE g[i]]
    <2>2. h \in [0..m -> S]
      <3>1. g[m - 1] \in S
        OBVIOUS
      <3>2. F[m][g[m - 1]] \in S
        BY <3>1
      <3>3. \A i \in 0..m : i # m => g[i] \in S
        OBVIOUS
      <3> QED
        BY <3>2, <3>3
    <2>3. Runs(m, h)
      <3>1. h[0] = c
        BY <2>1
      <3>2. \A i \in 1..m : h[i - 1] = g[i - 1]
        OBVIOUS
      <3>3. \A i \in 1..(m - 1) : h[i] = F[i][g[i - 1]]
        <4>1. \A i \in 1..(m - 1) : i \in 0..m /\ i # m
          OBVIOUS
        <4> QED
          BY <2>1, <4>1
      <3>4. h[m] = F[m][g[m - 1]]
        OBVIOUS
      <3>5. \A i \in 1..m : i = m \/ i \in 1..(m - 1)
        OBVIOUS
      <3> HIDE DEF h
      <3> QED
        BY <3>1, <3>2, <3>3, <3>4, <3>5
    <2>4. \E f \in [0..m -> S] : Runs(m, f)
      BY <2>2, <2>3, Zenon
    <2> HIDE DEF Runs
    <2> QED
      BY <2>4
  <1>3. n \in T
    <2> HIDE DEF T
    <2>1. \A i \in 0..n : i \in T
      BY <1>1, <1>2, UpTo
    <2> QED
      BY <2>1
  <1>4. PICK g \in [0..n -> S] : Runs(n, g)
    BY <1>3
  <1>5. Loop(g, n, S, c, F)
    BY <1>4 DEF Loop
  <1> QED
    BY <1>5

-----------------------------------------------------------------------------
(***************************************************************************)
(* Names: whatever SanitizeResourceName returns is a name Kubernetes       *)
(* accepts.                                                                *)
(***************************************************************************)

(* The accumulator of buildBaseName. *)
Accs == [b : Seq(AlphaNum \cup {"-"}), lastDash : BOOLEAN]

(* A turn of the loop keeps the accumulator in its type. *)
LEMMA WriteRuneType ==
    ASSUME NEW acc \in Accs, NEW r
    PROVE  WriteRune(acc, r) \in Accs
  BY DEF WriteRune, Accs

(* The loop of buildBaseName runs to its end. *)
LEMMA BuiltEquation ==
    ASSUME NEW s \in Seq(Chars)
    PROVE  /\ Built(s)[0] = [b |-> <<>>, lastDash |-> TRUE]
           /\ \A i \in 1..Len(s) : Built(s)[i] = WriteRune(Built(s)[i - 1], s[i])
  <1> DEFINE n == Len(s)
             c == [b |-> <<>>, lastDash |-> TRUE]
             F == [i \in 1..n |-> [acc \in Accs |-> WriteRune(acc, s[i])]]
             Eq(g) == g = [i \in 0..n |-> IF i = 0 THEN c ELSE WriteRune(g[i - 1], s[i])]
  <1>1. n \in Nat /\ c \in Accs
    BY DEF Accs
  <1>2. F \in [1..n -> [Accs -> Accs]]
    BY WriteRuneType
  <1>3. PICK g : Loop(g, n, Accs, c, F)
    <2> HIDE DEF F, c, n
    <2> QED
      BY <1>1, <1>2, LoopExists
  <1>0. g \in [0..n -> Accs] /\ g[0] = c /\ \A i \in 1..n : g[i] = F[i][g[i - 1]]
    <2> HIDE DEF F, c, n
    <2> QED
      BY <1>3 DEF Loop
  <1>4. \A i \in 1..n : g[i] = WriteRune(g[i - 1], s[i])
    <2> SUFFICES ASSUME NEW i \in 1..n PROVE g[i] = WriteRune(g[i - 1], s[i])
      OBVIOUS
    <2>1. i - 1 \in 0..n
      BY <1>1
    <2>2. g[i - 1] \in Accs
      BY <1>0, <2>1
    <2> HIDE DEF n
    <2> QED
      BY <1>0, <2>2
  <1>5. Eq(g)
    <2> HIDE DEF c, n
    <2>1. \A i \in 0..n : i = 0 \/ i \in 1..n
      BY <1>1
    <2> QED
      BY <1>0, <1>4, <2>1
  <1>6. Built(s) = CHOOSE h : Eq(h)
    BY DEF Built
  <1>7. Eq(Built(s))
    <2> HIDE DEF Eq
    <2> QED
      BY <1>5, <1>6, Zenon
  <1> QED
    <2> HIDE DEF c, n
    <2>1. 0 \in 0..n /\ \A i \in 1..n : i \in 0..n /\ i # 0
      BY <1>1
    <2>2. Built(s)[0] = c
      BY <1>7, <2>1
    <2>3. \A i \in 1..n : Built(s)[i] = WriteRune(Built(s)[i - 1], s[i])
      BY <1>7, <2>1
    <2> QED
      BY <2>2, <2>3 DEF c, n

(* Words with single dashes between and perhaps after them. *)
Clean(b) ==
    /\ b \in Seq(AlphaNum \cup {"-"})
    /\ b # <<>> => b[1] # "-"
    /\ \A i \in 1..(Len(b) - 1) : b[i] # "-" \/ b[i + 1] # "-"

(* No dash may follow. *)
EndsInDash(b) == b = <<>> \/ b[Len(b)] = "-"

(* What the loop has built is clean, and lastDash says whether a dash may follow. *)
AccInv(acc) ==
    /\ acc \in Accs
    /\ Clean(acc.b)
    /\ acc.lastDash <=> EndsInDash(acc.b)

(* A text with a character after it. *)
LEMMA AppendFacts ==
    ASSUME NEW S, NEW b \in Seq(S), NEW c \in S
    PROVE  /\ Append(b, c) \in Seq(S) /\ Len(Append(b, c)) = Len(b) + 1
           /\ Len(b) \in Nat
           /\ \A i \in 1..Len(b) : Append(b, c)[i] = b[i]
           /\ Append(b, c)[Len(b) + 1] = c
           /\ Append(b, c) # <<>>
  OBVIOUS

(* A word may grow by any character, and by a dash unless it ends in one. *)
LEMMA AppendClean ==
    ASSUME NEW b, Clean(b), NEW c \in AlphaNum \cup {"-"},
           c = "-" => ~EndsInDash(b)
    PROVE  Clean(Append(b, c)) /\ (EndsInDash(Append(b, c)) <=> c = "-")
  <1> DEFINE S == AlphaNum \cup {"-"}
             d == Append(b, c)
  <1>1. b \in Seq(S)
    BY DEF Clean
  <1>2. /\ d \in Seq(S) /\ Len(d) = Len(b) + 1 /\ Len(b) \in Nat
        /\ \A i \in 1..Len(b) : d[i] = b[i]
        /\ d[Len(b) + 1] = c /\ d # <<>>
    <2> HIDE DEF S
    <2>1. c \in S
      BY DEF S
    <2> QED
      BY <1>1, <2>1, AppendFacts
  <1>3. b = <<>> => Len(b) = 0
    OBVIOUS
  <1>4. b # <<>> => Len(b) > 0
    BY <1>1
  <1> HIDE DEF S, d
  <1>5. EndsInDash(d) <=> c = "-"
    BY <1>2 DEF EndsInDash
  <1>6. d[1] # "-"
    <2>1. CASE b = <<>>
      BY <1>2, <1>3, <2>1 DEF EndsInDash
    <2>2. CASE b # <<>>
      <3>1. b[1] # "-" /\ 1 \in 1..Len(b)
        BY <1>2, <1>4, <2>2 DEF Clean
      <3> QED
        BY <1>2, <3>1
    <2> QED
      BY <2>1, <2>2
  <1>7. \A i \in 1..(Len(d) - 1) : d[i] # "-" \/ d[i + 1] # "-"
    <2> SUFFICES ASSUME NEW i \in 1..Len(b), d[i] = "-" PROVE d[i + 1] # "-"
      BY <1>2
    <2>1. CASE i = Len(b)
      <3>1. b[Len(b)] = "-" /\ b # <<>>
        BY <1>2, <1>3, <2>1
      <3> QED
        BY <1>2, <2>1, <3>1 DEF EndsInDash
    <2>2. CASE i # Len(b)
      <3>1. i \in 1..(Len(b) - 1) /\ i + 1 \in 1..Len(b)
        BY <1>2, <2>2
      <3> QED
        BY <1>2, <3>1 DEF Clean
    <2> QED
      BY <2>1, <2>2
  <1>8. Clean(d)
    BY <1>2, <1>6, <1>7 DEF Clean, S
  <1> QED
    BY <1>5, <1>8 DEF d

(* A turn of the loop keeps what is built clean, and lastDash true of it. *)
LEMMA WriteRuneInv ==
    ASSUME NEW acc, AccInv(acc), NEW r
    PROVE  AccInv(WriteRune(acc, r))
  <1> DEFINE next == WriteRune(acc, r)
  <1>1. next \in Accs
    BY WriteRuneType DEF AccInv
  <1>2. "-" \notin AlphaNum
    BY NameAssumption
  <1>3. CASE r \in AlphaNum
    <2>1. next = [b |-> Append(acc.b, r), lastDash |-> FALSE]
      BY <1>3 DEF WriteRune
    <2>2. Clean(Append(acc.b, r)) /\ ~EndsInDash(Append(acc.b, r))
      BY <1>2, <1>3, AppendClean DEF AccInv
    <2>3. next.b = Append(acc.b, r) /\ ~next.lastDash
      BY <2>1
    <2> HIDE DEF next
    <2>4. AccInv(next)
      BY <1>1, <2>2, <2>3, Zenon DEF AccInv
    <2> QED
      BY <2>4 DEF next
  <1>4. CASE r \notin AlphaNum /\ acc.lastDash
    BY <1>4 DEF WriteRune
  <1>5. CASE r \notin AlphaNum /\ ~acc.lastDash
    <2>1. next = [b |-> Append(acc.b, "-"), lastDash |-> TRUE]
      BY <1>5 DEF WriteRune
    <2>2. Clean(Append(acc.b, "-")) /\ EndsInDash(Append(acc.b, "-"))
      BY <1>5, AppendClean DEF AccInv
    <2>3. next.b = Append(acc.b, "-") /\ next.lastDash
      BY <2>1
    <2> HIDE DEF next
    <2>4. AccInv(next)
      BY <1>1, <2>2, <2>3, Zenon DEF AccInv
    <2> QED
      BY <2>4 DEF next
  <1> QED
    BY <1>3, <1>4, <1>5

(* After every turn what is built is clean. *)
LEMMA BuiltInv ==
    ASSUME NEW s \in Seq(Chars)
    PROVE  \A i \in 0..Len(s) : AccInv(Built(s)[i])
  <1> DEFINE T == {i \in 0..Len(s) : AccInv(Built(s)[i])}
  <1>1. Len(s) \in Nat
    OBVIOUS
  <1>2. 0 \in T
    <2>1. AccInv([b |-> <<>>, lastDash |-> TRUE])
      BY DEF AccInv, Accs, Clean, EndsInDash
    <2>2. AccInv(Built(s)[0])
      BY <2>1, BuiltEquation
    <2> QED
      BY <1>1, <2>2
  <1>3. ASSUME NEW i \in 1..Len(s), i - 1 \in T PROVE i \in T
    <2>1. AccInv(Built(s)[i - 1])
      BY <1>3
    <2>2. AccInv(Built(s)[i])
      BY <2>1, BuiltEquation, WriteRuneInv
    <2> QED
      BY <1>1, <2>2
  <1>4. \A i \in 0..Len(s) : i \in T
    <2> HIDE DEF T
    <2> QED
      BY <1>1, <1>2, <1>3, UpTo
  <1> QED
    BY <1>4

(* Trimming the end stops at the last character that is no dash. *)
LEMMA TrimRightTo ==
    ASSUME NEW S, NEW s \in Seq(S), NEW k \in 1..Len(s), s[k] # "-",
           \A j \in (k + 1)..Len(s) : s[j] = "-"
    PROVE  TrimRight(s) = SubSeq(s, 1, k)
  <1> DEFINE End(i) == s[i] # "-" /\ \A j \in (i + 1)..Len(s) : s[j] = "-"
  <1>1. Len(s) \in Nat
    OBVIOUS
  <1>2. End(k)
    OBVIOUS
  <1>3. \A i \in 1..Len(s) : End(i) => i = k
    <2> SUFFICES ASSUME NEW i \in 1..Len(s), End(i), i # k PROVE FALSE
      OBVIOUS
    <2>1. CASE i < k
      <3>1. k \in (i + 1)..Len(s)
        BY <1>1, <2>1
      <3> QED
        BY <3>1
    <2>2. CASE k < i
      <3>1. i \in (k + 1)..Len(s)
        BY <1>1, <2>2
      <3> QED
        BY <3>1
    <2> QED
      BY <1>1, <2>1, <2>2
  <1>4. k = CHOOSE i \in 1..Len(s) : End(i)
    <2> HIDE DEF End
    <2> QED
      BY <1>2, <1>3
  <1>5. TrimRight(s) = SubSeq(s, 1, CHOOSE i \in 1..Len(s) : End(i))
    BY Zenon DEF TrimRight
  <1> QED
    BY <1>4, <1>5, Zenon

(* A text that does not begin with a dash is left as it is. *)
LEMMA TrimLeftNothing ==
    ASSUME NEW S, NEW s \in Seq(S), s # <<>> => s[1] # "-"
    PROVE  TrimLeft(s) = s
  <1> DEFINE Start(i) == s[i] # "-" /\ \A j \in 1..(i - 1) : s[j] = "-"
  <1>1. Len(s) \in Nat
    OBVIOUS
  <1>2. CASE s = <<>>
    BY <1>2 DEF TrimLeft
  <1>3. CASE s # <<>>
    <2>1. 1 \in 1..Len(s) /\ s[1] # "-"
      BY <1>3
    <2>2. Start(1)
      BY <2>1
    <2>3. \A i \in 1..Len(s) : Start(i) => i = 1
      <3> SUFFICES ASSUME NEW i \in 1..Len(s), Start(i), i # 1 PROVE FALSE
        OBVIOUS
      <3>1. 1 \in 1..(i - 1)
        BY <1>1
      <3> QED
        BY <2>1, <3>1
    <2>4. 1 = CHOOSE i \in 1..Len(s) : Start(i)
      <3> HIDE DEF Start
      <3> QED
        BY <2>1, <2>2, <2>3
    <2>5. TrimLeft(s) = SubSeq(s, CHOOSE i \in 1..Len(s) : Start(i), Len(s))
      BY <2>1, Zenon DEF TrimLeft
    <2>6. TrimLeft(s) = SubSeq(s, 1, Len(s))
      BY <2>4, <2>5, Zenon
    <2> QED
      BY <2>6
  <1> QED
    BY <1>2, <1>3

(* The beginning of a text. *)
LEMMA PrefixFacts ==
    ASSUME NEW S, NEW s \in Seq(S), NEW k \in 0..Len(s)
    PROVE  /\ SubSeq(s, 1, k) \in Seq(S) /\ Len(SubSeq(s, 1, k)) = k
           /\ \A i \in 1..k : SubSeq(s, 1, k)[i] = s[i]
           /\ k \in Nat /\ Len(s) \in Nat
  OBVIOUS

(* A beginning of a clean text is clean. *)
LEMMA PrefixClean ==
    ASSUME NEW b, Clean(b), NEW k \in 0..Len(b)
    PROVE  Clean(SubSeq(b, 1, k))
  <1> DEFINE S == AlphaNum \cup {"-"}
             p == SubSeq(b, 1, k)
  <1>1. b \in Seq(S)
    BY DEF Clean
  <1> HIDE DEF S
  <1>2. /\ p \in Seq(S) /\ Len(p) = k /\ k \in Nat /\ Len(b) \in Nat
        /\ \A i \in 1..k : p[i] = b[i]
    BY <1>1, PrefixFacts
  <1> HIDE DEF p
  <1>3. ASSUME p # <<>> PROVE p[1] # "-"
    <2>1. Len(p) > 0
      BY <1>2, <1>3
    <2>2. 1 \in 1..k /\ Len(b) # 0
      BY <1>2, <2>1
    <2>3. b # <<>>
      BY <2>2
    <2> QED
      BY <1>2, <2>2, <2>3 DEF Clean
  <1>4. \A i \in 1..(Len(p) - 1) : p[i] # "-" \/ p[i + 1] # "-"
    <2> SUFFICES ASSUME NEW i \in 1..(k - 1) PROVE p[i] # "-" \/ p[i + 1] # "-"
      BY <1>2
    <2>1. i \in 1..k /\ i + 1 \in 1..k /\ i \in 1..(Len(b) - 1)
      BY <1>2
    <2> QED
      BY <1>2, <2>1 DEF Clean
  <1> QED
    BY <1>2, <1>3, <1>4 DEF Clean, p, S

(* A text with a length above zero is not empty. *)
LEMMA NotEmpty ==
    ASSUME NEW b, NEW n \in Nat, Len(b) = n, n > 0
    PROVE  b # <<>>
  OBVIOUS

(* Before a dash at the end of a clean text is a character of a word. *)
LEMMA LastButOne ==
    ASSUME NEW n \in Nat, n > 0, n # 1
    PROVE  n - 1 \in 1..n /\ n - 1 \in 1..(n - 1) /\ (n - 1) + 1 = n
  BY Z3

(* Trimming takes at most one dash off. *)
LEMMA TrimRightClean ==
    ASSUME NEW b, Clean(b), b # <<>>
    PROVE  \E k \in 1..Len(b) :
              /\ TrimRight(b) = SubSeq(b, 1, k)
              /\ b[k] # "-" /\ k >= Len(b) - 1
              /\ \A j \in (k + 1)..Len(b) : b[j] = "-"
  <1> DEFINE S == AlphaNum \cup {"-"}
             n == Len(b)
  <1>1. b \in Seq(S) /\ b[1] # "-"
    BY DEF Clean
  <1> HIDE DEF S
  <1>2. n \in Nat /\ n > 0
    BY <1>1
  <1>3. CASE b[n] # "-"
    <2>1. n \in 1..n /\ \A j \in (n + 1)..n : b[j] = "-"
      BY <1>2
    <2>2. TrimRight(b) = SubSeq(b, 1, n)
      BY <1>1, <1>3, <2>1, TrimRightTo
    <2> QED
      BY <1>2, <1>3, <2>1, <2>2
  <1>4. CASE b[n] = "-"
    <2>1. n # 1
      BY <1>1, <1>4
    <2>2. n - 1 \in 1..n /\ n - 1 \in 1..(Len(b) - 1) /\ (n - 1) + 1 = n
      BY <1>2, <2>1, LastButOne, Zenon
    <2>3. b[n - 1] # "-"
      BY <1>4, <2>2 DEF Clean
    <2>4. \A j \in ((n - 1) + 1)..n : j = n
      BY <1>2
    <2> DEFINE m == n - 1
    <2>5. m \in 1..Len(b) /\ b[m] # "-" /\ \A j \in (m + 1)..Len(b) : b[j] = "-"
      BY <1>4, <2>2, <2>3, <2>4, Zenon
    <2>6. m >= Len(b) - 1
      BY <1>2
    <2> HIDE DEF m
    <2>7. TrimRight(b) = SubSeq(b, 1, m)
      BY <1>1, <2>5, TrimRightTo
    <2> QED
      BY <2>5, <2>6, <2>7
  <1> QED
    BY <1>3, <1>4

(* Words of a-z and 0-9 with single dashes between. *)
Joined(w) == Clean(w) /\ w # <<>> /\ w[Len(w)] # "-"

(* Words that fit are a name Kubernetes accepts. *)
LEMMA JoinedIsName ==
    ASSUME NEW w, Joined(w), Len(w) <= maxK8sNameLength
    PROVE  IsResourceName(w)
  <1>1. w \in Seq(AlphaNum \cup {"-"}) /\ Len(w) \in Nat /\ Len(w) > 0
    BY DEF Joined, Clean
  <1>2. \A i \in 1..Len(w) : w[i] \in AlphaNum \cup {"-"}
    BY <1>1
  <1>3. Len(w) \in 1..maxK8sNameLength
    BY <1>1, NameAssumption
  <1> QED
    BY <1>2, <1>3 DEF IsResourceName, Joined, Clean

(* What is left of a clean text, trimmed, is empty only if the text is. *)
LEMMA TrimmedJoined ==
    ASSUME NEW b, Clean(b), b # <<>>
    PROVE  /\ Joined(TrimRight(b))
           /\ Len(TrimRight(b)) \in (Len(b) - 1)..Len(b)
           /\ Len(TrimRight(b)) \in 1..Len(b)
           /\ TrimRight(b) = SubSeq(b, 1, Len(TrimRight(b)))
  <1>1. PICK k \in 1..Len(b) :
           TrimRight(b) = SubSeq(b, 1, k) /\ b[k] # "-" /\ k >= Len(b) - 1
    BY TrimRightClean
  <1> DEFINE S == AlphaNum \cup {"-"}
             p == SubSeq(b, 1, k)
  <1>2. b \in Seq(S) /\ Len(b) \in Nat
    BY DEF Clean
  <1> HIDE DEF S
  <1>3. k \in 0..Len(b) /\ k \in 1..k /\ k \in Nat /\ k <= Len(b) /\ k > 0
    BY <1>2
  <1>4. p \in Seq(S) /\ Len(p) = k /\ p[k] = b[k]
    BY <1>2, <1>3, PrefixFacts
  <1>5. Clean(p)
    BY <1>3, PrefixClean
  <1> HIDE DEF p
  <1>6. p # <<>>
    BY <1>3, <1>4
  <1>7. Joined(p)
    BY <1>1, <1>4, <1>5, <1>6 DEF Joined
  <1>8. k \in (Len(b) - 1)..Len(b)
    BY <1>1, <1>2, <1>3
  <1> QED
    BY <1>1, <1>4, <1>7, <1>8 DEF p

(* There is nothing to trim of nothing. *)
LEMMA EmptyTrims == TrimLeft(TrimRight(<<>>)) = <<>>
  BY DEF TrimLeft, TrimRight

(* The words buildBaseName and the trimming leave of a text. *)
LEMMA BaseWords ==
    ASSUME NEW s \in Seq(Chars)
    PROVE  LET b == buildBaseName(s)
               w == TrimLeft(TrimRight(b))
           IN  /\ Clean(b)
               /\ b = <<>> => w = <<>>
               /\ b # <<>> => w = TrimRight(b) /\ Joined(w)
  <1> DEFINE b == buildBaseName(s)
             w == TrimLeft(TrimRight(b))
  <1>1. Clean(b)
    <2>1. Len(s) \in 0..Len(s)
      OBVIOUS
    <2> QED
      BY <2>1, BuiltInv DEF buildBaseName, AccInv
  <1> HIDE DEF b
  <1>2. ASSUME b = <<>> PROVE w = <<>>
    BY <1>2, EmptyTrims
  <1>3. ASSUME b # <<>> PROVE w = TrimRight(b) /\ Joined(w)
    <2>1. Joined(TrimRight(b))
      BY <1>1, <1>3, TrimmedJoined
    <2> DEFINE t == TrimRight(b)
    <2>2. t \in Seq(AlphaNum \cup {"-"}) /\ (t # <<>> => t[1] # "-")
      BY <2>1 DEF Joined, Clean
    <2>3. TrimLeft(t) = t
      <3> HIDE DEF t
      <3> QED
        BY <2>2, TrimLeftNothing
    <2> QED
      BY <2>1, <2>3
  <1> QED
    BY <1>1, <1>2, <1>3 DEF b

(* Two texts, one after the other. *)
LEMMA ConcatFacts ==
    ASSUME NEW S, NEW w \in Seq(S), NEW c \in S, NEW h \in Seq(S)
    PROVE  LET z == w \o <<c>> \o h
           IN  /\ z \in Seq(S) /\ Len(z) = Len(w) + 1 + Len(h)
               /\ \A i \in 1..Len(w) : z[i] = w[i]
               /\ z[Len(w) + 1] = c
               /\ \A j \in 1..Len(h) : z[Len(w) + 1 + j] = h[j]
  OBVIOUS

(* A hash is a text of alphanumeric characters. *)
LEMMA HashFacts ==
    ASSUME NEW h, IsHash(h)
    PROVE  /\ h \in Seq(AlphaNum) /\ Len(h) = nameHashLength
           /\ \A j \in 1..nameHashLength : h[j] \in AlphaNum /\ h[j] # "-"
           /\ nameHashLength \in Nat /\ nameHashLength > 0
  BY NameAssumption DEF IsHash

(* Words, a dash and alphanumeric characters are words again. *)
LEMMA JoinWord ==
    ASSUME NEW w, Joined(w), NEW h \in Seq(AlphaNum), h # <<>>
    PROVE  /\ Joined(w \o <<"-">> \o h)
           /\ Len(w \o <<"-">> \o h) = Len(w) + 1 + Len(h)
           /\ SubSeq(w \o <<"-">> \o h, 1, Len(w)) = w
  <1> DEFINE S == AlphaNum \cup {"-"}
             z == w \o <<"-">> \o h
             n == Len(w)
             m == Len(h)
  <1>1. w \in Seq(S) /\ w # <<>> /\ w[n] # "-" /\ w[1] # "-"
    BY DEF Joined, Clean
  <1>2. h \in Seq(S) /\ "-" \in S
    OBVIOUS
  <1>3. n \in Nat /\ n > 0 /\ m \in Nat /\ m > 0
    BY <1>1
  <1>4. \A j \in 1..m : h[j] # "-"
    BY NameAssumption
  <1> HIDE DEF S
  <1>5. /\ z \in Seq(S) /\ Len(z) = n + 1 + m
        /\ \A i \in 1..n : z[i] = w[i]
        /\ z[n + 1] = "-"
        /\ \A j \in 1..m : z[n + 1 + j] = h[j]
    BY <1>1, <1>2, ConcatFacts
  <1>6. \A i \in 1..(n - 1) : w[i] # "-" \/ w[i + 1] # "-"
    BY DEF Joined, Clean
  <1>7. SubSeq(z, 1, n) = w
    BY <1>1, <1>3, <1>5
  <1> HIDE DEF n, m, z
  <1>8. z # <<>> /\ z[1] # "-"
    BY <1>1, <1>3, <1>5
  <1>9. z[Len(z)] # "-"
    <2>1. m \in 1..m
      BY <1>3
    <2> QED
      BY <1>4, <1>5, <2>1
  <1>10. \A i \in 1..(Len(z) - 1) : z[i] # "-" \/ z[i + 1] # "-"
    <2> SUFFICES ASSUME NEW i \in 1..(n + m) PROVE z[i] # "-" \/ z[i + 1] # "-"
      BY <1>3, <1>5
    <2>1. CASE i < n
      <3>1. i \in 1..(n - 1) /\ i \in 1..n /\ i + 1 \in 1..n
        BY <1>3, <2>1
      <3> QED
        BY <1>5, <1>6, <3>1
    <2>2. CASE i = n
      <3>1. n \in 1..n
        BY <1>3
      <3> QED
        BY <1>1, <1>5, <2>2, <3>1
    <2>3. CASE i > n
      <3>1. i - n \in 1..m /\ i + 1 = n + 1 + (i - n)
        BY <1>3, <2>3
      <3> QED
        BY <1>4, <1>5, <3>1
    <2> QED
      BY <1>3, <2>1, <2>2, <2>3
  <1>11. Joined(z)
    BY <1>5, <1>8, <1>9, <1>10 DEF Joined, Clean, S
  <1> QED
    BY <1>5, <1>7, <1>11 DEF n, m, z

(* The word that stands for a name without any. *)
LEMMA XIsJoined == Joined(<<"x">>) /\ Len(<<"x">>) = 1
  <1>1. "x" \in AlphaNum /\ "x" # "-"
    BY NameAssumption
  <1> QED
    BY <1>1 DEF Joined, Clean

(* A name that is cut: words of all the room there is but for one character. *)
CutName(words, original, key) ==
    \E i \in 1..Len(words) :
        /\ key = SubSeq(words, 1, i) \o <<"-">> \o shortHash(original)
        /\ Joined(SubSeq(words, 1, i))
        /\ i \in (maxBaseLen - 1)..maxBaseLen

(* finalizeSanitizedName: a hash after an x, the words as they are, or as
   much of them as fits before a hash. *)
LEMMA FinalCases ==
    ASSUME NEW words, words = <<>> \/ Joined(words), NEW name, IsHash(shortHash(name))
    PROVE  LET key == finalizeSanitizedName(words, name)
           IN  /\ words = <<>> => key = <<"x", "-">> \o shortHash(name)
               /\ words # <<>> /\ Len(words) <= maxK8sNameLength => key = words
               /\ words # <<>> /\ Len(words) > maxK8sNameLength => CutName(words, name, key)
  <1> DEFINE suffix == shortHash(name)
             key == finalizeSanitizedName(words, name)
             max == maxK8sNameLength
             first == SubSeq(words, 1, max)
             cut == TrimRight(first)
             second == SubSeq(cut, 1, maxBaseLen)
             trimmed == TrimRight(second)
  <1>0. /\ max \in Nat /\ nameHashLength \in Nat /\ nameHashLength > 0
        /\ nameHashLength + 2 <= max /\ ~(max < nameHashLength + 2)
        /\ maxBaseLen \in Nat /\ maxBaseLen >= 1 /\ maxBaseLen <= max - 2
    BY NameAssumption DEF maxBaseLen
  <1>1. ASSUME words = <<>> PROVE key = <<"x", "-">> \o suffix
    BY <1>1 DEF finalizeSanitizedName
  <1>2. ASSUME words # <<>>, Len(words) <= max PROVE key = words
    BY <1>2 DEF finalizeSanitizedName, Fits
  <1>3. ASSUME words # <<>>, Len(words) > max PROVE CutName(words, name, key)
    <2>1. Clean(words) /\ words \in Seq(AlphaNum \cup {"-"}) /\ Len(words) \in Nat
      BY <1>3 DEF Joined, Clean
    <2>2. max \in 0..Len(words)
      BY <1>0, <1>3, <2>1
    <2>3. Clean(first) /\ Len(first) = max
      BY <2>1, <2>2, PrefixClean, PrefixFacts
    <2>4. first # <<>>
      <3> HIDE DEF first
      <3>1. max > 0
        BY <1>0
      <3> QED
        BY <1>0, <2>3, <3>1, NotEmpty
    <2>5. /\ Joined(cut) /\ Len(cut) \in (max - 1)..max /\ cut = SubSeq(first, 1, Len(cut))
          /\ Len(cut) \in 1..max
      <3> HIDE DEF first, max
      <3> QED
        BY <2>3, <2>4, TrimmedJoined
    <2>6. cut = SubSeq(words, 1, Len(cut))
      BY <2>1, <2>2, <2>3, <2>5
    <2>7. Clean(cut) /\ cut \in Seq(AlphaNum \cup {"-"})
      BY <2>5 DEF Joined, Clean
    <2>8. maxBaseLen \in 0..Len(cut) /\ Len(cut) > maxBaseLen
      BY <1>0, <2>5
    <2>9. Clean(second) /\ Len(second) = maxBaseLen
      <3> HIDE DEF cut
      <3> QED
        BY <2>7, <2>8, PrefixClean, PrefixFacts
    <2>10. second # <<>>
      <3> HIDE DEF second
      <3>1. maxBaseLen > 0
        BY <1>0
      <3> QED
        BY <1>0, <2>9, <3>1, NotEmpty
    <2>11. /\ Joined(trimmed) /\ Len(trimmed) \in (maxBaseLen - 1)..maxBaseLen
           /\ trimmed = SubSeq(second, 1, Len(trimmed)) /\ Len(trimmed) \in 1..maxBaseLen
      <3> HIDE DEF second
      <3> QED
        BY <2>9, <2>10, TrimmedJoined
    <2>12. trimmed # <<>>
      BY <2>11 DEF Joined
    <2>13. key = trimmed \o <<"-">> \o suffix
      <3>1. ~Fits(words)
        BY <1>0, <1>3, <2>1 DEF Fits
      <3>2. key = (IF (IF Len(cut) > maxBaseLen THEN trimmed ELSE cut) = <<>> THEN <<"x">>
                   ELSE IF Len(cut) > maxBaseLen THEN trimmed ELSE cut) \o <<"-">> \o suffix
        BY <1>0, <1>3, <3>1, Zenon DEF finalizeSanitizedName
      <3> HIDE DEF trimmed, cut
      <3> QED
        BY <2>8, <2>12, <3>2
    <2>14. trimmed = SubSeq(words, 1, Len(trimmed)) /\ Len(trimmed) \in 1..Len(words)
      <3> DEFINE i == Len(trimmed)
                 c == Len(cut)
      <3>1. i \in 1..maxBaseLen /\ c \in 1..max /\ trimmed = SubSeq(second, 1, i)
            /\ cut = SubSeq(words, 1, c) /\ c > maxBaseLen
        BY <2>5, <2>6, <2>8, <2>11
      <3> HIDE DEF i, c, trimmed, cut, max
      <3>2. i \in 1..c /\ c \in 1..Len(words) /\ i \in 1..Len(words)
        BY <1>0, <2>2, <3>1
      <3>3. second = SubSeq(words, 1, maxBaseLen)
        BY <1>0, <2>1, <3>1, <3>2
      <3>4. SubSeq(second, 1, i) = SubSeq(words, 1, i)
        BY <1>0, <2>1, <3>1, <3>2, <3>3
      <3> QED
        BY <3>1, <3>2, <3>4 DEF i
    <2> HIDE DEF trimmed, key
    <2> QED
      BY <2>11, <2>13, <2>14 DEF CutName
  <1> QED
    BY <1>1, <1>2, <1>3

(* Lower-casing goes character by character. *)
LEMMA LoweredType ==
    ASSUME NEW name \in Seq(Chars)
    PROVE  /\ Lowered(name) \in Seq(Chars) /\ Len(Lowered(name)) = Len(name)
           /\ \A i \in 1..Len(name) : Lowered(name)[i] = Lower[name[i]]
  <1>1. Lower \in [Chars -> Chars]
    BY NameAssumption
  <1> QED
    BY <1>1 DEF Lowered

(* Whatever a name is, SanitizeResourceName makes words of it that fit. *)
LEMMA SanitizedIsJoined ==
    ASSUME NEW name \in Seq(Chars), IsHash(shortHash(name))
    PROVE  Joined(SanitizeResourceName(name)) /\ Len(SanitizeResourceName(name)) <= maxK8sNameLength
  <1> DEFINE b == buildBaseName(Lowered(name))
             words == TrimLeft(TrimRight(b))
             key == SanitizeResourceName(name)
             h == shortHash(name)
  <1>1. words = <<>> \/ Joined(words)
    BY LoweredType, BaseWords
  <1>2. key = finalizeSanitizedName(words, name)
    BY DEF SanitizeResourceName
  <1>3. /\ h \in Seq(AlphaNum) /\ Len(h) = nameHashLength
        /\ nameHashLength \in Nat /\ nameHashLength > 0
        /\ maxK8sNameLength \in Nat /\ nameHashLength + 2 <= maxK8sNameLength
    BY HashFacts, NameAssumption
  <1>4. h # <<>>
    BY <1>3
  <1> SUFFICES Joined(key) /\ Len(key) <= maxK8sNameLength
    OBVIOUS
  <1> HIDE DEF words, h, key
  <1>5. CASE words = <<>>
    <2>1. key = <<"x", "-">> \o h
      BY <1>1, <1>2, <1>5, FinalCases DEF h
    <2>2. <<"x", "-">> = <<"x">> \o <<"-">>
      OBVIOUS
    <2>3. key = <<"x">> \o <<"-">> \o h
      BY <2>1, <2>2
    <2>4. Joined(key) /\ Len(key) = 1 + 1 + nameHashLength
      BY <1>3, <1>4, <2>3, JoinWord, XIsJoined
    <2> QED
      BY <1>3, <2>4
  <1>6. CASE words # <<>> /\ Len(words) <= maxK8sNameLength
    BY <1>1, <1>2, <1>3, <1>6, FinalCases DEF h
  <1>7. CASE words # <<>> /\ ~(Len(words) <= maxK8sNameLength)
    <2>1. Len(words) \in Nat
      BY <1>1, <1>7 DEF Joined, Clean
    <2>2. CutName(words, name, key)
      BY <1>1, <1>2, <1>3, <1>7, <2>1, FinalCases DEF h
    <2>3. PICK i \in 1..Len(words) :
             /\ key = SubSeq(words, 1, i) \o <<"-">> \o h
             /\ Joined(SubSeq(words, 1, i))
             /\ i \in (maxBaseLen - 1)..maxBaseLen
      BY <2>2 DEF CutName, h
    <2>4. Len(SubSeq(words, 1, i)) = i
      BY <1>1, <1>7, <2>1, PrefixFacts DEF Joined, Clean
    <2>5. Joined(key) /\ Len(key) = i + 1 + nameHashLength
      BY <1>3, <1>4, <2>3, <2>4, JoinWord
    <2>6. Len(key) <= maxK8sNameLength
      BY <1>3, <2>3, <2>5 DEF maxBaseLen
    <2> QED
      BY <2>5, <2>6
  <1> QED
    BY <1>5, <1>6, <1>7

(* Whatever a name is, Kubernetes accepts what SanitizeResourceName makes of it. *)
THEOREM SanitizedIsName ==
    ASSUME NEW name \in Seq(Chars), IsHash(shortHash(name))
    PROVE  IsResourceName(SanitizeResourceName(name))
  BY SanitizedIsJoined, JoinedIsName

-----------------------------------------------------------------------------
(***************************************************************************)
(* Words: the loop of buildBaseName writes the words of a name, joined by  *)
(* dashes, and nothing else.                                               *)
(***************************************************************************)

(* Counting the positions up to i: by one at each of them. *)
LEMMA RankFacts ==
    ASSUME NEW n \in Nat, NEW P, P \subseteq 1..n
    PROVE  /\ Rank(P, 0) = 0
           /\ \A i \in 0..n : Rank(P, i) \in Nat
           /\ \A i \in 1..n : Rank(P, i) = IF i \in P THEN Rank(P, i - 1) + 1 ELSE Rank(P, i - 1)
           /\ \A i, j \in 0..n : i < j /\ j \in P => Rank(P, i) < Rank(P, j)
           /\ \A i, j \in 0..n : i <= j => Rank(P, i) <= Rank(P, j)
           /\ \A i \in P : Rank(P, i) >= 1
  <1> DEFINE Low(i) == {j \in P : j <= i}
  <1>1. IsFiniteSet(1..n) /\ 0 \in Int /\ n \in Int
    BY FS_Interval
  <1>2. IsFiniteSet(P)
    BY <1>1, FS_Subset
  <1>3. \A i \in 0..n : IsFiniteSet(Low(i)) /\ Cardinality(Low(i)) \in Nat
    <2> SUFFICES ASSUME NEW i \in 0..n PROVE IsFiniteSet(Low(i)) /\ Cardinality(Low(i)) \in Nat
      OBVIOUS
    <2>1. Low(i) \in SUBSET P
      OBVIOUS
    <2> HIDE DEF Low
    <2> QED
      BY <1>2, <2>1, FS_Subset, FS_CardinalityType
  <1>0. \A j \in P : j \in Int /\ j >= 1 /\ j <= n
    OBVIOUS
  <1>4. Low(0) = {}
    <2>1. \A j \in P : ~(j <= 0)
      BY <1>0
    <2> QED
      BY <2>1
  <1>5. \A i \in 1..n : i \in P => Low(i) = Low(i - 1) \cup {i} /\ i \notin Low(i - 1)
    <2> SUFFICES ASSUME NEW i \in 1..n, i \in P
                 PROVE  Low(i) = Low(i - 1) \cup {i} /\ i \notin Low(i - 1)
      OBVIOUS
    <2>1. \A j \in P : j <= i <=> (j <= i - 1 \/ j = i)
      BY <1>0
    <2>2. ~(i <= i - 1) /\ i <= i
      OBVIOUS
    <2> QED
      BY <2>1, <2>2
  <1>6. \A i \in 1..n : i \notin P => Low(i) = Low(i - 1)
    <2> SUFFICES ASSUME NEW i \in 1..n, i \notin P PROVE Low(i) = Low(i - 1)
      OBVIOUS
    <2>1. \A j \in P : j <= i <=> j <= i - 1
      BY <1>0
    <2> QED
      BY <2>1
  <1>7. \A i, j \in 0..n : i <= j => Low(i) \in SUBSET Low(j)
    <2> SUFFICES ASSUME NEW i \in 0..n, NEW j \in 0..n, i <= j, NEW k \in P, k <= i
                 PROVE  k <= j
      OBVIOUS
    <2> QED
      BY <1>0
  <1>8. \A i \in 0..n : Rank(P, i) = Cardinality(Low(i))
    BY DEF Rank
  <1>9. \A i \in 1..n : i \in 0..n /\ i - 1 \in 0..n
    OBVIOUS
  <1> HIDE DEF Low
  <1>10. Rank(P, 0) = 0
    BY <1>4, <1>8, FS_EmptySet
  <1>11. \A i \in 0..n : Rank(P, i) \in Nat
    BY <1>3, <1>8
  <1>12. \A i \in 1..n : Rank(P, i) = IF i \in P THEN Rank(P, i - 1) + 1 ELSE Rank(P, i - 1)
    <2> SUFFICES ASSUME NEW i \in 1..n
                 PROVE  Rank(P, i) = IF i \in P THEN Rank(P, i - 1) + 1 ELSE Rank(P, i - 1)
      OBVIOUS
    <2>1. Rank(P, i) = Cardinality(Low(i)) /\ Rank(P, i - 1) = Cardinality(Low(i - 1))
          /\ IsFiniteSet(Low(i - 1))
      BY <1>3, <1>8, <1>9
    <2>2. CASE i \in P
      BY <1>5, <2>1, <2>2, FS_AddElement
    <2>3. CASE i \notin P
      BY <1>6, <2>1, <2>3
    <2> QED
      BY <2>2, <2>3
  <1>13. \A i, j \in 0..n : i <= j => Rank(P, i) <= Rank(P, j)
    <2> SUFFICES ASSUME NEW i \in 0..n, NEW j \in 0..n, i <= j PROVE Rank(P, i) <= Rank(P, j)
      OBVIOUS
    <2>1. IsFiniteSet(Low(j)) /\ Low(i) \in SUBSET Low(j)
      BY <1>3, <1>7
    <2> QED
      BY <1>8, <2>1, FS_Subset
  <1>14. \A i, j \in 0..n : i < j /\ j \in P => Rank(P, i) < Rank(P, j)
    <2> SUFFICES ASSUME NEW i \in 0..n, NEW j \in 0..n, i < j, j \in P PROVE Rank(P, i) < Rank(P, j)
      OBVIOUS
    <2>1. j \in 1..n /\ j - 1 \in 0..n /\ i <= j - 1
      OBVIOUS
    <2>2. Rank(P, i) <= Rank(P, j - 1) /\ Rank(P, j) = Rank(P, j - 1) + 1
      BY <1>12, <1>13, <2>1
    <2>3. Rank(P, i) \in Nat /\ Rank(P, j - 1) \in Nat
      BY <1>11, <2>1
    <2> QED
      BY <2>2, <2>3
  <1>15. \A i \in P : Rank(P, i) >= 1
    <2> SUFFICES ASSUME NEW i \in P PROVE Rank(P, i) >= 1
      OBVIOUS
    <2>1. i \in 0..n /\ 0 \in 0..n /\ 0 < i
      OBVIOUS
    <2>2. Rank(P, 0) < Rank(P, i) /\ Rank(P, i) \in Nat
      BY <1>11, <1>14, <2>1
    <2> QED
      BY <1>10, <2>2
  <1> QED
    BY <1>10, <1>11, <1>12, <1>13, <1>14, <1>15

(* The positions at which the loop of buildBaseName writes. *)
Taken(s) == {i \in 1..Len(s) : Word(s, i) \/ (i > 1 /\ Word(s, i - 1))}

(* What the loop writes there. *)
Spelled(s, i) == IF Word(s, i) THEN s[i] ELSE "-"

(* What the loop has written after i characters. *)
Spells(s, i) ==
    LET b == Built(s)[i].b IN
    /\ Len(b) = Rank(Taken(s), i)
    /\ \A j \in Taken(s) : j <= i => b[Rank(Taken(s), j)] = Spelled(s, j)
    /\ \A n \in 1..Len(b) : \E j \in Taken(s) : j <= i /\ Rank(Taken(s), j) = n

(* A turn of the loop writes at the positions in Taken and at no other. *)
LEMMA TurnWrites ==
    ASSUME NEW s \in Seq(Chars), NEW i \in 1..Len(s)
    PROVE  /\ Built(s)[i].b = IF i \in Taken(s) THEN Append(Built(s)[i - 1].b, Spelled(s, i))
                              ELSE Built(s)[i - 1].b
           /\ Built(s)[i].lastDash <=> ~Word(s, i)
  <1> DEFINE L == {j \in 0..Len(s) : Built(s)[j].lastDash <=> (j = 0 \/ ~Word(s, j))}
  <1>1. Len(s) \in Nat
    OBVIOUS
  <1>2. 0 \in L
    BY <1>1, BuiltEquation
  <1>3. \A j \in 1..Len(s) : j \in 0..Len(s) /\ j # 0 /\ j - 1 \in 0..Len(s)
    OBVIOUS
  <1>4. ASSUME NEW j \in 1..Len(s), j - 1 \in L PROVE j \in L
    <2>1. Built(s)[j] = WriteRune(Built(s)[j - 1], s[j])
      BY BuiltEquation
    <2>2. CASE Word(s, j)
      <3>1. ~Built(s)[j].lastDash
        BY <2>1, <2>2 DEF WriteRune, Word
      <3> QED
        BY <1>3, <2>2, <3>1
    <2>3. CASE ~Word(s, j)
      <3>1. Built(s)[j].lastDash
        BY <2>1, <2>3 DEF WriteRune, Word
      <3> QED
        BY <1>3, <2>3, <3>1
    <2> QED
      BY <2>2, <2>3
  <1>5. \A j \in 0..Len(s) : j \in L
    <2> HIDE DEF L
    <2> QED
      BY <1>1, <1>2, <1>4, UpTo
  <1>6. Built(s)[i] = WriteRune(Built(s)[i - 1], s[i])
    BY BuiltEquation
  <1>7. Built(s)[i - 1].lastDash <=> (i - 1 = 0 \/ ~Word(s, i - 1))
    BY <1>3, <1>5
  <1>8. Built(s)[i].lastDash <=> ~Word(s, i)
    BY <1>3, <1>5
  <1>9. i \in Taken(s) <=> Word(s, i) \/ ~(i - 1 = 0 \/ ~Word(s, i - 1))
    BY <1>1 DEF Taken
  <1>10. Built(s)[i].b = IF i \in Taken(s) THEN Append(Built(s)[i - 1].b, Spelled(s, i))
                         ELSE Built(s)[i - 1].b
    <2>1. CASE Word(s, i)
      BY <1>6, <1>9, <2>1 DEF WriteRune, Word, Spelled
    <2>2. CASE ~Word(s, i) /\ Built(s)[i - 1].lastDash
      BY <1>6, <1>7, <1>9, <2>2 DEF WriteRune, Word
    <2>3. CASE ~Word(s, i) /\ ~Built(s)[i - 1].lastDash
      BY <1>6, <1>7, <1>9, <2>3 DEF WriteRune, Word, Spelled
    <2> QED
      BY <2>1, <2>2, <2>3
  <1> QED
    BY <1>8, <1>10

(* After every turn the loop has written the positions taken so far, in order. *)
LEMMA LoopSpells ==
    ASSUME NEW s \in Seq(Chars)
    PROVE  \A i \in 0..Len(s) : Spells(s, i)
  <1> DEFINE P == Taken(s)
             n == Len(s)
             T == {i \in 0..n : Spells(s, i)}
  <1>1. n \in Nat /\ P \subseteq 1..n
    BY DEF Taken
  <1> HIDE DEF P, n
  <1>2. /\ Rank(P, 0) = 0
        /\ \A i \in 0..n : Rank(P, i) \in Nat
        /\ \A i \in 1..n : Rank(P, i) = IF i \in P THEN Rank(P, i - 1) + 1 ELSE Rank(P, i - 1)
        /\ \A i, j \in 0..n : i < j /\ j \in P => Rank(P, i) < Rank(P, j)
        /\ \A i, j \in 0..n : i <= j => Rank(P, i) <= Rank(P, j)
        /\ \A i \in P : Rank(P, i) >= 1
    BY <1>1, RankFacts
  <1>3. \A j \in P : j \in Int /\ j >= 1 /\ j <= n /\ j \in 0..n
    BY <1>1
  <1>4. 0 \in T
    <2>1. Built(s)[0].b = <<>>
      BY BuiltEquation
    <2>2. \A j \in P : ~(j <= 0)
      BY <1>3
    <2>3. Len(<<>>) = 0
      OBVIOUS
    <2>4. Spells(s, 0)
      BY <1>2, <2>1, <2>2, <2>3 DEF Spells, P
    <2> QED
      BY <1>1, <2>4
  <1>5. ASSUME NEW i \in 1..n, i - 1 \in T PROVE i \in T
    <2> DEFINE a == Built(s)[i - 1].b
               b == Built(s)[i].b
    <2>1. /\ Len(a) = Rank(P, i - 1)
          /\ \A j \in P : j <= i - 1 => a[Rank(P, j)] = Spelled(s, j)
          /\ \A m \in 1..Len(a) : \E j \in P : j <= i - 1 /\ Rank(P, j) = m
      BY <1>5 DEF Spells, P
    <2>2. b = IF i \in P THEN Append(a, Spelled(s, i)) ELSE a
      BY TurnWrites DEF P, n
    <2>3. a \in Seq(AlphaNum \cup {"-"})
      <3>1. i - 1 \in 0..Len(s)
        BY <1>1 DEF n
      <3> QED
        BY <3>1, BuiltInv DEF AccInv, Clean
    <2>4. Spelled(s, i) \in AlphaNum \cup {"-"}
      BY DEF Spelled, Word
    <2> HIDE DEF a, b
    <2>5. CASE i \in P
      <3>1. /\ b \in Seq(AlphaNum \cup {"-"}) /\ Len(b) = Len(a) + 1 /\ Len(a) \in Nat
            /\ \A k \in 1..Len(a) : b[k] = a[k]
            /\ b[Len(a) + 1] = Spelled(s, i)
        BY <2>2, <2>3, <2>4, <2>5, AppendFacts
      <3>2. Rank(P, i) = Rank(P, i - 1) + 1
        BY <1>2, <2>5
      <3>3. ASSUME NEW j \in P, j <= i PROVE b[Rank(P, j)] = Spelled(s, j)
        <4>1. CASE j = i
          BY <2>1, <3>1, <3>2, <4>1
        <4>2. CASE j # i
          <5>1. j <= i - 1 /\ i - 1 \in 0..n /\ j \in 0..n
            BY <1>1, <1>3, <3>3, <4>2
          <5>2. Rank(P, j) \in 1..Len(a)
            BY <1>2, <2>1, <5>1
          <5> QED
            BY <2>1, <3>1, <5>1, <5>2
        <4> QED
          BY <4>1, <4>2
      <3>4. ASSUME NEW m \in 1..Len(b) PROVE \E j \in P : j <= i /\ Rank(P, j) = m
        <4>1. CASE m = Len(a) + 1
          BY <2>1, <2>5, <3>2, <4>1
        <4>2. CASE m # Len(a) + 1
          <5>1. m \in 1..Len(a)
            BY <3>1, <4>2
          <5>2. PICK j \in P : j <= i - 1 /\ Rank(P, j) = m
            BY <2>1, <5>1
          <5>3. j <= i
            BY <1>3, <5>2
          <5> QED
            BY <5>2, <5>3
        <4> QED
          BY <4>1, <4>2
      <3>5. Spells(s, i)
        BY <2>1, <3>1, <3>2, <3>3, <3>4 DEF Spells, P, b
      <3> QED
        BY <1>1, <3>5
    <2>6. CASE i \notin P
      <3>1. Rank(P, i) = Rank(P, i - 1) /\ b = a
        BY <1>2, <2>2, <2>6
      <3>2. \A j \in P : j <= i <=> j <= i - 1
        BY <1>3, <2>6
      <3>3. Spells(s, i)
        BY <2>1, <3>1, <3>2 DEF Spells, P, b
      <3> QED
        BY <1>1, <3>3
    <2> QED
      BY <2>5, <2>6
  <1>6. \A i \in 0..n : i \in T
    <2> HIDE DEF T
    <2> QED
      BY <1>1, <1>4, <1>5, UpTo
  <1> QED
    BY <1>6 DEF n

(***************************************************************************)
(* What buildBaseName and the trimming leave is the reference definition:  *)
(* the words of the name joined by dashes.                                 *)
(***************************************************************************)
THEOREM LoopJoinsWords ==
    ASSUME NEW name \in Seq(Chars)
    PROVE  TrimLeft(TrimRight(buildBaseName(Lowered(name)))) = WordsJoined(name)
  <1> DEFINE s == Lowered(name)
             b == buildBaseName(s)
             w == TrimLeft(TrimRight(b))
             P == Taken(s)
             K == Kept(s)
             n == Len(s)
             Position(m) == CHOOSE i \in K : Rank(K, i) = m
  <1>1. s \in Seq(Chars)
    BY LoweredType
  <1>2. WordsJoined(name) = [m \in 1..Cardinality(K) |-> Spelled(s, Position(m))]
    BY DEF WordsJoined, Spelled
  <1>3. Clean(b) /\ (b = <<>> => w = <<>>) /\ (b # <<>> => w = TrimRight(b) /\ Joined(w))
    BY <1>1, BaseWords
  <1> SUFFICES w = WordsJoined(name)
    OBVIOUS
  <1> HIDE DEF s
  <1>4. n \in Nat /\ P \subseteq 1..n /\ K \subseteq 1..n
    BY <1>1 DEF Taken, Kept
  <1>5. Spells(s, n) /\ b = Built(s)[n].b
    BY <1>1, <1>4, LoopSpells DEF buildBaseName
  <1> HIDE DEF P, n, b
  <1>6. /\ Rank(P, 0) = 0
        /\ \A i \in 0..n : Rank(P, i) \in Nat
        /\ \A i, j \in 0..n : i < j /\ j \in P => Rank(P, i) < Rank(P, j)
        /\ \A i, j \in 0..n : i <= j => Rank(P, i) <= Rank(P, j)
        /\ \A i \in P : Rank(P, i) >= 1
    BY <1>4, RankFacts
  <1>7. \A j \in P : j \in Int /\ j >= 1 /\ j <= n /\ j \in 0..n
    BY <1>4
  <1>8. /\ Len(b) = Rank(P, n)
        /\ \A j \in P : b[Rank(P, j)] = Spelled(s, j) /\ Rank(P, j) \in 1..Len(b)
        /\ \A m \in 1..Len(b) : \E j \in P : Rank(P, j) = m
    <2>1. /\ Len(b) = Rank(P, n)
          /\ \A j \in P : j <= n => b[Rank(P, j)] = Spelled(s, j)
          /\ \A m \in 1..Len(b) : \E j \in P : j <= n /\ Rank(P, j) = m
      BY <1>5 DEF Spells, P
    <2>2. n \in 0..n
      BY <1>4
    <2>3. \A j \in P : Rank(P, j) \in 1..Rank(P, n)
      BY <1>6, <1>7, <2>2
    <2> QED
      BY <1>7, <2>1, <2>3
  <1>9. \A j \in P : Spelled(s, j) # "-" <=> Word(s, j)
    BY NameAssumption DEF Spelled, Word
  <1>10. \A j \in K : j \in P
    BY <1>4 DEF Kept, Taken, Gap, P
  <1>11. CASE b = <<>>
    <2>1. P = {}
      BY <1>8, <1>11
    <2>2. K = {} /\ Cardinality(K) = 0
      BY <1>10, <2>1, FS_EmptySet
    <2> HIDE DEF K
    <2>3. WordsJoined(name) = <<>>
      BY <1>2, <2>2
    <2> QED
      BY <1>3, <1>11, <2>3
  <1>12. CASE b # <<>>
    <2>1. PICK k \in 1..Len(b) :
             /\ TrimRight(b) = SubSeq(b, 1, k) /\ b[k] # "-"
             /\ \A j \in (k + 1)..Len(b) : b[j] = "-"
      BY <1>3, <1>12, TrimRightClean
    <2>2. w = SubSeq(b, 1, k) /\ Len(b) \in Nat /\ b \in Seq(AlphaNum \cup {"-"})
      BY <1>3, <1>12, <2>1 DEF Clean
    <2>3. PICK last \in P : Rank(P, last) = k
      BY <1>8, <2>1
    <2>4. Word(s, last)
      BY <1>8, <1>9, <2>1, <2>3
    <2>5. ASSUME NEW j \in P, Word(s, j) PROVE Rank(P, j) <= k
      <3>1. b[Rank(P, j)] # "-" /\ Rank(P, j) \in 1..Len(b)
        BY <1>8, <1>9, <2>5
      <3>2. Rank(P, j) \notin (k + 1)..Len(b)
        BY <2>1, <3>1
      <3> QED
        BY <2>2, <3>1, <3>2
    <2>6. \A i, j \in P : i < j => Rank(P, i) < Rank(P, j)
      BY <1>6, <1>7
    <2>7. ASSUME NEW j \in K PROVE Rank(P, j) <= k
      <3>1. CASE Word(s, j)
        BY <1>10, <2>5, <3>1
      <3>2. CASE ~Word(s, j)
        <4>1. PICK i \in (j + 1)..Len(s) : Word(s, i)
          BY <3>2 DEF Kept, Gap
        <4>2. j \in P /\ j \in 1..n
          BY <1>4, <1>10
        <4>3. i \in 1..Len(s) /\ j < i
          BY <1>4, <4>2 DEF n
        <4>4. i \in P
          BY <4>1, <4>3 DEF P, Taken
        <4>5. Rank(P, i) <= k /\ Rank(P, j) < Rank(P, i)
          BY <2>5, <2>6, <4>1, <4>2, <4>3, <4>4
        <4>6. Rank(P, i) \in Nat /\ Rank(P, j) \in Nat
          BY <1>6, <1>7, <4>2, <4>4
        <4> QED
          BY <4>5, <4>6
      <3> QED
        BY <3>1, <3>2
    <2>8. \A j \in P : Rank(P, j) \in Nat
      BY <1>6, <1>7
    <2>9. ASSUME NEW j \in P, Rank(P, j) <= k PROVE j \in K
      <3>1. CASE Word(s, j)
        BY <1>4, <3>1 DEF Kept, n
      <3>2. CASE ~Word(s, j)
        <4>1. j # last /\ ~(last < j)
          BY <2>3, <2>4, <2>6, <2>8, <2>9, <3>2
        <4>2. last \in (j + 1)..n
          BY <1>7, <4>1
        <4>3. j \in 1..Len(s) /\ j > 1 /\ Word(s, j - 1)
          BY <3>2 DEF P, Taken
        <4> QED
          BY <2>4, <3>2, <4>2, <4>3 DEF Kept, Gap, n
      <3> QED
        BY <3>1, <3>2
    <2>10. ASSUME NEW j \in K PROVE Rank(K, j) = Rank(P, j)
      <3>1. \A i \in P : i <= j => i \in K
        <4> SUFFICES ASSUME NEW i \in P, i <= j PROVE i \in K
          OBVIOUS
        <4>1. Rank(P, i) <= Rank(P, j)
          BY <1>6, <1>7, <1>10
        <4>2. Rank(P, i) <= k
          BY <1>10, <2>7, <2>8, <4>1
        <4> QED
          BY <2>9, <4>2
      <3> HIDE DEF K
      <3>2. {i \in K : i <= j} = {i \in P : i <= j}
        BY <1>10, <3>1
      <3> QED
        BY <3>2 DEF Rank
    <2>11. last \in K
      BY <1>4, <2>4, <1>7 DEF Kept, n
    <2> HIDE DEF K
    <2>12. Cardinality(K) = k
      <3>1. \A i \in K : i <= last
        <4> SUFFICES ASSUME NEW i \in K, last < i PROVE FALSE
          BY <1>7, <1>10
        <4>1. Rank(P, last) < Rank(P, i) /\ Rank(P, i) <= k
          BY <1>10, <2>6, <2>7
        <4> QED
          BY <1>10, <2>3, <2>8, <4>1
      <3>2. K = {i \in K : i <= last}
        BY <3>1
      <3>3. Rank(K, last) = Cardinality(K)
        BY <3>2 DEF Rank
      <3> QED
        BY <2>3, <2>10, <2>11, <3>3
    <2>13. ASSUME NEW m \in 1..k PROVE w[m] = Spelled(s, Position(m))
      <3>1. m \in 1..Len(b) /\ m <= k
        BY <2>2
      <3>2. PICK j \in P : Rank(P, j) = m
        BY <1>8, <3>1
      <3>3. j \in K /\ Rank(K, j) = m
        BY <2>9, <2>10, <3>1, <3>2
      <3>4. Position(m) \in K /\ Rank(K, Position(m)) = m
        BY <3>3, Zenon
      <3> HIDE DEF Position
      <3>5. Position(m) \in P /\ Rank(P, Position(m)) = m
        BY <1>10, <2>10, <3>4
      <3>6. b[m] = Spelled(s, Position(m))
        BY <1>8, <3>5
      <3>7. w[m] = b[m]
        BY <2>2
      <3> QED
        BY <3>6, <3>7
    <2>14. w \in Seq(AlphaNum \cup {"-"}) /\ Len(w) = k
      BY <2>2
    <2>15. w = [m \in 1..k |-> w[m]]
      BY <2>14
    <2> HIDE DEF Position, w
    <2> QED
      BY <1>2, <2>12, <2>13, <2>15
  <1> QED
    BY <1>11, <1>12

-----------------------------------------------------------------------------
(***************************************************************************)
(* Numerals, and what becomes of a port at the end of a name.              *)
(***************************************************************************)

(* The base of numerals. *)
Base == Len(Digit)

(* Digits and their values are one to one. *)
LEMMA DigitFacts ==
    /\ Base \in Nat /\ Base > 1
    /\ Digits \subseteq AlphaNum
    /\ \A c \in Digits : DigitValue(c) \in 0..(Base - 1)
    /\ \A v \in 0..(Base - 1) : Digit[v + 1] \in Digits /\ DigitValue(Digit[v + 1]) = v
  <1>1. Digit \in Seq(AlphaNum) /\ Len(Digit) > 1
        /\ \A i, j \in 1..Len(Digit) : i # j => Digit[i] # Digit[j]
    BY StreamAssumption
  <1>2. Base \in Nat /\ Base > 1
    BY <1>1 DEF Base
  <1>3. Digits \subseteq AlphaNum
    BY <1>1 DEF Digits
  <1> DEFINE Index(c) == CHOOSE d \in 1..Base : Digit[d] = c
  <1>4. \A c \in Digits : Index(c) \in 1..Base /\ Digit[Index(c)] = c
    BY Zenon DEF Digits, Base
  <1>5. \A c : DigitValue(c) = Index(c) - 1
    BY DEF DigitValue, Base
  <1>6. \A d \in 1..Base : Digit[d] \in Digits
    BY DEF Digits, Base
  <1> HIDE DEF Index
  <1>7. \A c \in Digits : DigitValue(c) \in 0..(Base - 1)
    BY <1>2, <1>4, <1>5
  <1>8. ASSUME NEW v \in 0..(Base - 1) PROVE Digit[v + 1] \in Digits /\ DigitValue(Digit[v + 1]) = v
    <2>1. v + 1 \in 1..Base
      BY <1>2
    <2>2. Digit[v + 1] \in Digits
      BY <1>6, <2>1
    <2>3. Index(Digit[v + 1]) \in 1..Base /\ Digit[Index(Digit[v + 1])] = Digit[v + 1]
      BY <1>4, <2>2
    <2>4. Index(Digit[v + 1]) = v + 1
      BY <1>1, <2>1, <2>3 DEF Base
    <2>5. DigitValue(Digit[v + 1]) = (v + 1) - 1
      BY <1>5, <2>4
    <2> QED
      BY <2>2, <2>5
  <1> QED
    BY <1>2, <1>3, <1>7, <1>8

(* A digit more gives a number again. *)
LEMMA StepType ==
    ASSUME NEW n \in Nat, NEW c \in Digits
    PROVE  n * Base + DigitValue(c) \in Nat
  <1>1. Base \in Nat /\ DigitValue(c) \in Nat
    BY DigitFacts
  <1>2. \A x, y, z \in Nat : x * y + z \in Nat
    OBVIOUS
  <1> QED
    BY <1>1, <1>2

(* Reading a numeral runs to its end. *)
LEMMA ReadEquation ==
    ASSUME NEW s \in Seq(Digits)
    PROVE  /\ Read(s)[0] = 0
           /\ \A i \in 1..Len(s) : Read(s)[i] = Read(s)[i - 1] * Base + DigitValue(s[i])
           /\ \A i \in 0..Len(s) : Read(s)[i] \in Nat
  <1> DEFINE n == Len(s)
             F == [i \in 1..n |-> [m \in Nat |-> m * Base + DigitValue(s[i])]]
             Eq(g) == g = [i \in 0..n |-> IF i = 0 THEN 0 ELSE g[i - 1] * Base + DigitValue(s[i])]
  <1>1. n \in Nat /\ 0 \in Nat /\ \A i \in 1..n : s[i] \in Digits
    OBVIOUS
  <1>2. F \in [1..n -> [Nat -> Nat]]
    BY <1>1, StepType
  <1>3. PICK g : Loop(g, n, Nat, 0, F)
    <2> HIDE DEF F, n
    <2> QED
      BY <1>1, <1>2, LoopExists
  <1>4. g \in [0..n -> Nat] /\ g[0] = 0 /\ \A i \in 1..n : g[i] = F[i][g[i - 1]]
    <2> HIDE DEF F, n
    <2> QED
      BY <1>3 DEF Loop
  <1>5. \A i \in 1..n : g[i] = g[i - 1] * Base + DigitValue(s[i])
    <2> SUFFICES ASSUME NEW i \in 1..n PROVE g[i] = g[i - 1] * Base + DigitValue(s[i])
      OBVIOUS
    <2>1. i - 1 \in 0..n
      BY <1>1
    <2>2. g[i - 1] \in Nat
      BY <1>4, <2>1
    <2> HIDE DEF n
    <2> QED
      BY <1>4, <2>2
  <1>6. Eq(g)
    <2> HIDE DEF n
    <2>1. \A i \in 0..n : i = 0 \/ i \in 1..n
      BY <1>1
    <2> QED
      BY <1>4, <1>5, <2>1
  <1>7. Read(s) = CHOOSE h : Eq(h)
    BY DEF Read, Base
  <1>8. Eq(Read(s))
    <2> HIDE DEF Eq
    <2> QED
      BY <1>6, <1>7, Zenon
  <1> HIDE DEF n
  <1>9. 0 \in 0..n /\ \A i \in 1..n : i \in 0..n /\ i # 0
    BY <1>1
  <1>10. Read(s)[0] = 0
    BY <1>8, <1>9
  <1>11. \A i \in 1..n : Read(s)[i] = Read(s)[i - 1] * Base + DigitValue(s[i])
    BY <1>8, <1>9
  <1>12. \A i \in 0..n : Read(s)[i] \in Nat
    <2> DEFINE T == {i \in 0..n : Read(s)[i] \in Nat}
    <2>1. 0 \in T
      BY <1>1, <1>10
    <2>2. ASSUME NEW i \in 1..n, i - 1 \in T PROVE i \in T
      <3>1. Read(s)[i] \in Nat
        BY <1>1, <1>11, <2>2, StepType
      <3> QED
        BY <1>9, <3>1
    <2>3. \A i \in 0..n : i \in T
      <3> HIDE DEF T
      <3> QED
        BY <1>1, <2>1, <2>2, UpTo
    <2> QED
      BY <2>3
  <1> QED
    BY <1>10, <1>11, <1>12 DEF n

(* A numeral of one digit. *)
LEMMA NumberOfDigit ==
    ASSUME NEW c \in Digits
    PROVE  Number(<<c>>) = DigitValue(c)
  <1>1. <<c>> \in Seq(Digits) /\ Len(<<c>>) = 1 /\ <<c>>[1] = c /\ 1 \in 1..Len(<<c>>)
    OBVIOUS
  <1>2. Read(<<c>>)[1] = Read(<<c>>)[1 - 1] * Base + DigitValue(c) /\ Read(<<c>>)[0] = 0
    BY <1>1, ReadEquation
  <1>3. Base \in Nat /\ DigitValue(c) \in Nat
    BY DigitFacts
  <1>4. 1 - 1 = 0 /\ 0 * Base = 0
    BY <1>3
  <1>5. Read(<<c>>)[1] = DigitValue(c)
    BY <1>2, <1>3, <1>4
  <1> QED
    BY <1>1, <1>5 DEF Number

(* A numeral with one more digit. *)
LEMMA NumberAppend ==
    ASSUME NEW s \in Seq(Digits), NEW c \in Digits
    PROVE  Number(Append(s, c)) = Number(s) * Base + DigitValue(c)
  <1> DEFINE z == Append(s, c)
             n == Len(s)
             T == {i \in 0..n : Read(z)[i] = Read(s)[i]}
  <1>1. /\ z \in Seq(Digits) /\ Len(z) = n + 1 /\ n \in Nat
        /\ \A i \in 1..n : z[i] = s[i]
        /\ z[n + 1] = c
    BY AppendFacts
  <1> HIDE DEF z
  <1>2. /\ Read(z)[0] = 0
        /\ \A i \in 1..(n + 1) : Read(z)[i] = Read(z)[i - 1] * Base + DigitValue(z[i])
    BY <1>1, ReadEquation
  <1>3. /\ Read(s)[0] = 0
        /\ \A i \in 1..n : Read(s)[i] = Read(s)[i - 1] * Base + DigitValue(s[i])
    BY ReadEquation
  <1> HIDE DEF n
  <1>4. 0 \in T
    BY <1>1, <1>2, <1>3
  <1>5. ASSUME NEW i \in 1..n, i - 1 \in T PROVE i \in T
    <2>1. i \in 1..(n + 1) /\ i \in 0..n
      BY <1>1
    <2>2. Read(z)[i - 1] = Read(s)[i - 1] /\ z[i] = s[i]
      BY <1>1, <1>5
    <2>3. Read(z)[i] = Read(s)[i]
      BY <1>2, <1>3, <2>1, <2>2
    <2> QED
      BY <2>1, <2>3
  <1>6. \A i \in 0..n : i \in T
    <2> HIDE DEF T
    <2> QED
      BY <1>1, <1>4, <1>5, UpTo
  <1>7. Read(z)[n] = Read(s)[n]
    BY <1>1, <1>6
  <1>8. n + 1 \in 1..(n + 1) /\ (n + 1) - 1 = n
    BY <1>1
  <1>9. Read(z)[n + 1] = Read(s)[n] * Base + DigitValue(c)
    BY <1>1, <1>2, <1>7, <1>8
  <1> QED
    BY <1>1, <1>9 DEF Number, n, z

(* A numeral of p without a zero in front. *)
IsNumeral(s, p) == s \in Seq(Digits) /\ Len(s) \in 1..p /\ Number(s) = p /\ DigitValue(s[1]) # 0

(* A number and its last digit. *)
LEMMA Divide ==
    ASSUME NEW p \in Nat, NEW b \in Nat, b > 1
    PROVE  \E q \in Nat, r \in 0..(b - 1) : p = q * b + r
  <1> DEFINE T == {i \in 0..p : \E q \in Nat, r \in 0..(b - 1) : i = q * b + r}
  <1>1. \A q \in Nat : (q + 1) * b = q * b + b /\ q * b \in Nat
    OBVIOUS
  <1>2. 0 \in T
    <2>1. 0 = 0 * b + 0 /\ 0 \in 0..(b - 1)
      OBVIOUS
    <2> QED
      BY <2>1
  <1>3. ASSUME NEW i \in 1..p, i - 1 \in T PROVE i \in T
    <2>1. PICK q \in Nat, r \in 0..(b - 1) : i - 1 = q * b + r
      BY <1>3
    <2> DEFINE m == q * b
    <2>2. m \in Nat /\ i - 1 = m + r /\ (q + 1) * b = m + b
      BY <1>1, <2>1
    <2> HIDE DEF m
    <2>3. CASE r < b - 1
      <3>1. r + 1 \in 0..(b - 1) /\ i = m + (r + 1)
        BY <2>2, <2>3
      <3> QED
        BY <3>1 DEF m
    <2>4. CASE r = b - 1
      <3>1. i = (q + 1) * b + 0 /\ q + 1 \in Nat /\ 0 \in 0..(b - 1)
        BY <2>2, <2>4
      <3> QED
        BY <3>1
    <2> QED
      BY <2>3, <2>4
  <1>4. \A i \in 0..p : i \in T
    <2> HIDE DEF T
    <2> QED
      BY <1>2, <1>3, UpTo
  <1> QED
    BY <1>4

(* What is left of a number without its last digit is smaller. *)
LEMMA QuotientIsLess ==
    ASSUME NEW p \in Nat, NEW b \in Nat, b > 1, p >= b,
           NEW q \in Nat, NEW r \in 0..(b - 1), p = q * b + r
    PROVE  q > 0 /\ q < p
  <1>1. q > 0
    <2>1. q = 0 => q * b = 0
      OBVIOUS
    <2> QED
      BY <2>1
  <1>2. q * b >= q * 2
    OBVIOUS
  <1> QED
    BY <1>1, <1>2

(* Every number has a numeral. *)
LEMMA NumeralExists == \A p \in Nat \ {0} : \E s : IsNumeral(s, p)
  <1> DEFINE Bad == {p \in Nat \ {0} : ~\E s : IsNumeral(s, p)}
  <1> SUFFICES ASSUME Bad # {} PROVE FALSE
    OBVIOUS
  <1>1. PICK p \in Bad : \A k \in Bad : p <= k
    <2>1. Bad \subseteq Nat
      OBVIOUS
    <2> HIDE DEF Bad
    <2> QED
      BY <2>1, LeastOf
  <1>2. p \in Nat /\ p > 0 /\ ~\E s : IsNumeral(s, p)
    BY <1>1
  <1>3. \A k \in Nat : k > 0 /\ k < p => \E s : IsNumeral(s, k)
    <2> SUFFICES ASSUME NEW k \in Nat, k > 0, k < p, ~\E s : IsNumeral(s, k) PROVE FALSE
      OBVIOUS
    <2>1. k \in Bad
      OBVIOUS
    <2> HIDE DEF Bad
    <2> QED
      BY <1>1, <1>2, <2>1
  <1>4. Base \in Nat /\ Base > 1
    BY DigitFacts
  <1>5. CASE p < Base
    <2>1. p \in 0..(Base - 1)
      BY <1>2, <1>4, <1>5
    <2> DEFINE c == Digit[p + 1]
    <2>2. c \in Digits /\ DigitValue(c) = p
      BY <2>1, DigitFacts
    <2> HIDE DEF c
    <2>3. <<c>> \in Seq(Digits) /\ Len(<<c>>) = 1 /\ <<c>>[1] = c
      BY <2>2
    <2>4. IsNumeral(<<c>>, p)
      BY <1>2, <2>2, <2>3, NumberOfDigit DEF IsNumeral
    <2> QED
      BY <1>2, <2>4
  <1>6. CASE ~(p < Base)
    <2>0. PICK q \in Nat, r \in 0..(Base - 1) : p = q * Base + r
      BY <1>2, <1>4, Divide
    <2>1. q > 0 /\ q < p
      BY <1>2, <1>4, <1>6, <2>0, QuotientIsLess
    <2>2. PICK s : IsNumeral(s, q)
      BY <1>3, <2>1
    <2> DEFINE c == Digit[r + 1]
               z == Append(s, c)
    <2>3. c \in Digits /\ DigitValue(c) = r
      BY <2>1, DigitFacts
    <2> HIDE DEF c
    <2>4. s \in Seq(Digits) /\ Len(s) \in 1..q /\ Number(s) = q /\ DigitValue(s[1]) # 0
      BY <2>2 DEF IsNumeral
    <2>5. z \in Seq(Digits) /\ Len(z) = Len(s) + 1 /\ \A i \in 1..Len(s) : z[i] = s[i]
      BY <2>3, <2>4, AppendFacts
    <2>6. Number(z) = q * Base + r
      BY <2>3, <2>4, NumberAppend
    <2> HIDE DEF z
    <2>7. Len(z) \in 1..p /\ 1 \in 1..Len(s)
      BY <1>2, <2>1, <2>4, <2>5
    <2>8. IsNumeral(z, p)
      BY <2>0, <2>4, <2>5, <2>6, <2>7 DEF IsNumeral
    <2> QED
      BY <1>2, <2>8
  <1> QED
    BY <1>5, <1>6

(* %d writes digits, at least one, that read as the number. *)
LEMMA NumeralFacts ==
    ASSUME NEW p \in 1..MaxPort
    PROVE  /\ Numeral(p) \in Seq(Digits) /\ Numeral(p) # <<>>
           /\ Number(Numeral(p)) = p
           /\ parsePort32(Numeral(p))
  <1> DEFINE Texts == UNION {[1..n -> Digits] : n \in 1..p}
             Is(s) == Number(s) = p /\ DigitValue(s[1]) # 0
  <1>0. MaxPort \in Nat /\ p \in Nat \ {0}
    BY StreamAssumption
  <1>1. PICK s : IsNumeral(s, p)
    BY <1>0, NumeralExists, Zenon
  <1>2. s \in Texts /\ Is(s)
    <2>1. s \in [1..Len(s) -> Digits] /\ Len(s) \in 1..p
      BY <1>1 DEF IsNumeral
    <2> QED
      BY <1>1, <2>1 DEF IsNumeral
  <1>3. Numeral(p) = CHOOSE t \in Texts : Is(t)
    BY DEF Numeral
  <1>4. Numeral(p) \in Texts /\ Is(Numeral(p))
    <2> HIDE DEF Texts, Is
    <2> QED
      BY <1>2, <1>3, Zenon
  <1>5. PICK n \in 1..p : Numeral(p) \in [1..n -> Digits]
    BY <1>4
  <1>6. n \in Nat /\ n > 0
    BY <1>0
  <1>7. Numeral(p) \in Seq(Digits) /\ Len(Numeral(p)) = n
    BY <1>5, <1>6
  <1>8. Numeral(p) # <<>>
    BY <1>6, <1>7, NotEmpty
  <1>9. \A k \in 1..Len(Numeral(p)) : Numeral(p)[k] \in Digits
    BY <1>7
  <1> QED
    BY <1>4, <1>7, <1>8, <1>9 DEF parsePort32

(* A text that is appended character by character is appended. *)
LEMMA AppendToConcat ==
    ASSUME NEW S, NEW a \in Seq(S), NEW t \in Seq(S), NEW j \in 1..Len(t)
    PROVE  Append(a \o SubSeq(t, 1, j - 1), t[j]) = a \o SubSeq(t, 1, j)
  <1> DEFINE l == Append(a \o SubSeq(t, 1, j - 1), t[j])
             r == a \o SubSeq(t, 1, j)
             n == Len(a)
  <1>1. n \in Nat /\ Len(t) \in Nat /\ j - 1 \in 0..Len(t) /\ j \in 0..Len(t) /\ t[j] \in S
    OBVIOUS
  <1>2. /\ SubSeq(t, 1, j - 1) \in Seq(S) /\ Len(SubSeq(t, 1, j - 1)) = j - 1
        /\ \A i \in 1..(j - 1) : SubSeq(t, 1, j - 1)[i] = t[i]
        /\ SubSeq(t, 1, j) \in Seq(S) /\ Len(SubSeq(t, 1, j)) = j
        /\ \A i \in 1..j : SubSeq(t, 1, j)[i] = t[i]
    BY <1>1, PrefixFacts
  <1>3. /\ l \in Seq(S) /\ Len(l) = n + j /\ r \in Seq(S) /\ Len(r) = n + j
    BY <1>1, <1>2
  <1>4. ASSUME NEW i \in 1..(n + j) PROVE l[i] = r[i]
    <2>1. CASE i <= n
      BY <1>1, <1>2, <2>1
    <2>2. CASE i > n /\ i < n + j
      BY <1>1, <1>2, <2>2
    <2>3. CASE i = n + j
      BY <1>1, <1>2, <2>3
    <2> QED
      BY <1>1, <2>1, <2>2, <2>3
  <1> HIDE DEF l, r, n
  <1>5. l = r
    BY <1>1, <1>3, <1>4
  <1> QED
    BY <1>5 DEF l, r

(* The port ends the words of a service's name, after a dash or alone. *)
LEMMA PortedWords ==
    ASSUME NEW d \in Seq(Chars), NEW p \in 1..MaxPort
    PROVE  /\ PortedName(d, p) \in Seq(Chars)
           /\ \E a : /\ Clean(a) /\ EndsInDash(a)
                     /\ WordsJoined(PortedName(d, p)) = a \o Numeral(p)
  <1> DEFINE name == PortedName(d, p)
             s == Lowered(name)
             num == Numeral(p)
             k == Len(d) + 1
             m == Len(num)
             a == Built(s)[k].b
             T == {j \in 0..m : Built(s)[k + j].b = a \o SubSeq(num, 1, j)}
  <1>1. num \in Seq(Digits) /\ num # <<>>
    BY NumeralFacts
  <1>2. num \in Seq(AlphaNum) /\ num \in Seq(Chars) /\ "-" \in Chars
        /\ "-" \notin AlphaNum /\ \A j \in 1..m : num[j] \in AlphaNum
    BY <1>1, DigitFacts, NameAssumption
  <1>3. m \in Nat /\ m > 0 /\ k \in Nat /\ k > 0 /\ Len(d) \in Nat
    BY <1>1
  <1>4. /\ name \in Seq(Chars) /\ Len(name) = k + m
        /\ name[k] = "-" /\ \A j \in 1..m : name[k + j] = num[j]
    BY <1>2, ConcatFacts DEF PortedName
  <1>5. s \in Seq(Chars) /\ Len(s) = k + m /\ \A i \in 1..(k + m) : s[i] = Lower[name[i]]
    BY <1>4, LoweredType
  <1>6. \A c \in AlphaNum \cup {"-"} : Lower[c] = c
    BY NameAssumption
  <1> HIDE DEF num, name, k, m
  <1>7. s[k] = "-" /\ \A j \in 1..m : s[k + j] = num[j]
    <2>1. k \in 1..(k + m) /\ \A j \in 1..m : k + j \in 1..(k + m)
      BY <1>3
    <2> QED
      BY <1>2, <1>4, <1>5, <1>6, <2>1
  <1> HIDE DEF s
  <1>8. Clean(a) /\ EndsInDash(a)
    <2>1. k \in 1..Len(s) /\ k \in 0..Len(s)
      BY <1>3, <1>5
    <2>2. AccInv(Built(s)[k])
      BY <1>5, <2>1, BuiltInv
    <2>3. Built(s)[k].lastDash
      BY <1>2, <1>5, <1>7, <2>1, TurnWrites DEF Word
    <2> QED
      BY <2>2, <2>3 DEF AccInv
  <1>9. a \in Seq(AlphaNum \cup {"-"}) /\ num \in Seq(AlphaNum \cup {"-"})
    BY <1>2, <1>8 DEF Clean
  <1> HIDE DEF a
  <1>10. 0 \in T
    <2>1. SubSeq(num, 1, 0) = <<>>
      BY <1>9
    <2>2. a \o <<>> = a
      BY <1>9
    <2>3. Built(s)[k + 0].b = a
      BY <1>3 DEF a
    <2>4. Built(s)[k + 0].b = a \o SubSeq(num, 1, 0)
      BY <2>1, <2>2, <2>3, Zenon
    <2>5. 0 \in 0..m
      BY <1>3
    <2> QED
      BY <2>4, <2>5, Zenon
  <1>11. ASSUME NEW j \in 1..m, j - 1 \in T PROVE j \in T
    <2>1. k + j \in 1..Len(s) /\ (k + j) - 1 = k + (j - 1)
      BY <1>3, <1>5
    <2>2. Word(s, k + j) /\ s[k + j] = num[j]
      BY <1>2, <1>7 DEF Word
    <2>3. k + j \in Taken(s) /\ Spelled(s, k + j) = num[j]
      BY <2>1, <2>2 DEF Taken, Spelled
    <2>4. Built(s)[k + j].b = Append(Built(s)[k + (j - 1)].b, num[j])
      BY <1>5, <2>1, <2>3, TurnWrites
    <2>5. Built(s)[k + (j - 1)].b = a \o SubSeq(num, 1, j - 1)
      BY <1>11
    <2>6. Append(a \o SubSeq(num, 1, j - 1), num[j]) = a \o SubSeq(num, 1, j)
      BY <1>9, AppendToConcat DEF m
    <2>7. Built(s)[k + j].b = a \o SubSeq(num, 1, j)
      BY <2>4, <2>5, <2>6, Zenon
    <2>8. j \in 0..m
      BY <1>3
    <2> QED
      BY <2>7, <2>8, Zenon
  <1>12. \A j \in 0..m : j \in T
    <2> HIDE DEF T
    <2> QED
      BY <1>3, <1>10, <1>11, UpTo
  <1> DEFINE b == buildBaseName(s)
             w == TrimLeft(TrimRight(b))
  <1>13. b = a \o num
    <2>1. m \in 0..m
      BY <1>3
    <2>2. Built(s)[k + m].b = a \o SubSeq(num, 1, m)
      BY <1>12, <2>1
    <2>3. SubSeq(num, 1, m) = num
      BY <1>9 DEF m
    <2> QED
      BY <1>5, <2>2, <2>3 DEF buildBaseName
  <1>14. WordsJoined(name) = w
    BY <1>4, LoopJoinsWords DEF s
  <1>15. b # <<>> /\ w = TrimRight(b)
    <2>1. b # <<>>
      BY <1>1, <1>9, <1>13
    <2> QED
      BY <1>5, <2>1, BaseWords
  <1> HIDE DEF b
  <1>16. /\ b \in Seq(AlphaNum \cup {"-"}) /\ Len(b) = Len(a) + m /\ Len(a) \in Nat
         /\ b[Len(a) + m] = num[m]
    BY <1>3, <1>9, <1>13 DEF m
  <1>17. TrimRight(b) = b
    <2> DEFINE n == Len(b)
    <2>1. n \in 1..Len(b) /\ \A j \in (n + 1)..Len(b) : b[j] = "-"
      BY <1>3, <1>16
    <2>2. b[n] # "-"
      <3>1. m \in 1..m
        BY <1>3
      <3> QED
        BY <1>2, <1>16, <3>1
    <2>3. TrimRight(b) = SubSeq(b, 1, n)
      BY <1>16, <2>1, <2>2, TrimRightTo
    <2> QED
      BY <1>16, <2>3
  <1>18. WordsJoined(name) = a \o num
    BY <1>13, <1>14, <1>15, <1>17
  <1> QED
    BY <1>4, <1>8, <1>18 DEF name, num

(* What AfterDash returns of a text with a dash inside. *)
LEMMA AfterLastDash ==
    ASSUME NEW S, NEW key \in Seq(S), NEW k \in 2..(Len(key) - 1), key[k] = "-",
           \A j \in (k + 1)..Len(key) : key[j] # "-"
    PROVE  AfterDash(key) = SubSeq(key, k + 1, Len(key))
  <1> DEFINE D == {i \in 2..(Len(key) - 1) : key[i] = "-"}
  <1>1. Len(key) \in Nat
    OBVIOUS
  <1>2. k \in D
    OBVIOUS
  <1>3. \A i \in D : i \in Int /\ i <= k
    <2> SUFFICES ASSUME NEW i \in 2..(Len(key) - 1), key[i] = "-" PROVE i <= k
      OBVIOUS
    <2>1. i \notin (k + 1)..Len(key)
      OBVIOUS
    <2> QED
      BY <1>1, <2>1
  <1>4. AfterDash(key) = IF D = {} THEN <<>> ELSE SubSeq(key, Max(D) + 1, Len(key))
    BY DEF AfterDash
  <1> HIDE DEF D
  <1>5. Max(D) = k
    <2>1. k >= k /\ \A i \in D : k >= i
      BY <1>3
    <2>2. \A x \in D : (\A y \in D : x >= y) => x = k
      BY <1>2, <1>3
    <2> QED
      BY <1>2, <2>1, <2>2 DEF Max
  <1> QED
    BY <1>2, <1>4, <1>5

(* What comes after the first of two texts is the second. *)
LEMMA TailOfConcat ==
    ASSUME NEW S, NEW w \in Seq(S), NEW h \in Seq(S)
    PROVE  /\ w \o h \in Seq(S) /\ Len(w \o h) = Len(w) + Len(h)
           /\ SubSeq(w \o h, Len(w) + 1, Len(w \o h)) = h
           /\ \A i \in 1..Len(w) : (w \o h)[i] = w[i]
           /\ \A j \in (Len(w) + 1)..Len(w \o h) : (w \o h)[j] = h[j - Len(w)] /\ j - Len(w) \in 1..Len(h)
  OBVIOUS

(* A name that ends in a dash and alphanumeric characters: these come after its last dash. *)
LEMMA AfterDashOf ==
    ASSUME NEW w, Clean(w), EndsInDash(w), w # <<>>, NEW h \in Seq(AlphaNum), h # <<>>
    PROVE  AfterDash(w \o h) = h
  <1> DEFINE S == AlphaNum \cup {"-"}
             key == w \o h
             k == Len(w)
  <1>1. w \in Seq(S) /\ w[1] # "-" /\ w[k] = "-" /\ h \in Seq(S)
    BY DEF Clean, EndsInDash
  <1>2. k \in Nat /\ k > 0 /\ Len(h) \in Nat /\ Len(h) > 0
    BY <1>1
  <1>3. k # 1
    BY <1>1
  <1>4. \A j \in 1..Len(h) : h[j] # "-"
    BY NameAssumption
  <1> HIDE DEF S
  <1>5. /\ key \in Seq(S) /\ Len(key) = k + Len(h)
        /\ SubSeq(key, k + 1, Len(key)) = h
        /\ \A i \in 1..k : key[i] = w[i]
        /\ \A j \in (k + 1)..Len(key) : key[j] = h[j - k] /\ j - k \in 1..Len(h)
    BY <1>1, TailOfConcat
  <1> HIDE DEF key, k
  <1>6. k \in 2..(Len(key) - 1) /\ k \in 1..k
    BY <1>2, <1>3, <1>5
  <1>7. key[k] = "-" /\ \A j \in (k + 1)..Len(key) : key[j] # "-"
    BY <1>1, <1>4, <1>5, <1>6
  <1>8. AfterDash(key) = SubSeq(key, k + 1, Len(key))
    BY <1>5, <1>6, <1>7, AfterLastDash
  <1>9. AfterDash(key) = h
    BY <1>5, <1>8
  <1> QED
    BY <1>9 DEF key

(* Without a dash there is nothing after it. *)
LEMMA AfterNoDash ==
    ASSUME NEW h \in Seq(AlphaNum)
    PROVE  AfterDash(h) = <<>>
  <1>1. \A j \in 1..Len(h) : h[j] # "-"
    BY NameAssumption
  <1>2. \A j \in 2..(Len(h) - 1) : j \in 1..Len(h)
    OBVIOUS
  <1>3. {k \in 2..(Len(h) - 1) : h[k] = "-"} = {}
    BY <1>1, <1>2
  <1> QED
    BY <1>3, Zenon DEF AfterDash

(* Words and a dash. *)
LEMMA JoinedDash ==
    ASSUME NEW w, Joined(w)
    PROVE  /\ w \o <<"-">> = Append(w, "-")
           /\ Clean(Append(w, "-")) /\ EndsInDash(Append(w, "-")) /\ Append(w, "-") # <<>>
  <1>1. w \in Seq(AlphaNum \cup {"-"}) /\ Clean(w) /\ ~EndsInDash(w)
    BY DEF Joined, Clean, EndsInDash
  <1> QED
    BY <1>1, AppendClean, AppendFacts

(***************************************************************************)
(* The port a route reads off the Kubernetes name of a service is the port *)
(* of the service, whatever the service is called - unless the name is cut *)
(* and its hash reads as a port.                                           *)
(***************************************************************************)
THEOREM PortSurvivesName ==
    ASSUME NEW d \in Seq(Chars), NEW p \in 1..MaxPort,
           IsHash(shortHash(PortedName(d, p))),
           ~(/\ Len(WordsJoined(PortedName(d, p))) > maxK8sNameLength
             /\ parsePort32(shortHash(PortedName(d, p)))),
           parsePort32(AfterDash(SanitizeResourceName(PortedName(d, p))))
    PROVE  derivePortFromName(SanitizeResourceName(PortedName(d, p))) = p
  <1> DEFINE name == PortedName(d, p)
             key == SanitizeResourceName(name)
             words == WordsJoined(name)
             num == Numeral(p)
             h == shortHash(name)
  <1>1. num \in Seq(AlphaNum) /\ num # <<>> /\ Number(num) = p
    BY NumeralFacts, DigitFacts
  <1>2. name \in Seq(Chars)
    BY PortedWords
  <1>3. PICK a : Clean(a) /\ EndsInDash(a) /\ words = a \o num
    BY PortedWords
  <1>4. words = TrimLeft(TrimRight(buildBaseName(Lowered(name))))
    BY <1>2, LoopJoinsWords
  <1>5. key = finalizeSanitizedName(words, name)
    BY <1>4 DEF SanitizeResourceName
  <1>6. words = <<>> \/ Joined(words)
    BY <1>2, <1>4, LoweredType, BaseWords
  <1>7. IsHash(h) /\ h \in Seq(AlphaNum) /\ h # <<>>
    <2>1. Len(h) = nameHashLength /\ nameHashLength \in Nat /\ nameHashLength > 0 /\ h \in Seq(AlphaNum)
      BY HashFacts
    <2> QED
      BY <2>1, NotEmpty
  <1>8. parsePort32(AfterDash(key)) /\ ~(Len(words) > maxK8sNameLength /\ parsePort32(h))
    OBVIOUS
  <1> SUFFICES derivePortFromName(key) = p
    OBVIOUS
  <1> HIDE DEF num, words, h, name, key
  <1>9. words # <<>> /\ Len(words) \in Nat
    BY <1>1, <1>3, <1>6 DEF Clean, Joined
  <1>10. CASE Len(words) <= maxK8sNameLength
    <2>1. key = a \o num
      BY <1>3, <1>5, <1>6, <1>7, <1>9, <1>10, FinalCases DEF h
    <2>2. CASE a = <<>>
      <3>1. key = num
        BY <1>1, <2>1, <2>2
      <3>2. AfterDash(key) = <<>>
        BY <1>1, <3>1, AfterNoDash
      <3> QED
        BY <1>8, <3>2 DEF parsePort32
    <2>3. CASE a # <<>>
      <3>1. AfterDash(key) = num
        BY <1>1, <1>3, <2>1, <2>3, AfterDashOf
      <3> QED
        BY <1>1, <3>1 DEF derivePortFromName
    <2> QED
      BY <2>2, <2>3
  <1>11. CASE ~(Len(words) <= maxK8sNameLength)
    <2>1. Len(words) > maxK8sNameLength
      BY <1>9, <1>11, NameAssumption
    <2>2. CutName(words, name, key)
      BY <1>5, <1>6, <1>7, <1>9, <2>1, FinalCases DEF h
    <2>3. PICK i \in 1..Len(words) :
             key = SubSeq(words, 1, i) \o <<"-">> \o h /\ Joined(SubSeq(words, 1, i))
      BY <2>2 DEF CutName, h
    <2> DEFINE w == SubSeq(words, 1, i)
               t == Append(w, "-")
    <2>4. key = t \o h /\ Clean(t) /\ EndsInDash(t) /\ t # <<>>
      <3> HIDE DEF w
      <3> QED
        BY <2>3, JoinedDash DEF w
    <2> HIDE DEF t
    <2>5. AfterDash(key) = h
      BY <1>7, <2>4, AfterDashOf
    <2> QED
      BY <1>8, <2>1, <2>5
  <1> QED
    BY <1>10, <1>11

-----------------------------------------------------------------------------
(* The transformation of a TCP or UDP section, and its reconciliation. *)

(***************************************************************************)
(* What the transformation has built so far.                               *)
(***************************************************************************)
Indexed == \A d \in DOMAIN section.services : Extracts(section.services[d])

(* What a service of the section is owed. *)
HasArtifacts(d) == KubeName(d) \in DOMAIN svcs /\ SliceName(KubeName(d)) \in DOMAIN slices

(* Every Service built is that of a service of the section, under its name. *)
BuiltServices ==
    \A key \in DOMAIN svcs : \E d \in DOMAIN section.services :
        key = KubeName(d) /\ svcs[key] = HeadlessService(d)

(* Every slice built is that of a service whose hosts are not mixed, under its name. *)
BuiltSlices ==
    \A key \in DOMAIN slices : \E d \in DOMAIN section.services :
        key = SliceName(KubeName(d)) /\ ~MixedFamilies(HostsOf(d)) /\ slices[key] = EndpointSlice(d)

(* Every route built is that of a router that may be routed. *)
BuiltRoutes ==
    \A key \in DOMAIN ingresses : \E n \in DOMAIN section.routers :
        Routable(section.routers[n]) /\ ingresses[key] = Route(n)

(* The inductive invariant of the transformation. *)
TransformInv ==
    /\ section \in Section
    /\ pc \in {"index", "artifacts", "routes", "ok", "error"}
    /\ pc \in {"artifacts", "routes", "ok"} => Indexed
    /\ pc = "artifacts" => /\ pending \subseteq DOMAIN section.services
                           /\ \A d \in DOMAIN section.services \ pending : HasArtifacts(d)
    /\ pc \in {"routes", "ok"} => \A d \in DOMAIN section.services : HasArtifacts(d)
    /\ pc = "routes" => pending \subseteq DOMAIN section.routers
    /\ BuiltServices /\ BuiltSlices /\ BuiltRoutes

(* The section stays as it is, and with it everything that is read off it. *)
LEMMA SameSection ==
    ASSUME section' = section
    PROVE  /\ Indexed' = Indexed
           /\ \A d : KubeName(d)' = KubeName(d)
           /\ \A d : HeadlessService(d)' = HeadlessService(d)
           /\ \A d : EndpointSlice(d)' = EndpointSlice(d)
           /\ \A d : MixedFamilies(HostsOf(d))' = MixedFamilies(HostsOf(d))
           /\ \A n : Route(n)' = Route(n)
           /\ \A n : Routable(section.routers[n])' = Routable(section.routers[n])
           /\ SomeHashIsPort' = SomeHashIsPort
           /\ (DOMAIN section.services)' = DOMAIN section.services
           /\ (DOMAIN section.routers)' = DOMAIN section.routers
  BY DEF Indexed, KubeName, PortOf, HeadlessService, EndpointSlice, HostsOf, Route, Routable,
         ServiceName, TransportOf, MayFallBack, SomeHashIsPort, HashReadsAsPort

(* Nothing has been built at first. *)
LEMMA TransformInitInv == TransformInit => TransformInv
  <1> SUFFICES ASSUME TransformInit PROVE TransformInv
    OBVIOUS
  <1>1. DOMAIN svcs = {} /\ DOMAIN slices = {} /\ DOMAIN ingresses = {}
    BY DEF TransformInit, None
  <1> QED
    BY <1>1 DEF TransformInit, TransformInv, BuiltServices, BuiltSlices, BuiltRoutes

(* The transformation stands still. *)
LEMMA TransformStutter ==
    ASSUME TransformInv, UNCHANGED transformVars
    PROVE  TransformInv'
  <1>1. /\ section' = section /\ pc' = pc /\ pending' = pending
        /\ svcs' = svcs /\ slices' = slices /\ ingresses' = ingresses
    BY DEF transformVars
  <1>2. /\ Indexed' = Indexed
        /\ \A d : HasArtifacts(d)' = HasArtifacts(d)
        /\ BuiltServices' = BuiltServices /\ BuiltSlices' = BuiltSlices
        /\ BuiltRoutes' = BuiltRoutes
    BY <1>1 DEF Indexed, HasArtifacts, BuiltServices, BuiltSlices, BuiltRoutes, KubeName, PortOf,
           HeadlessService, EndpointSlice, HostsOf, Route, Routable, ServiceName, TransportOf, MayFallBack
  <1> QED
    BY <1>1, <1>2 DEF TransformInv

(* Every step of the transformation preserves its invariant. *)
LEMMA TransformStepInv ==
    ASSUME TransformInv, TransformNext
    PROVE  TransformInv'
  <1>0. section' = section
    BY DEF TransformNext, BuildIndex, StartRoutes, TransformFail, TransformReturn, BuildArtifacts, BuildRoute
  <1>1. CASE UNCHANGED <<svcs, slices, ingresses>> /\ (BuildIndex \/ StartRoutes \/ TransformFail \/ TransformReturn)
    <2>1. BuiltServices' /\ BuiltSlices' /\ BuiltRoutes' /\ \A d : HasArtifacts(d)' = HasArtifacts(d)
      BY <1>0, <1>1, SameSection DEF TransformInv, BuiltServices, BuiltSlices, BuiltRoutes, HasArtifacts
    <2>2. CASE BuildIndex
      BY <1>0, <2>1, <2>2, SameSection DEF BuildIndex, TransformInv, Indexed
    <2>3. CASE StartRoutes
      BY <1>0, <2>1, <2>3, SameSection DEF StartRoutes, TransformInv
    <2>4. CASE TransformFail
      BY <1>0, <2>1, <2>4, SameSection DEF TransformFail, TransformInv
    <2>5. CASE TransformReturn
      BY <1>0, <2>1, <2>5, SameSection DEF TransformReturn, TransformInv
    <2> QED
      BY <1>1, <2>2, <2>3, <2>4, <2>5
  <1>2. ASSUME NEW d \in pending, BuildArtifacts(d) PROVE TransformInv'
    <2>1. /\ pc = "artifacts" /\ pc' = pc /\ pending' = pending \ {d} /\ ingresses' = ingresses
          /\ ~MixedFamilies(HostsOf(d)) /\ d \in DOMAIN section.services
          /\ svcs' = With(svcs, KubeName(d), HeadlessService(d))
          /\ slices' = With(slices, SliceName(KubeName(d)), EndpointSlice(d))
      BY <1>2 DEF BuildArtifacts, TransformInv
    <2> DEFINE new == KubeName(d)
               beside == SliceName(KubeName(d))
               service == HeadlessService(d)
               slice == EndpointSlice(d)
    <2>2. /\ DOMAIN svcs' = DOMAIN svcs \cup {new} /\ svcs'[new] = service
          /\ \A m \in DOMAIN svcs : m # new => svcs'[m] = svcs[m]
          /\ DOMAIN slices' = DOMAIN slices \cup {beside} /\ slices'[beside] = slice
          /\ \A m \in DOMAIN slices : m # beside => slices'[m] = slices[m]
      <3>1. svcs' = With(svcs, new, service) /\ slices' = With(slices, beside, slice)
        BY <2>1
      <3> HIDE DEF new, beside, service, slice
      <3> QED
        BY <3>1 DEF With
    <2>3. BuiltServices'
      <3> SUFFICES ASSUME NEW key \in DOMAIN svcs'
                   PROVE  \E e \in DOMAIN section.services : key = KubeName(e) /\ svcs'[key] = HeadlessService(e)
        BY <1>0, SameSection DEF BuiltServices
      <3> QED
        BY <2>1, <2>2 DEF TransformInv, BuiltServices
    <2>4. BuiltSlices'
      <3> SUFFICES ASSUME NEW key \in DOMAIN slices'
                   PROVE  \E e \in DOMAIN section.services :
                              /\ key = SliceName(KubeName(e))
                              /\ ~MixedFamilies(HostsOf(e)) /\ slices'[key] = EndpointSlice(e)
        BY <1>0, SameSection DEF BuiltSlices
      <3> QED
        BY <2>1, <2>2 DEF TransformInv, BuiltSlices
    <2>5. BuiltRoutes'
      BY <1>0, <2>1, SameSection DEF TransformInv, BuiltRoutes
    <2>6. \A e : HasArtifacts(e) \/ e = d => HasArtifacts(e)'
      BY <1>0, <2>2, SameSection DEF HasArtifacts
    <2> QED
      BY <1>0, <2>1, <2>3, <2>4, <2>5, <2>6, SameSection DEF TransformInv
  <1>3. ASSUME NEW n \in pending, BuildRoute(n) PROVE TransformInv'
    <2>1. /\ pc = "routes" /\ pc' = pc /\ pending' = pending \ {n} /\ svcs' = svcs /\ slices' = slices
          /\ Routable(section.routers[n]) /\ n \in DOMAIN section.routers
          /\ ingresses' = With(ingresses, SanitizeResourceName(n), Route(n))
      BY <1>3 DEF BuildRoute, TransformInv
    <2>2. BuiltServices' /\ BuiltSlices' /\ \A d : HasArtifacts(d)' = HasArtifacts(d)
      BY <1>0, <2>1, SameSection DEF TransformInv, BuiltServices, BuiltSlices, HasArtifacts
    <2> DEFINE new == SanitizeResourceName(n)
               route == Route(n)
    <2>3. /\ DOMAIN ingresses' = DOMAIN ingresses \cup {new} /\ ingresses'[new] = route
          /\ \A m \in DOMAIN ingresses : m # new => ingresses'[m] = ingresses[m]
      <3>1. ingresses' = With(ingresses, new, route)
        BY <2>1
      <3> HIDE DEF new, route
      <3> QED
        BY <3>1 DEF With
    <2>4. BuiltRoutes'
      <3> SUFFICES ASSUME NEW key \in DOMAIN ingresses'
                   PROVE  \E m \in DOMAIN section.routers :
                              Routable(section.routers[m]) /\ ingresses'[key] = Route(m)
        BY <1>0, SameSection DEF BuiltRoutes
      <3> QED
        BY <2>1, <2>3 DEF TransformInv, BuiltRoutes
    <2> QED
      BY <1>0, <2>1, <2>2, <2>4, SameSection DEF TransformInv
  <1> QED
    BY <1>1, <1>2, <1>3 DEF TransformNext, BuildIndex, StartRoutes, TransformFail, TransformReturn

(* The port that is read off the name of a service is the service's own. *)
LEMMA PortReadBack ==
    ASSUME TransformInv, Indexed, NEW d \in DOMAIN section.services, ~SomeHashIsPort,
           parsePort32(AfterDash(KubeName(d)))
    PROVE  derivePortFromName(KubeName(d)) = PortOf(d)
  <1> DEFINE p == PortOf(d)
             service == section.services[d]
  <1>1. /\ section \in Section /\ d \in Seq(Chars)
        /\ service.servers \in Seq([host : DOMAIN Family, port : Nat])
        /\ \A k \in 1..Len(service.servers) :
              service.servers[k].port \in 1..MaxPort => IsHash(shortHash(PortedName(d, service.servers[k].port)))
    BY StreamAssumption DEF TransformInv
  <1>2. Extracts(service)
    BY DEF Indexed
  <1>3. 1 \in 1..Len(service.servers)
    <2>1. service.servers # <<>>
      BY <1>2 DEF Extracts
    <2> QED
      BY <1>1, <2>1
  <1>4. p \in 1..MaxPort /\ IsHash(shortHash(PortedName(d, p)))
    BY <1>1, <1>2, <1>3 DEF Extracts, setOrValidatePort, PortOf
  <1>5. ~(Len(WordsJoined(PortedName(d, p))) > maxK8sNameLength /\ parsePort32(shortHash(PortedName(d, p))))
    BY <1>2 DEF SomeHashIsPort, HashReadsAsPort
  <1>6. KubeName(d) = SanitizeResourceName(PortedName(d, p))
    BY DEF KubeName
  <1> HIDE DEF p
  <1> QED
    BY <1>1, <1>4, <1>5, <1>6, PortSurvivesName DEF p

(* A service under a name that reads as a port has that port. *)
LEMMA ServicePort ==
    ASSUME TransformInv, Indexed, ~SomeHashIsPort, NEW key \in DOMAIN svcs, parsePort32(AfterDash(key))
    PROVE  svcs[key].port = derivePortFromName(key)
  <1>1. PICK d \in DOMAIN section.services : key = KubeName(d) /\ svcs[key] = HeadlessService(d)
    BY DEF TransformInv, BuiltServices
  <1>2. derivePortFromName(key) = PortOf(d)
    BY <1>1, PortReadBack
  <1> QED
    BY <1>1, <1>2 DEF HeadlessService

(* Services of different names have slices of different names. *)
LEMMA SliceNameOf ==
    ASSUME NEW S, NEW m \in Seq(S), NEW n \in Seq(S), SliceName(m) = SliceName(n)
    PROVE  m = n
  <1> DEFINE T == S \cup {"-", "e", "p", "s"}
             e == <<"-", "e", "p", "s">>
  <1>1. m \in Seq(T) /\ n \in Seq(T)
    <2>1. S \subseteq T
      OBVIOUS
    <2> QED
      BY <2>1
  <1>2. e \in Seq(T) /\ Len(e) = 4
    OBVIOUS
  <1>3. m \o e = n \o e
    BY DEF SliceName
  <1> HIDE DEF T, e
  <1>4. Len(m \o e) = Len(m) + Len(e) /\ \A i \in 1..Len(m) : (m \o e)[i] = m[i]
    BY <1>1, <1>2, TailOfConcat, Zenon
  <1>5. Len(n \o e) = Len(n) + Len(e) /\ \A i \in 1..Len(n) : (n \o e)[i] = n[i]
    BY <1>1, <1>2, TailOfConcat, Zenon
  <1>6. Len(m) = Len(n)
    <2>1. Len(m) \in Nat /\ Len(n) \in Nat
      OBVIOUS
    <2> QED
      BY <1>2, <1>3, <1>4, <1>5, <2>1
  <1>7. \A i \in 1..Len(m) : m[i] = n[i]
    BY <1>3, <1>4, <1>5, <1>6
  <1> QED
    BY <1>1, <1>6, <1>7, SeqEqual

(* The Kubernetes name of a service is a name. *)
LEMMA KubeNameType ==
    ASSUME TransformInv, Indexed, NEW d \in DOMAIN section.services
    PROVE  KubeName(d) \in Seq(AlphaNum \cup {"-"})
  <1> DEFINE p == PortOf(d)
             service == section.services[d]
  <1>1. /\ section \in Section /\ d \in Seq(Chars)
        /\ service.servers \in Seq([host : DOMAIN Family, port : Nat])
        /\ \A k \in 1..Len(service.servers) :
              service.servers[k].port \in 1..MaxPort => IsHash(shortHash(PortedName(d, service.servers[k].port)))
    BY StreamAssumption DEF TransformInv
  <1>2. Extracts(service)
    BY DEF Indexed
  <1>3. 1 \in 1..Len(service.servers)
    <2>1. service.servers # <<>>
      BY <1>2 DEF Extracts
    <2> QED
      BY <1>1, <2>1
  <1>4. p \in 1..MaxPort /\ IsHash(shortHash(PortedName(d, p)))
    BY <1>1, <1>2, <1>3 DEF Extracts, setOrValidatePort, PortOf
  <1>5. PortedName(d, p) \in Seq(Chars)
    BY <1>1, <1>4, PortedWords
  <1>6. KubeName(d) = SanitizeResourceName(PortedName(d, p))
    BY DEF KubeName
  <1> HIDE DEF p
  <1> QED
    BY <1>4, <1>5, <1>6, SanitizedIsJoined DEF Joined, Clean

(* The slice beside a Service whose name reads as a port has that port. *)
LEMMA SlicePort ==
    ASSUME TransformInv, Indexed, ~SomeHashIsPort, NEW d \in DOMAIN section.services,
           SliceName(KubeName(d)) \in DOMAIN slices, parsePort32(AfterDash(KubeName(d)))
    PROVE  slices[SliceName(KubeName(d))].port = derivePortFromName(KubeName(d))
  <1>1. PICK e \in DOMAIN section.services :
           SliceName(KubeName(d)) = SliceName(KubeName(e)) /\ slices[SliceName(KubeName(d))] = EndpointSlice(e)
    BY DEF TransformInv, BuiltSlices
  <1>2. KubeName(d) = KubeName(e)
    BY <1>1, KubeNameType, SliceNameOf
  <1>3. derivePortFromName(KubeName(d)) = PortOf(e)
    BY <1>2, PortReadBack
  <1> QED
    BY <1>1, <1>3 DEF EndpointSlice

(* A route that is built: to a service of the section, or one of a TCP section that falls back. *)
LEMMA RouteFinds ==
    ASSUME TransformInv, pc = "ok", ~SomeHashIsPort, NEW n \in DOMAIN ingresses,
           NEW d, d = section.routers[ingresses[n].of].service
    PROVE  /\ ReadsPort(ingresses[n])
           /\ d \in DOMAIN section.services => /\ Finds(ingresses[n], svcs)
                                               /\ SliceName(ingresses[n].service) \in DOMAIN slices
                                               /\ slices[SliceName(ingresses[n].service)].port = ingresses[n].port
                                               /\ ingresses[n].port = PortOf(d)
           /\ d \notin DOMAIN section.services => section.proto = "TCP"
  <1>1. PICK m \in DOMAIN section.routers : Routable(section.routers[m]) /\ ingresses[n] = Route(m)
    BY DEF TransformInv, BuiltRoutes
  <1>2. ingresses[n].of = m /\ d = section.routers[m].service
    BY <1>1 DEF Route
  <1>3. /\ ingresses[n].service = ServiceName(section.routers[m])
        /\ ingresses[n].port = derivePortFromName(ServiceName(section.routers[m]))
        /\ parsePort32(AfterDash(ServiceName(section.routers[m])))
    BY <1>1 DEF Route, Routable
  <1>4. ReadsPort(ingresses[n])
    BY <1>3 DEF ReadsPort
  <1>5. d \notin DOMAIN section.services => section.proto = "TCP"
    BY <1>1, <1>2 DEF Routable, MayFallBack
  <1>6. ASSUME d \in DOMAIN section.services
        PROVE  /\ Finds(ingresses[n], svcs)
               /\ SliceName(ingresses[n].service) \in DOMAIN slices
               /\ slices[SliceName(ingresses[n].service)].port = ingresses[n].port
               /\ ingresses[n].port = PortOf(d)
    <2>1. ingresses[n].service = KubeName(d) /\ parsePort32(AfterDash(KubeName(d)))
          /\ ingresses[n].port = derivePortFromName(KubeName(d))
      BY <1>2, <1>3, <1>6 DEF ServiceName
    <2>2. Indexed /\ KubeName(d) \in DOMAIN svcs /\ SliceName(KubeName(d)) \in DOMAIN slices
      BY <1>6 DEF TransformInv, HasArtifacts
    <2>3. svcs[KubeName(d)].port = derivePortFromName(KubeName(d))
      BY <2>1, <2>2, ServicePort
    <2>4. derivePortFromName(KubeName(d)) = PortOf(d)
      BY <1>6, <2>1, <2>2, PortReadBack, Zenon
    <2>5. slices[SliceName(KubeName(d))].port = derivePortFromName(KubeName(d))
      BY <1>6, <2>1, <2>2, SlicePort, Zenon
    <2> QED
      BY <2>1, <2>2, <2>3, <2>4, <2>5 DEF Finds
  <1> QED
    BY <1>4, <1>5, <1>6

(* The invariant, once the transformation is through. *)
LEMMA NamedServices == TransformInv => RoutesNameServices
  <1> SUFFICES ASSUME TransformInv, pc = "ok", ~SomeHashIsPort, NEW n \in DOMAIN ingresses,
                      NEW d, d = section.routers[ingresses[n].of].service,
                      d \in DOMAIN section.services \/ section.proto = "UDP"
               PROVE  /\ d \in DOMAIN section.services
                      /\ ingresses[n].service \in DOMAIN svcs
                      /\ svcs[ingresses[n].service].port = ingresses[n].port
                      /\ SliceName(ingresses[n].service) \in DOMAIN slices
                      /\ slices[SliceName(ingresses[n].service)].port = ingresses[n].port
                      /\ \A k \in 1..Len(section.services[d].servers) :
                            section.services[d].servers[k].port = ingresses[n].port
    BY DEF RoutesNameServices
  <1>1. d \in DOMAIN section.services
    BY RouteFinds
  <1>2. /\ Finds(ingresses[n], svcs)
        /\ SliceName(ingresses[n].service) \in DOMAIN slices
        /\ slices[SliceName(ingresses[n].service)].port = ingresses[n].port
        /\ ingresses[n].port = PortOf(d)
    BY <1>1, RouteFinds
  <1>3. Extracts(section.services[d])
    BY <1>1 DEF TransformInv, Indexed
  <1>4. \A k \in 1..Len(section.services[d].servers) : section.services[d].servers[k].port = PortOf(d)
    BY <1>3, Zenon DEF Extracts, setOrValidatePort, PortOf
  <1> QED
    BY <1>1, <1>2, <1>4, Zenon DEF Finds

(* The hosts of a list of servers are a list again. *)
LEMMA FieldOfEach ==
    ASSUME NEW S, NEW T, NEW servers \in Seq([host : S, port : T])
    PROVE  Len([k \in DOMAIN servers |-> servers[k].host]) \in Nat
  <1> DEFINE hosts == [k \in DOMAIN servers |-> servers[k].host]
  <1>1. Len(servers) \in Nat /\ DOMAIN servers = 1..Len(servers)
    OBVIOUS
  <1>2. ASSUME NEW k \in 1..Len(servers) PROVE servers[k].host \in S
    <2>1. servers[k] \in [host : S, port : T]
      BY <1>2, ElementOfSeq
    <2> QED
      BY <2>1
  <1>3. hosts \in [1..Len(servers) -> S]
    BY <1>1, <1>2
  <1> HIDE DEF hosts
  <1>4. hosts \in Seq(S)
    BY <1>1, <1>3, IsASeq
  <1> QED
    BY <1>4 DEF hosts

(* Hosts that are not mixed and all IP addresses have the family of the first. *)
LEMMA UniformSlices == TransformInv => SlicesAreUniform
  <1> SUFFICES ASSUME TransformInv, NEW n \in DOMAIN slices, slices[n].type # "FQDN",
                      NEW k \in 1..Len(slices[n].hosts)
               PROVE  Family[slices[n].hosts[k]] = slices[n].type
    BY DEF SlicesAreUniform
  <1>1. PICK d \in DOMAIN section.services : ~MixedFamilies(HostsOf(d)) /\ slices[n] = EndpointSlice(d)
    BY DEF TransformInv, BuiltSlices
  <1>2. slices[n].hosts = HostsOf(d) /\ slices[n].type = chooseAddressType(HostsOf(d))
    BY <1>1 DEF EndpointSlice
  <1>3. Len(HostsOf(d)) \in Nat
    <2>1. section.services[d].servers \in Seq([host : DOMAIN Family, port : Nat])
      BY StreamAssumption DEF TransformInv
    <2> QED
      BY <2>1, FieldOfEach DEF HostsOf
  <1>4. \A j \in 1..Len(HostsOf(d)) : IsIP(HostsOf(d)[j])
    BY <1>2 DEF chooseAddressType
  <1>5. Family[HostsOf(d)[k]] = Family[HostsOf(d)[1]]
    <2>1. k \in 1..Len(HostsOf(d)) /\ \A j \in 1..k : IsIP(HostsOf(d)[j])
      BY <1>2, <1>3, <1>4
    <2> QED
      BY <1>1, <2>1 DEF MixedFamilies
  <1> QED
    BY <1>2, <1>4, <1>5 DEF chooseAddressType

-----------------------------------------------------------------------------
(***************************************************************************)
(* What is written and what is left to do, stage by stage.                 *)
(***************************************************************************)
LeftToDo ==
    /\ stage = 1 => left \subseteq DOMAIN svcs
    /\ stage = 3 => left \subseteq DOMAIN ingresses
    /\ stage = 4 => left \cap DOMAIN ingresses = {}
    /\ stage = 5 => left \cap DOMAIN svcs = {}

(* From the second stage on every Service that is built is in the cluster. *)
ServicesWritten ==
    stage > 0 => \A key \in DOMAIN svcs :
        \/ stage = 1 /\ key \in left
        \/ key \in DOMAIN cluster.svcs /\ cluster.svcs[key] = svcs[key]

(* From the fourth stage on every route that is built is in the cluster. *)
RoutesWritten ==
    stage > 2 => \A key \in DOMAIN ingresses :
        \/ stage = 3 /\ key \in left
        \/ key \in DOMAIN cluster.routes /\ cluster.routes[key] = ingresses[key]

(* From the fifth stage on, without a grace period, no other route is. *)
RoutesCollected ==
    ~grace /\ stage > 3 => \A key \in DOMAIN cluster.routes :
        key \in DOMAIN ingresses \/ (stage = 4 /\ key \in left)

(* Stronger than Finds: a Service that replaces another of its name has    *)
(* the port too.  Routes that dangled before are gone by the fifth stage.  *)
RoutesHold ==
    ~grace /\ ~SomeHashIsPort => \A n \in DOMAIN cluster.routes :
        \/ stage > 2 /\ FallsBack(n)
        \/ stage < 5 /\ DangledBefore(n)
        \/ Finds(cluster.routes[n], cluster.svcs) /\ ReadsPort(cluster.routes[n])

(* What holds of the cluster. *)
ClusterInv == ServicesWritten /\ RoutesWritten /\ RoutesCollected /\ RoutesHold

(* The inductive invariant of the reconciliation. *)
StreamInv ==
    /\ TransformInv
    /\ DOMAIN cluster = {"svcs", "slices", "routes"}
    /\ stage \in 0..7 /\ (stage > 0 => pc = "ok")
    /\ LeftToDo
    /\ ClusterInv

(* The stages by number. *)
LEMMA StageFacts ==
    /\ Len(Stages) = 6
    /\ Stages[1] = "services" /\ Stages[2] = "slices" /\ Stages[3] = "routes"
    /\ Stages[4] = "gcRoutes" /\ Stages[5] = "gcServices" /\ Stages[6] = "gcSlices"
  BY DEF Stages

(* What a call belongs to. *)
LEMMA AtStage ==
    /\ At("services") => stage = 1
    /\ At("slices") => stage = 2
    /\ At("routes") => stage = 3
    /\ At("gcRoutes") => stage = 4
    /\ At("gcServices") => stage = 5
    /\ At("gcSlices") => stage = 6
  <1>1. stage \in 1..6 => stage \in {1, 2, 3, 4, 5, 6}
    OBVIOUS
  <1> QED
    BY <1>1, StageFacts DEF At

(* What the stages go over that matter to routes. *)
LEMMA WorkOf ==
    /\ Work(Stages[1]) = DOMAIN svcs
    /\ Work(Stages[3]) = DOMAIN ingresses
    /\ Work(Stages[4]) = DOMAIN cluster.routes \ DOMAIN ingresses
    /\ Work(Stages[5]) = DOMAIN cluster.svcs \ DOMAIN svcs
  BY StageFacts DEF Work

(* One collection of the cluster changes, the others stay. *)
LEMMA ClusterUpdate ==
    ASSUME NEW c, DOMAIN c = {"svcs", "slices", "routes"}, NEW x
    PROVE  /\ DOMAIN [c EXCEPT !.svcs = x] = DOMAIN c
           /\ [c EXCEPT !.svcs = x].svcs = x /\ [c EXCEPT !.svcs = x].routes = c.routes
           /\ DOMAIN [c EXCEPT !.slices = x] = DOMAIN c
           /\ [c EXCEPT !.slices = x].svcs = c.svcs /\ [c EXCEPT !.slices = x].routes = c.routes
           /\ DOMAIN [c EXCEPT !.routes = x] = DOMAIN c
           /\ [c EXCEPT !.routes = x].svcs = c.svcs /\ [c EXCEPT !.routes = x].routes = x
  OBVIOUS

(* Earlier rounds left routes that hold and routes that dangle. *)
LEMMA StreamInitInv == StreamInit => StreamInv
  <1> SUFFICES ASSUME StreamInit PROVE StreamInv
    OBVIOUS
  <1>1. TransformInv /\ section \in Section
    BY TransformInitInv DEF StreamInit, TransformInit
  <1>2. /\ DOMAIN cluster = {"svcs", "slices", "routes"}
        /\ \A n \in DOMAIN cluster.routes : ReadsPort(cluster.routes[n])
    BY <1>1, LeftoverAssumption DEF StreamInit
  <1>3. stage = 0 /\ start = cluster
    BY DEF StreamInit
  <1> QED
    BY <1>1, <1>2, <1>3 DEF StreamInv, LeftToDo, ClusterInv, ServicesWritten, RoutesWritten,
                            RoutesCollected, RoutesHold, DangledBefore

(* The rest of the round leaves what was built alone. *)
LEMMA SameTransform ==
    ASSUME UNCHANGED transformVars
    PROVE  /\ section' = section /\ pc' = pc /\ svcs' = svcs /\ ingresses' = ingresses
           /\ SomeHashIsPort' = SomeHashIsPort
           /\ \A n : cluster'.routes[n] = cluster.routes[n] => FallsBack(n)' = FallsBack(n)
           /\ start' = start => \A n : cluster'.routes[n] = cluster.routes[n] =>
                                     DangledBefore(n)' = DangledBefore(n)
           /\ \A r : ReadsPort(r)' = ReadsPort(r)
  <1>1. section' = section /\ pc' = pc /\ svcs' = svcs /\ ingresses' = ingresses
    BY DEF transformVars
  <1> QED
    BY <1>1, SameSection DEF FallsBack, DangledBefore, Finds, ReadsPort

(* The stage goes on without touching a Service or a route. *)
LEMMA ClusterSame ==
    ASSUME StreamInv, UNCHANGED transformVars,
           DOMAIN cluster' = DOMAIN cluster,
           cluster'.svcs = cluster.svcs, cluster'.routes = cluster.routes,
           start' = start, grace' = grace, stage' = stage, left' \subseteq left,
           stage \in {1, 3, 4} => left' = left
    PROVE  StreamInv'
  <1>1. TransformInv'
    BY TransformStutter DEF StreamInv
  <1>2. LeftToDo'
    BY SameTransform DEF StreamInv, LeftToDo
  <1>3. ServicesWritten' /\ RoutesWritten' /\ RoutesCollected'
    BY SameTransform DEF StreamInv, ClusterInv, ServicesWritten, RoutesWritten, RoutesCollected
  <1>4. RoutesHold'
    BY SameTransform DEF StreamInv, ClusterInv, RoutesHold, Finds
  <1> QED
    BY <1>1, <1>2, <1>3, <1>4, SameTransform DEF StreamInv, ClusterInv

(* A Service that replaces one of its name keeps the port its routes name. *)
LEMMA ApplyServiceInv ==
    ASSUME StreamInv, NEW n \in left, ApplyService(n), left' = left \ {n},
           UNCHANGED <<transformVars, start, grace, stage, failed>>
    PROVE  StreamInv'
  <1> DEFINE x == With(cluster.svcs, n, svcs[n])
  <1>1. stage = 1 /\ pc = "ok" /\ n \in DOMAIN svcs /\ stage' = 1 /\ start' = start /\ grace' = grace /\ TransformInv
    BY AtStage DEF ApplyService, StreamInv, LeftToDo
  <1>2. TransformInv'
    BY TransformStutter DEF StreamInv
  <1>3. /\ DOMAIN cluster' = {"svcs", "slices", "routes"}
        /\ cluster'.svcs = x /\ cluster'.routes = cluster.routes
    <2>1. cluster' = [cluster EXCEPT !.svcs = x]
      BY DEF ApplyService
    <2> HIDE DEF x
    <2> QED
      BY <2>1, ClusterUpdate DEF StreamInv
  <1>4. /\ DOMAIN cluster'.svcs = DOMAIN cluster.svcs \cup {n} /\ cluster'.svcs[n] = svcs[n]
        /\ \A m \in DOMAIN cluster.svcs : m # n => cluster'.svcs[m] = cluster.svcs[m]
    BY <1>3 DEF With
  <1> HIDE DEF x
  <1>5. ServicesWritten'
    BY <1>1, <1>4, SameTransform DEF StreamInv, ClusterInv, ServicesWritten
  <1>6. RoutesHold'
    <2> SUFFICES ASSUME ~grace, ~SomeHashIsPort, NEW m \in DOMAIN cluster.routes,
                        ~DangledBefore(m)
                 PROVE  Finds(cluster.routes[m], cluster'.svcs) /\ ReadsPort(cluster.routes[m])
      BY <1>1, <1>3, SameTransform DEF RoutesHold, Finds
    <2>1. Finds(cluster.routes[m], cluster.svcs) /\ ReadsPort(cluster.routes[m])
      BY <1>1 DEF StreamInv, ClusterInv, RoutesHold
    <2>2. CASE cluster.routes[m].service = n
      <3>1. Indexed
        BY <1>1 DEF TransformInv
      <3>2. svcs[n].port = derivePortFromName(n)
        BY <1>1, <2>1, <2>2, <3>1, ServicePort DEF ReadsPort
      <3> QED
        BY <1>4, <2>1, <2>2, <3>2 DEF Finds, ReadsPort
    <2>3. CASE cluster.routes[m].service # n
      BY <1>4, <2>1, <2>3 DEF Finds
    <2> QED
      BY <2>2, <2>3
  <1>7. LeftToDo' /\ RoutesWritten' /\ RoutesCollected'
    BY <1>1, SameTransform DEF StreamInv, LeftToDo, RoutesWritten, RoutesCollected
  <1> QED
    BY <1>1, <1>2, <1>3, <1>5, <1>6, <1>7, SameTransform DEF StreamInv, ClusterInv

(* A route that is built holds as soon as its Service is written. *)
LEMMA BuiltRouteHolds ==
    ASSUME StreamInv, stage > 2, ~SomeHashIsPort, NEW n \in DOMAIN ingresses
    PROVE  \/ section.routers[ingresses[n].of].service \notin DOMAIN section.services
           \/ /\ ingresses[n].service \in DOMAIN svcs
              /\ Finds(ingresses[n], cluster.svcs) /\ ReadsPort(ingresses[n])
  <1> DEFINE d == section.routers[ingresses[n].of].service
  <1> SUFFICES ASSUME d \in DOMAIN section.services
               PROVE  /\ ingresses[n].service \in DOMAIN svcs
                      /\ Finds(ingresses[n], cluster.svcs) /\ ReadsPort(ingresses[n])
    OBVIOUS
  <1>1. TransformInv /\ pc = "ok" /\ stage # 1
    BY DEF StreamInv
  <1>2. Finds(ingresses[n], svcs) /\ ReadsPort(ingresses[n])
    BY <1>1, RouteFinds
  <1> QED
    BY <1>1, <1>2 DEF StreamInv, ClusterInv, ServicesWritten, Finds

(* A route is written after every Service it may name. *)
LEMMA ApplyRouteInv ==
    ASSUME StreamInv, NEW n \in left, ApplyRoute(n), left' = left \ {n},
           UNCHANGED <<transformVars, start, grace, stage, failed>>
    PROVE  StreamInv'
  <1> DEFINE x == With(cluster.routes, n, ingresses[n])
  <1>1. stage = 3 /\ n \in DOMAIN ingresses /\ stage' = 3 /\ start' = start /\ grace' = grace
    BY AtStage DEF ApplyRoute, StreamInv, LeftToDo
  <1>2. TransformInv'
    BY TransformStutter DEF StreamInv
  <1>3. /\ DOMAIN cluster' = {"svcs", "slices", "routes"}
        /\ cluster'.svcs = cluster.svcs /\ cluster'.routes = x
    <2>1. cluster' = [cluster EXCEPT !.routes = x]
      BY DEF ApplyRoute
    <2> HIDE DEF x
    <2> QED
      BY <2>1, ClusterUpdate DEF StreamInv
  <1>4. /\ DOMAIN cluster'.routes = DOMAIN cluster.routes \cup {n} /\ cluster'.routes[n] = ingresses[n]
        /\ \A m \in DOMAIN cluster.routes : m # n => cluster'.routes[m] = cluster.routes[m]
    BY <1>3 DEF With
  <1> HIDE DEF x
  <1>5. RoutesWritten'
    BY <1>1, <1>4, SameTransform DEF StreamInv, ClusterInv, RoutesWritten
  <1>6. RoutesHold'
    <2> SUFFICES ASSUME ~grace, ~SomeHashIsPort, NEW m \in DOMAIN cluster'.routes
                 PROVE  \/ FallsBack(m)'
                        \/ DangledBefore(m)'
                        \/ Finds(cluster'.routes[m], cluster.svcs) /\ ReadsPort(cluster'.routes[m])
      BY <1>1, <1>3, SameTransform DEF RoutesHold, Finds
    <2>1. CASE m = n
      BY <1>1, <1>4, <2>1, BuiltRouteHolds, SameTransform DEF FallsBack
    <2>2. CASE m # n
      <3>1. m \in DOMAIN cluster.routes /\ cluster'.routes[m] = cluster.routes[m]
        BY <1>4, <2>2
      <3> QED
        BY <1>1, <3>1, SameTransform DEF StreamInv, ClusterInv, RoutesHold
    <2> QED
      BY <2>1, <2>2
  <1>7. LeftToDo' /\ ServicesWritten' /\ RoutesCollected'
    BY <1>1, <1>3, SameTransform DEF StreamInv, LeftToDo, ClusterInv, ServicesWritten, RoutesCollected
  <1> QED
    BY <1>1, <1>2, <1>3, <1>5, <1>6, <1>7, SameTransform DEF StreamInv, ClusterInv

(* Only routes that were not built are collected. *)
LEMMA CollectRouteInv ==
    ASSUME StreamInv, NEW n \in left, CollectRoute(n), left' = left \ {n},
           UNCHANGED <<transformVars, start, grace, stage, failed>>
    PROVE  StreamInv'
  <1> DEFINE x == IF grace THEN cluster.routes ELSE Restrict(cluster.routes, DOMAIN cluster.routes \ {n})
  <1>1. stage = 4 /\ n \notin DOMAIN ingresses /\ stage' = 4 /\ start' = start /\ grace' = grace
    BY AtStage DEF CollectRoute, StreamInv, LeftToDo
  <1>2. TransformInv'
    BY TransformStutter DEF StreamInv
  <1>3. /\ DOMAIN cluster' = {"svcs", "slices", "routes"}
        /\ cluster'.svcs = cluster.svcs /\ cluster'.routes = x
    <2>1. cluster' = [cluster EXCEPT !.routes = x]
      BY DEF CollectRoute
    <2> HIDE DEF x
    <2> QED
      BY <2>1, ClusterUpdate DEF StreamInv
  <1>4. /\ DOMAIN cluster.routes \ {n} \subseteq DOMAIN cluster'.routes
        /\ DOMAIN cluster'.routes \subseteq DOMAIN cluster.routes
        /\ ~grace => n \notin DOMAIN cluster'.routes
        /\ \A m \in DOMAIN cluster'.routes : cluster'.routes[m] = cluster.routes[m]
    BY <1>3 DEF Restrict
  <1> HIDE DEF x
  <1>5. RoutesWritten' /\ RoutesCollected'
    BY <1>1, <1>4, SameTransform DEF StreamInv, ClusterInv, RoutesWritten, RoutesCollected
  <1>6. RoutesHold'
    BY <1>1, <1>3, <1>4, SameTransform DEF StreamInv, ClusterInv, RoutesHold, Finds
  <1>7. LeftToDo' /\ ServicesWritten'
    BY <1>1, <1>3, SameTransform DEF StreamInv, LeftToDo, ClusterInv, ServicesWritten
  <1> QED
    BY <1>1, <1>2, <1>3, <1>5, <1>6, <1>7, SameTransform DEF StreamInv, ClusterInv

(* No route is left that names a Service to be collected. *)
LEMMA CollectServiceInv ==
    ASSUME StreamInv, NEW n \in left, CollectService(n), left' = left \ {n},
           UNCHANGED <<transformVars, start, grace, stage, failed>>
    PROVE  StreamInv'
  <1> DEFINE x == Restrict(cluster.svcs, DOMAIN cluster.svcs \ {n})
  <1>1. stage = 5 /\ n \notin DOMAIN svcs /\ stage' = 5 /\ start' = start /\ grace' = grace
    BY AtStage DEF CollectService, StreamInv, LeftToDo
  <1>2. TransformInv'
    BY TransformStutter DEF StreamInv
  <1>3. /\ DOMAIN cluster' = {"svcs", "slices", "routes"}
        /\ cluster'.svcs = x /\ cluster'.routes = cluster.routes
    <2>1. cluster' = [cluster EXCEPT !.svcs = x]
      BY DEF CollectService
    <2> HIDE DEF x
    <2> QED
      BY <2>1, ClusterUpdate DEF StreamInv
  <1>4. /\ DOMAIN cluster'.svcs = DOMAIN cluster.svcs \ {n}
        /\ \A m \in DOMAIN cluster'.svcs : cluster'.svcs[m] = cluster.svcs[m]
    BY <1>3 DEF Restrict
  <1> HIDE DEF x
  <1>5. ServicesWritten'
    BY <1>1, <1>4, SameTransform DEF StreamInv, ClusterInv, ServicesWritten
  <1>6. RoutesHold'
    <2> SUFFICES ASSUME ~grace, ~SomeHashIsPort, NEW m \in DOMAIN cluster.routes
                 PROVE  \/ FallsBack(m)
                        \/ Finds(cluster.routes[m], cluster'.svcs) /\ ReadsPort(cluster.routes[m])
      BY <1>1, <1>3, SameTransform DEF RoutesHold, Finds
    <2>1. m \in DOMAIN ingresses /\ cluster.routes[m] = ingresses[m]
      BY <1>1 DEF StreamInv, ClusterInv, RoutesCollected, RoutesWritten
    <2> QED
      BY <1>1, <1>4, <2>1, BuiltRouteHolds DEF FallsBack, Finds
  <1>7. LeftToDo' /\ RoutesWritten' /\ RoutesCollected'
    BY <1>1, <1>3, SameTransform DEF StreamInv, LeftToDo, ClusterInv, RoutesWritten, RoutesCollected
  <1> QED
    BY <1>1, <1>2, <1>3, <1>5, <1>6, <1>7, SameTransform DEF StreamInv, ClusterInv

(* A stage that is through has done all its work. *)
LEMMA NextStageInv ==
    ASSUME StreamInv, NextStage
    PROVE  StreamInv'
  <1>1. /\ pc = "ok" /\ left = {} /\ stage \in 0..6 /\ stage' = stage + 1
        /\ stage' \in 1..7 /\ UNCHANGED transformVars
        /\ cluster' = cluster /\ start' = start /\ grace' = grace
    BY StageFacts DEF NextStage, StreamInv
  <1>2. stage < 6 => left' = Work(Stages[stage + 1])
    BY StageFacts DEF NextStage
  <1>3. TransformInv'
    BY <1>1, TransformStutter DEF StreamInv
  <1>4. /\ stage = 0 => left' = DOMAIN svcs
        /\ stage = 2 => left' = DOMAIN ingresses
        /\ stage = 3 => left' = DOMAIN cluster.routes \ DOMAIN ingresses
        /\ stage = 4 => left' = DOMAIN cluster.svcs \ DOMAIN svcs
    BY <1>2, WorkOf
  <1>5. LeftToDo'
    BY <1>1, <1>4, SameTransform DEF LeftToDo
  <1>6. ServicesWritten'
    BY <1>1, <1>4, SameTransform DEF StreamInv, ClusterInv, ServicesWritten
  <1>7. RoutesWritten'
    BY <1>1, <1>4, SameTransform DEF StreamInv, ClusterInv, RoutesWritten
  <1>8. RoutesCollected'
    BY <1>1, <1>4, SameTransform DEF StreamInv, ClusterInv, RoutesCollected
  <1>9. RoutesHold'
    <2>1. CASE stage # 4
      BY <1>1, <2>1, SameTransform DEF StreamInv, ClusterInv, RoutesHold, Finds
    <2>2. CASE stage = 4
      <3> SUFFICES ASSUME ~grace, ~SomeHashIsPort, NEW m \in DOMAIN cluster.routes
                   PROVE  \/ FallsBack(m)
                          \/ Finds(cluster.routes[m], cluster.svcs) /\ ReadsPort(cluster.routes[m])
        BY <1>1, <2>2, SameTransform DEF RoutesHold, Finds
      <3>1. m \in DOMAIN ingresses /\ cluster.routes[m] = ingresses[m]
        BY <1>1, <2>2 DEF StreamInv, ClusterInv, RoutesCollected, RoutesWritten
      <3> QED
        BY <2>2, <3>1, BuiltRouteHolds DEF FallsBack
    <2> QED
      BY <2>1, <2>2
  <1> QED
    BY <1>1, <1>3, <1>5, <1>6, <1>7, <1>8, <1>9, SameTransform DEF StreamInv, ClusterInv

(* While the section is transformed, nothing is written. *)
LEMMA TransformStepKeeps ==
    ASSUME StreamInv, TransformStep
    PROVE  StreamInv'
  <1>1. /\ TransformInv' /\ pc # "ok" /\ section' = section
        /\ cluster' = cluster /\ start' = start /\ grace' = grace /\ stage' = stage /\ left' = left
    BY TransformStepInv DEF TransformStep, StreamInv, TransformNext, BuildIndex, StartRoutes,
                            TransformFail, TransformReturn, BuildArtifacts, BuildRoute
  <1>2. stage = 0
    BY <1>1 DEF StreamInv
  <1>3. RoutesHold'
    BY <1>1, <1>2, SameSection DEF StreamInv, ClusterInv, RoutesHold, DangledBefore, Finds, ReadsPort
  <1> QED
    BY <1>1, <1>2, <1>3 DEF StreamInv, LeftToDo, ClusterInv, ServicesWritten, RoutesWritten, RoutesCollected

(* Every step preserves the invariant. *)
LEMMA StreamStepInv ==
    ASSUME StreamInv, [StreamNext]_streamVars
    PROVE  StreamInv'
  <1>1. ASSUME NEW n \in left, Call(n) PROVE StreamInv'
    <2>1. left' = left \ {n} /\ UNCHANGED <<transformVars, start, grace, stage, failed>>
      BY <1>1 DEF Call
    <2>2. CASE ApplyService(n)
      BY <2>1, <2>2, ApplyServiceInv
    <2>3. CASE ApplyRoute(n)
      BY <2>1, <2>3, ApplyRouteInv
    <2>4. CASE CollectRoute(n)
      BY <2>1, <2>4, CollectRouteInv
    <2>5. CASE CollectService(n)
      BY <2>1, <2>5, CollectServiceInv
    <2>6. CASE ApplySlice(n) \/ CollectSlice(n)
      <3>1. stage = 2 \/ stage = 6
        BY <2>6, AtStage DEF ApplySlice, CollectSlice
      <3>2. PICK x : cluster' = [cluster EXCEPT !.slices = x]
        BY <2>6 DEF ApplySlice, CollectSlice
      <3>3. /\ DOMAIN cluster' = DOMAIN cluster
            /\ cluster'.svcs = cluster.svcs /\ cluster'.routes = cluster.routes
        BY <3>2, ClusterUpdate DEF StreamInv
      <3> QED
        BY <2>1, <3>1, <3>3, ClusterSame
    <2> QED
      BY <1>1, <2>2, <2>3, <2>4, <2>5, <2>6 DEF Call
  <1>2. CASE CallFails \/ UNCHANGED streamVars
    <2>1. UNCHANGED <<transformVars, cluster, start, grace, stage, left>>
      BY <1>2 DEF CallFails, streamVars
    <2> QED
      BY <2>1, ClusterSame
  <1> QED
    BY <1>1, <1>2, NextStageInv, TransformStepKeeps DEF StreamNext

(* The inductive invariant holds in every reachable state. *)
LEMMA StreamInvariant == StreamSpec => []StreamInv
  <1>1. StreamInit => StreamInv
    BY StreamInitInv
  <1>2. StreamInv /\ [StreamNext]_streamVars => StreamInv'
    BY StreamStepInv
  <1> QED
    BY <1>1, <1>2, PTL DEF StreamSpec

(***************************************************************************)
(* buildTCPRoutes and buildUDPRoutes: a route names a Service that is      *)
(* built, with the port of that Service, of the slice built beside it and  *)
(* of all the servers, for names and ports of any length - unless a name   *)
(* is cut and its hash reads as a port.                                    *)
(***************************************************************************)
THEOREM RouteSafety == StreamSpec => []RoutesNameServices
  <1>1. StreamInv => RoutesNameServices
    BY NamedServices DEF StreamInv
  <1> QED
    BY <1>1, StreamInvariant, PTL

(***************************************************************************)
(* chooseAddressType: an EndpointSlice of an IP family holds addresses of  *)
(* that family only, for any list of hosts.                                *)
(***************************************************************************)
THEOREM UniformSafety == StreamSpec => []SlicesAreUniform
  <1>1. StreamInv => SlicesAreUniform
    BY UniformSlices DEF StreamInv
  <1> QED
    BY <1>1, StreamInvariant, PTL

(***************************************************************************)
(* reconcileTCP and reconcileUDP: from any cluster, a round makes no route *)
(* dangle, wherever a call fails, and one that succeeds leaves none that   *)
(* dangled before - provided routes are collected at once and no hash      *)
(* reads as a port.                                                        *)
(***************************************************************************)
THEOREM DangleSafety == StreamSpec => []RoutesNeverDangle
  <1>1. StreamInv => RoutesNeverDangle
    <2>1. StreamInv /\ stage < 5 => stage <= Len(Stages)
      BY StageFacts DEF StreamInv
    <2> QED
      BY <2>1 DEF StreamInv, ClusterInv, RoutesHold, RoutesNeverDangle
  <1> QED
    BY <1>1, StreamInvariant, PTL

-----------------------------------------------------------------------------
(* The order of names. *)

LEMMA PlaceType ==
    ASSUME NEW c \in Chars
    PROVE  Place(c) \in Int
  <1>1. Len(Char) \in Nat
    BY NameAssumption
  <1>2. \E i \in 1..Len(Char) : Char[i] = c
    BY DEF Chars
  <1>3. Place(c) \in 1..Len(Char)
    BY <1>2, Zenon DEF Place
  <1> QED
    BY <1>1, <1>3

(* Equal prefixes agree character by character. *)
LEMMA PrefixAgrees ==
    ASSUME NEW s \in Seq(Chars), NEW t \in Seq(Chars), NEW n \in Int,
           n <= Len(s), n <= Len(t), SubSeq(s, 1, n) = SubSeq(t, 1, n),
           NEW j \in 1..n
    PROVE  s[j] = t[j]
  BY Z3

LEMMA LessAsymmetric ==
    ASSUME NEW x \in Int, NEW y \in Int, x < y, y < x
    PROVE  FALSE
  BY Z3

(* Two names that each come before the other in byte order do not exist. *)
LEMMA BeforeAsymmetric ==
    ASSUME NEW s \in Seq(Chars), NEW t \in Seq(Chars), Before(s, t), Before(t, s)
    PROVE  FALSE
  <1> DEFINE Differ(a, b, i) == /\ i \in 1..Len(a) /\ i <= Len(b)
                                /\ SubSeq(a, 1, i - 1) = SubSeq(b, 1, i - 1)
                                /\ Place(a[i]) < Place(b[i])
  <1>1. \A a, b \in Seq(Chars) :
           Before(a, b) => \/ Len(a) < Len(b) /\ \A j \in 1..Len(a) : a[j] = b[j]
                           \/ \E i \in 1..Len(a) : Differ(a, b, i)
    <2> SUFFICES ASSUME NEW a \in Seq(Chars), NEW b \in Seq(Chars), Before(a, b), IsStrictPrefix(a, b)
                 PROVE  Len(a) < Len(b) /\ \A j \in 1..Len(a) : a[j] = b[j]
      BY DEF Before
    <2>1. Len(a) <= Len(b) /\ SubSeq(a, 1, Len(a)) = SubSeq(b, 1, Len(a)) /\ a # b
      BY DEF IsStrictPrefix, IsPrefix
    <2>2. \A j \in 1..Len(a) : a[j] = b[j]
      BY <2>1, PrefixAgrees
    <2>3. Len(a) # Len(b)
      BY <2>1, <2>2
    <2> QED
      BY <2>1, <2>2, <2>3
  <1>2. \A a \in Seq(Chars) : \A i \in 1..Len(a) : a[i] \in Chars /\ Place(a[i]) \in Int
    BY PlaceType
  <1>3. \A a, b \in Seq(Chars) : \A i \in 1..Len(a) : Differ(a, b, i) =>
           /\ \A j \in 1..(i - 1) : a[j] = b[j]
           /\ i <= Len(b) /\ a[i] # b[i]
    <2> SUFFICES ASSUME NEW a \in Seq(Chars), NEW b \in Seq(Chars), NEW i \in 1..Len(a), Differ(a, b, i)
                 PROVE  /\ \A j \in 1..(i - 1) : a[j] = b[j]
                        /\ a[i] # b[i]
      OBVIOUS
    <2>1. a[i] # b[i]
      BY <1>2
    <2>2. \A j \in 1..(i - 1) : a[j] = b[j]
      BY PrefixAgrees
    <2> QED
      BY <2>1, <2>2
  <1> HIDE DEF Differ
  <1>4. CASE Len(s) < Len(t) /\ \A j \in 1..Len(s) : s[j] = t[j]
    <2>1. PICK i \in 1..Len(t) : Differ(t, s, i)
      BY <1>1, <1>4
    <2>2. i \in 1..Len(s) /\ t[i] # s[i]
      BY <2>1, <1>3
    <2> QED
      BY <2>2, <1>4
  <1>5. CASE \E i \in 1..Len(s) : Differ(s, t, i)
    <2>1. PICK i \in 1..Len(s) : Differ(s, t, i)
      BY <1>5
    <2>2. CASE Len(t) < Len(s) /\ \A j \in 1..Len(t) : t[j] = s[j]
      BY <2>1, <2>2, <1>3
    <2>3. CASE \E h \in 1..Len(t) : Differ(t, s, h)
      <3>1. PICK h \in 1..Len(t) : Differ(t, s, h)
        BY <2>3
      <3>2. i = h
        <4>1. /\ \A j \in 1..(i - 1) : s[j] = t[j]
              /\ \A j \in 1..(h - 1) : t[j] = s[j]
              /\ s[i] # t[i] /\ t[h] # s[h]
          BY <2>1, <3>1, <1>3
        <4>2. ~(i < h) /\ ~(h < i)
          BY <4>1
        <4> QED
          BY <4>2
      <3>3. Place(s[i]) < Place(t[i]) /\ Place(t[i]) < Place(s[i])
        BY <2>1, <3>1, <3>2 DEF Differ
      <3>4. Place(s[i]) \in Int /\ Place(t[i]) \in Int
        BY <1>2, <2>1, <3>1, <3>2
      <3> QED
        BY <3>3, <3>4, LessAsymmetric, Zenon
    <2> QED
      BY <1>1, <2>2, <2>3
  <1> QED
    BY <1>1, <1>4, <1>5

-----------------------------------------------------------------------------
(* The conversion of a service. *)

(* What a server that names a Service reaches is the Service it names. *)
LEMMA ServiceURLReaches ==
    ASSUME NEW u \in URL, IsServiceURL(u)
    PROVE  Reaches(u, parseKubeServiceURL(u))
  BY Zenon DEF Reaches, parseKubeServiceURL, IsServiceURL

LEMMA OnlyOne ==
    ASSUME NEW l \in Nat \ {0}, ~(l > 1)
    PROVE  l = 1
  BY Z3

(* A bare name is a host of one part. *)
LEMMA BareHost ==
    ASSUME NEW u \in URL, ~Qualified(u)
    PROVE  Len(u.host) = 1
  <1>1. u.host \in Seq(Part) /\ u.host # <<>> /\ ~(Len(u.host) > 1)
    BY DEF URL, Qualified
  <1>2. Len(u.host) = 1
    <2> DEFINE h == u.host
    <2>1. h \in Seq(Part) /\ h # <<>> /\ ~(Len(h) > 1)
      BY <1>1
    <2> HIDE DEF h
    <2>2. Len(h) \in Nat \ {0}
      BY <2>1, EmptySeq, Zenon
    <2>3. Len(h) = 1
      <3>1. ~(Len(h) > 1)
        BY <2>1, Zenon
      <3> QED
        BY <2>2, <3>1, OnlyOne, Zenon
    <2> QED
      BY <2>3 DEF h
  <1> QED
    BY <1>2

(* The qualified form of a bare name reaches the same. *)
LEMMA BareNameReaches ==
    ASSUME NEW u \in URL, ~Qualified(u), u # NoURL,
           NEW v, v = [u EXCEPT !.host = <<u.host[1], Namespace, "svc">>, !.path = FALSE]
    PROVE  Reaches(u, parseKubeServiceURL(v))
  <1>1. /\ v.host[1] = u.host[1] /\ v.host[2] = Namespace
        /\ v.port = u.port /\ v.scheme = u.scheme
    BY DEF URL
  <1> QED
    BY <1>1, BareHost DEF Reaches, parseKubeServiceURL, derivePort

LEMMA ServersType ==
    ASSUME NEW s \in ServiceSpec
    PROVE  /\ s.servers \in Seq(Server) /\ Len(s.servers) \in Nat
           /\ \A k \in 1..Len(s.servers) : s.servers[k] \in Server
  <1>1. s.servers \in Seq(Server)
    BY DEF ServiceSpec
  <1> DEFINE list == s.servers
  <1> HIDE DEF list
  <1>2. list \in Seq(Server)
    BY <1>1 DEF list
  <1>3. Len(list) \in Nat /\ \A k \in 1..Len(list) : list[k] \in Server
    BY <1>2
  <1> QED
    BY <1>1, <1>3 DEF list

(* A list of servers that agree on one Service reaches that Service. *)
LEMMA UniformReaches ==
    ASSUME NEW list \in Seq(Server), Uniform(list), NEW k \in 1..Len(list)
    PROVE  /\ ~list[k].extra
           /\ list[k].url \in URL
           /\ Reaches(list[k].url, parseKubeServiceURL(list[1].url))
           /\ parseKubeServiceURL(list[k].url) = parseKubeServiceURL(list[1].url)
  <1>1. ~list[k].extra /\ IsServiceURL(list[k].url)
    BY DEF Uniform
  <1>2. list[k].url \in URL
    <2>1. list[k] \in Server
      OBVIOUS
    <2> QED
      BY <1>1, <2>1 DEF Server, IsServiceURL
  <1>3. parseKubeServiceURL(list[k].url) = parseKubeServiceURL(list[1].url)
    <2>1. CASE k = 1
      BY <2>1
    <2>2. CASE k # 1
      BY <2>2 DEF Uniform, equals
    <2> QED
      BY <2>1, <2>2
  <1> QED
    BY <1>1, <1>2, <1>3, ServiceURLReaches

(* Qualifying bare names keeps the servers' other keys and what they reach. *)
LEMMA RewrittenReaches ==
    ASSUME NEW list \in Seq(Server), Rewrites(list), Uniform(rewriteShortNameHosts(list)),
           NEW k \in 1..Len(list)
    PROVE  /\ ~list[k].extra
           /\ Reaches(list[k].url, parseKubeServiceURL(rewriteShortNameHosts(list)[1].url))
  <1> DEFINE out == rewriteShortNameHosts(list)
  <1>1. list[k] \in Server /\ list[k].url # NoURL
    BY DEF Rewrites
  <1>2. list[k].url \in URL
    BY <1>1 DEF Server
  <1>3. Len(out) = Len(list) /\ 1 \in 1..Len(list) /\ k \in Nat
    <2>1. DOMAIN out = 1..Len(list)
      BY DEF rewriteShortNameHosts
    <2>2. out = [j \in 1..Len(list) |-> out[j]]
      BY <2>1 DEF rewriteShortNameHosts
    <2> HIDE DEF out
    <2> QED
      BY <2>2
  <1>4. /\ ~out[k].extra /\ IsServiceURL(out[k].url)
        /\ parseKubeServiceURL(out[k].url) = parseKubeServiceURL(out[1].url)
    <2>1. ~out[k].extra /\ IsServiceURL(out[k].url)
      BY <1>3 DEF Uniform
    <2>2. CASE k = 1
      BY <2>1, <2>2
    <2>3. CASE k # 1
      BY <2>1, <2>3, <1>3 DEF Uniform, equals
    <2> QED
      BY <2>2, <2>3
  <1>5. CASE Qualified(list[k].url)
    <2>1. out[k] = list[k]
      BY <1>5, <1>3 DEF rewriteShortNameHosts
    <2> QED
      BY <2>1, <1>2, <1>4, ServiceURLReaches
  <1>6. CASE ~Qualified(list[k].url)
    <2> DEFINE u == list[k].url
    <2>1. out[k] = [list[k] EXCEPT !.url = [u EXCEPT !.host = <<u.host[1], Namespace, "svc">>, !.path = FALSE]]
      BY <1>6, <1>3 DEF rewriteShortNameHosts
    <2>2. out[k].url = [u EXCEPT !.host = <<u.host[1], Namespace, "svc">>, !.path = FALSE]
      BY <2>1, <1>1 DEF Server
    <2>3. out[k].extra = list[k].extra
      BY <2>1, <1>1 DEF Server
    <2>4. Reaches(u, parseKubeServiceURL(out[k].url))
      BY <2>2, <1>1, <1>2, <1>6, BareNameReaches
    <2> QED
      BY <2>3, <2>4, <1>4
  <1> QED
    BY <1>5, <1>6

(***************************************************************************)
(* processSingleService: a spec with servers becomes a Service reference   *)
(* only if it is nothing but its servers and all of them reach it.         *)
(***************************************************************************)
LEMMA ConversionReaches ==
    ASSUME NEW s \in ServiceSpec, processSingleService(s).kind = "service", s.servers # <<>>
    PROVE  /\ ~s.others /\ ~s.lbOthers
           /\ \A k \in 1..Len(s.servers) :
                 /\ ~s.servers[k].extra
                 /\ Reaches(s.servers[k].url, processSingleService(s).target)
  <1> DEFINE out == processSingleService(s)
  <1>1. ~IsEmpty(s)
    BY DEF processSingleService, processEmptyService, Filled, Unchanged
  <1>2. out = processNonEmptyService(s)
    BY <1>1 DEF processSingleService
  <1>3. Converts(s)
    <2> SUFFICES ASSUME ~Converts(s) PROVE FALSE
      OBVIOUS
    <2>1. ~isEmptyLoadBalancer(s)
      BY DEF isEmptyLoadBalancer
    <2>2. out = Unchanged(s)
      BY <1>2, <2>1, Zenon DEF processNonEmptyService
    <2> QED
      BY <2>2 DEF Unchanged
  <1>4. out = convertLoadBalancerToK8sService(s)
    <2>1. isEmptyLoadBalancer(s) = FALSE
      BY DEF isEmptyLoadBalancer
    <2> QED
      BY <1>2, <1>3, <2>1, Zenon DEF processNonEmptyService
  <1>5. ~s.others /\ ~s.lbOthers
    BY <1>3 DEF Converts, extractLBServers
  <1>6. CASE Uniform(s.servers)
    <2>1. out.target = parseKubeServiceURL(s.servers[1].url)
      BY <1>4, <1>6 DEF convertLoadBalancerToK8sService, Weighted
    <2> QED
      BY <1>5, <1>6, <2>1, ServersType, UniformReaches
  <1>7. CASE ~Uniform(s.servers)
    <2>1. out.target = parseKubeServiceURL(rewriteShortNameHosts(s.servers)[1].url)
      BY <1>4, <1>7 DEF convertLoadBalancerToK8sService, Weighted
    <2>2. Rewrites(s.servers) /\ Uniform(rewriteShortNameHosts(s.servers))
      BY <1>3, <1>7 DEF Converts
    <2> QED
      BY <1>5, <2>1, <2>2, ServersType, RewrittenReaches
  <1> QED
    BY <1>6, <1>7

(* Only a spec that lists servers becomes a Service reference. *)
LEMMA ConversionLists ==
    ASSUME NEW s \in ServiceSpec, processSingleService(s).kind = "service"
    PROVE  s.listed
  <1>1. CASE s.servers # <<>>
    BY <1>1 DEF ServiceSpec
  <1>2. CASE s.servers = <<>>
    <2> DEFINE out == processSingleService(s)
    <2>1. out = processNonEmptyService(s)
      BY DEF processSingleService, processEmptyService, Filled, Unchanged
    <2>2. ~Converts(s)
      BY <1>2 DEF Converts, extractLBServers
    <2> SUFFICES ASSUME ~s.listed PROVE FALSE
      BY DEF ServiceSpec
    <2>3. ~isEmptyLoadBalancer(s)
      BY DEF isEmptyLoadBalancer
    <2>4. out = Unchanged(s)
      BY <2>1, <2>2, <2>3, Zenon DEF processNonEmptyService
    <2> QED
      BY <2>4 DEF Unchanged
  <1> QED
    BY <1>1, <1>2

(* What became of a service: its spec, a filled empty one, or a Service. *)
LEMMA ConversionKinds ==
    ASSUME NEW s \in ServiceSpec
    PROVE  LET out == processSingleService(s) IN
           \/ out.kind = "spec" /\ out.spec = s
           \/ out.kind = "filled" /\ IsEmpty(s)
           \/ out.kind = "service"
  BY DEF processSingleService, processEmptyService, processNonEmptyService, Unchanged, Filled,
         Weighted, convertLoadBalancerToK8sService, rewriteAsGatewayService

-----------------------------------------------------------------------------
(* Configurations. *)

LEMMA OrderFacts ==
    /\ Len(Order) = 4
    /\ \A j \in 1..4 : Order[j] \in Kind
    /\ \A k \in Kind : \E j \in 1..4 : Order[j] = k
    /\ \A i, j \in 1..4 : Order[i] = Order[j] => i = j
    /\ {"middlewares", "services", "serversTransports", "routers"} \subseteq Kind
  BY DEF Order, Kind

LEMMA ConfigFacts ==
    ASSUME NEW c \in Config, NEW k \in Kind, NEW n \in DOMAIN c[k]
    PROVE  /\ n \in Seq(Chars)
           /\ Len(c[k][n].refs) \in Nat
           /\ \A i \in 1..Len(c[k][n].refs) : c[k][n].refs[i] \in Kind \X Seq(Chars)
  <1>1. n \in Seq(Chars) /\ c[k][n].refs \in Seq(RefersTo(k) \X Seq(Chars))
    BY ConfigAssumption
  <1>2. RefersTo(k) \subseteq Kind
    BY DEF RefersTo, Kind, Order
  <1> DEFINE refs == c[k][n].refs
  <1> DEFINE S == RefersTo(k) \X Seq(Chars)
  <1>3. refs \in Seq(S)
    BY <1>1
  <1>4. S \subseteq Kind \X Seq(Chars)
    BY <1>2
  <1> HIDE DEF refs, S
  <1>5. Len(refs) \in Nat /\ \A i \in 1..Len(refs) : refs[i] \in S
    BY <1>3, LenProperties, ElementOfSeq
  <1>6. \A i \in 1..Len(refs) : refs[i] \in Kind \X Seq(Chars)
    BY <1>4, <1>5
  <1> QED
    BY <1>1, <1>5, <1>6 DEF refs

-----------------------------------------------------------------------------
(* What the loops have built so far. *)

SectionType ==
    /\ cfg \in Config
    /\ at \in 1..4
    /\ DOMAIN sanitized = Kind
    /\ todo \subseteq DOMAIN cfg[Order[at]]
    /\ result \in {"none", "ok", "error"}
    /\ result = "ok" => at = 4 /\ todo = {}

(* The names of the j-th section that have been dealt with. *)
Done(j) ==
    {n \in DOMAIN cfg[Order[j]] : j < at \/ (j = at /\ n \notin todo)}

(* n is the last so far of the names that share its Kubernetes name. *)
StaysSoFar(j, n) ==
    \A m \in Done(j) \ {n} : SanitizeResourceName(m) = SanitizeResourceName(n) => Before(m, n)

NamesSoFar ==
    \A j \in 1..4 :
        DOMAIN sanitized[Order[j]] = {SanitizeResourceName(n) : n \in Done(j)}

InByteOrder == \A p \in Done(at), m \in todo : Before(p, m)

LastSoFar ==
    \A j \in 1..4 : \A key \in DOMAIN sanitized[Order[j]] :
        \E n \in Done(j) :
            /\ SanitizeResourceName(n) = key
            /\ StaysSoFar(j, n)
            /\ sanitized[Order[j]][key] = Rewritten(cfg[Order[j]][n], Mappings(cfg))

SectionsInv ==
    /\ SectionType
    /\ result # "error" => NamesSoFar /\ InByteOrder /\ LastSoFar
    /\ result = "error" => sanitized = Nothing

(* Nothing has been built before the first name is looked at. *)
LEMMA SectionsInit == Init => SectionsInv
  <1> SUFFICES ASSUME Init PROVE SectionsInv
    OBVIOUS
  <1>1. SectionType
    BY OrderFacts DEF Init, SectionType, Nothing, Names
  <1>2. \A j \in 1..4 : Done(j) = {}
    BY DEF Init, Done, Names
  <1>3. \A j \in 1..4 : DOMAIN sanitized[Order[j]] = {}
    BY OrderFacts DEF Init, Nothing, NoSpecs
  <1>4. NamesSoFar
    BY <1>2, <1>3 DEF NamesSoFar
  <1>5. InByteOrder
    BY <1>1, <1>2 DEF InByteOrder, SectionType
  <1>6. LastSoFar
    BY <1>3 DEF LastSoFar
  <1> QED
    BY <1>1, <1>4, <1>5, <1>6 DEF SectionsInv, Init

(* Nothing the invariant speaks of changes. *)
LEMMA SectionsStutter == SectionsInv /\ UNCHANGED vars => SectionsInv'
  BY DEF SectionsInv, vars, SectionType, NamesSoFar, InByteOrder, LastSoFar, Done, StaysSoFar

(* A turn of a loop: the last name so far takes its Kubernetes name. *)
LEMMA PopulateStep ==
    ASSUME SectionsInv, NEW n \in todo, Populate(n)
    PROVE  SectionsInv'
  <1> DEFINE k == Order[at]
  <1> DEFINE key == SanitizeResourceName(n)
  <1>0. SectionType /\ NamesSoFar /\ InByteOrder /\ LastSoFar /\ result = "none"
    BY DEF SectionsInv, Populate
  <1>1. /\ at \in 1..4 /\ k \in Kind /\ n \in DOMAIN cfg[k]
        /\ \A j \in 1..4 : Order[j] \in Kind /\ (Order[j] = k => j = at)
    BY <1>0, OrderFacts DEF SectionType
  <1>2. cfg' = cfg /\ at' = at /\ result' = "none" /\ todo' = todo \ {n}
    BY DEF Populate
  <1>3. /\ DOMAIN sanitized' = Kind
        /\ DOMAIN sanitized'[k] = DOMAIN sanitized[k] \cup {key}
        /\ sanitized'[k][key] = Rewritten(cfg[k][n], Mappings(cfg))
        /\ \A x \in DOMAIN sanitized[k] \ {key} : sanitized'[k][x] = sanitized[k][x]
        /\ \A j \in 1..4 \ {at} : sanitized'[Order[j]] = sanitized[Order[j]]
    BY <1>0, <1>1 DEF Populate, SectionType
  <1>4. ASSUME NEW j \in 1..4
        PROVE  Done(j)' = IF j = at THEN Done(j) \cup {n} ELSE Done(j)
    <2>1. Done(j)' = {m \in DOMAIN cfg[Order[j]] : j < at \/ (j = at /\ m \notin todo \ {n})}
      BY <1>2 DEF Done
    <2>2. CASE j = at
      <3>1. ~(j < at) /\ n \in DOMAIN cfg[Order[j]]
        BY <1>1, <2>2
      <3> QED
        BY <2>1, <2>2, <3>1, Zenon DEF Done
    <2>3. CASE j # at
      <3>1. Done(j) = {m \in DOMAIN cfg[Order[j]] : j < at}
        BY <2>3 DEF Done
      <3>2. Done(j)' = {m \in DOMAIN cfg[Order[j]] : j < at}
        BY <2>1, <2>3
      <3> QED
        BY <2>3, <3>1, <3>2, Zenon
    <2> QED
      BY <2>2, <2>3
  <1>5. SectionType'
    BY <1>0, <1>2, <1>3 DEF SectionType
  <1>6. NamesSoFar'
    BY <1>0, <1>2, <1>3, <1>4 DEF NamesSoFar
  <1>7. InByteOrder'
    <2>1. Done(at)' = Done(at) \cup {n} /\ todo' = todo \ {n}
      BY <1>1, <1>2 DEF Done
    <2>2. \A m \in todo \ {n} : Before(n, m)
      BY DEF Populate, NextKey
    <2> QED
      BY <1>0, <2>1, <2>2 DEF InByteOrder
  <1>8. ASSUME NEW j \in 1..4, NEW x \in DOMAIN sanitized'[Order[j]]
        PROVE  \E m \in Done(j)' : /\ SanitizeResourceName(m) = x
                                   /\ StaysSoFar(j, m)'
                                   /\ sanitized'[Order[j]][x] = Rewritten(cfg[Order[j]][m], Mappings(cfg))
    <2>1. CASE j = at /\ x = key
      <3>1. n \in Done(j)' /\ sanitized'[Order[j]][x] = Rewritten(cfg[Order[j]][n], Mappings(cfg))
        BY <1>3, <1>4, <2>1
      <3>2. StaysSoFar(j, n)'
        BY <1>0, <1>4, <2>1 DEF StaysSoFar, InByteOrder
      <3> QED
        BY <2>1, <3>1, <3>2
    <2>2. CASE j = at /\ x # key
      <3>1. x \in DOMAIN sanitized[Order[j]]
        BY <1>3, <1>8, <2>2
      <3>2. PICK m \in Done(j) : /\ SanitizeResourceName(m) = x
                                 /\ StaysSoFar(j, m)
                                 /\ sanitized[Order[j]][x] = Rewritten(cfg[Order[j]][m], Mappings(cfg))
        BY <1>0, <3>1 DEF LastSoFar
      <3>3. m \in Done(j)' /\ sanitized'[Order[j]][x] = Rewritten(cfg[Order[j]][m], Mappings(cfg))
        BY <1>3, <1>4, <2>2, <3>1, <3>2
      <3>4. StaysSoFar(j, m)'
        BY <1>4, <2>2, <3>2 DEF StaysSoFar
      <3> QED
        BY <3>2, <3>3, <3>4
    <2>3. CASE j # at
      <3>1. x \in DOMAIN sanitized[Order[j]]
        BY <1>3, <1>8, <2>3
      <3>2. PICK m \in Done(j) : /\ SanitizeResourceName(m) = x
                                 /\ StaysSoFar(j, m)
                                 /\ sanitized[Order[j]][x] = Rewritten(cfg[Order[j]][m], Mappings(cfg))
        BY <1>0, <3>1 DEF LastSoFar
      <3>3. m \in Done(j)' /\ sanitized'[Order[j]][x] = Rewritten(cfg[Order[j]][m], Mappings(cfg))
        BY <1>3, <1>4, <2>3, <3>2
      <3>4. StaysSoFar(j, m)'
        BY <1>4, <2>3, <3>2 DEF StaysSoFar
      <3> QED
        BY <3>2, <3>3, <3>4
    <2> QED
      BY <2>1, <2>2, <2>3
  <1>9. LastSoFar'
    BY <1>8, <1>2 DEF LastSoFar
  <1> QED
    BY <1>2, <1>5, <1>6, <1>7, <1>9 DEF SectionsInv

(* A section that is through is followed by the next. *)
LEMMA NextSectionStep == SectionsInv /\ NextSection => SectionsInv'
  <1> SUFFICES ASSUME SectionsInv, NextSection PROVE SectionsInv'
    OBVIOUS
  <1>0. SectionType /\ NamesSoFar /\ InByteOrder /\ LastSoFar
    BY DEF SectionsInv, NextSection
  <1>1. /\ at \in 1..3 /\ at' = at + 1 /\ todo = {} /\ todo' = DOMAIN cfg[Order[at']]
        /\ cfg' = cfg /\ sanitized' = sanitized /\ result' = "none"
    BY <1>0, OrderFacts DEF NextSection, SectionType, Names
  <1>2. ASSUME NEW j \in 1..4 PROVE Done(j)' = Done(j)
    <2>1. Done(j)' = {m \in DOMAIN cfg[Order[j]] : j < at' \/ (j = at' /\ m \notin todo')}
      BY <1>1, Zenon DEF Done
    <2>2. j < at' <=> j < at \/ j = at
      BY <1>1
    <2>3. j = at' => todo' = DOMAIN cfg[Order[j]]
      BY <1>1, Zenon
    <2>4. Done(j) = {m \in DOMAIN cfg[Order[j]] : j < at \/ j = at}
      BY <1>1, Zenon DEF Done
    <2>5. Done(j)' = {m \in DOMAIN cfg[Order[j]] : j < at'}
      BY <2>1, <2>3
    <2> QED
      BY <2>2, <2>4, <2>5, Zenon
  <1>3. Done(at)' = {}
    BY <1>1 DEF Done
  <1>4. SectionType'
    BY <1>0, <1>1 DEF SectionType
  <1>5. NamesSoFar'
    BY <1>0, <1>1, <1>2 DEF NamesSoFar
  <1>6. InByteOrder'
    BY <1>3 DEF InByteOrder
  <1>7. LastSoFar'
    BY <1>0, <1>1, <1>2 DEF LastSoFar, StaysSoFar
  <1> QED
    BY <1>1, <1>4, <1>5, <1>6, <1>7 DEF SectionsInv

(* The sanitizing steps preserve the invariant. *)
LEMMA SectionsStep == SectionsInv /\ [Next]_vars => SectionsInv'
  <1> SUFFICES ASSUME SectionsInv, [Next]_vars PROVE SectionsInv'
    OBVIOUS
  <1>1. ASSUME NEW n \in todo, Fail(n) PROVE SectionsInv'
    BY <1>1 DEF Fail, SectionsInv, SectionType, Nothing
  <1>2. CASE Return
    <2>1. UNCHANGED <<cfg, sanitized, at, todo>> /\ result' = "ok" /\ at = 4 /\ todo = {} /\ result = "none"
      BY <1>2, OrderFacts DEF Return
    <2>2. SectionType'
      BY <2>1 DEF SectionsInv, SectionType
    <2>3. NamesSoFar' /\ InByteOrder' /\ LastSoFar'
      BY <2>1 DEF SectionsInv, NamesSoFar, InByteOrder, LastSoFar, Done, StaysSoFar
    <2> QED
      BY <2>1, <2>2, <2>3 DEF SectionsInv
  <1> QED
    BY <1>1, <1>2, PopulateStep, NextSectionStep, SectionsStutter DEF Next

-----------------------------------------------------------------------------
(* The sanitized section. *)

(* Under each Kubernetes name is the rewritten spec of the last of its names. *)
LEMMA Result ==
    ASSUME SectionsInv, result = "ok", NEW k \in Kind
    PROVE  /\ DOMAIN sanitized[k] = {SanitizeResourceName(n) : n \in DOMAIN cfg[k]}
           /\ \A key \in DOMAIN sanitized[k] :
                 \E n \in Sanitizes(k, key) :
                    Stays(k, n) /\ sanitized[k][key] = Rewritten(cfg[k][n], Mappings(cfg))
  <1>0. NamesSoFar /\ LastSoFar /\ at = 4 /\ todo = {}
    BY DEF SectionsInv, SectionType
  <1>1. PICK j \in 1..4 : Order[j] = k
    BY OrderFacts
  <1>2. Done(j) = DOMAIN cfg[k]
    <2>1. j < at \/ j = at
      BY <1>0
    <2> QED
      BY <1>0, <1>1, <2>1, Zenon DEF Done
  <1>3. DOMAIN sanitized[k] = {SanitizeResourceName(n) : n \in DOMAIN cfg[k]}
    BY <1>0, <1>1, <1>2 DEF NamesSoFar
  <1>4. ASSUME NEW key \in DOMAIN sanitized[k]
        PROVE  \E n \in Sanitizes(k, key) :
                  Stays(k, n) /\ sanitized[k][key] = Rewritten(cfg[k][n], Mappings(cfg))
    <2>1. PICK n \in Done(j) : /\ SanitizeResourceName(n) = key
                               /\ StaysSoFar(j, n)
                               /\ sanitized[k][key] = Rewritten(cfg[k][n], Mappings(cfg))
      BY <1>0, <1>1, Zenon DEF LastSoFar
    <2>2. n \in Sanitizes(k, key)
      BY <1>2, <2>1 DEF Sanitizes
    <2>3. Stays(k, n)
      BY <1>2, <2>1 DEF Stays, StaysSoFar, Sanitizes
    <2> QED
      BY <2>1, <2>2, <2>3
  <1> QED
    BY <1>3, <1>4

LEMMA OneStays ==
    ASSUME cfg \in Config, NEW k \in Kind, NEW n \in DOMAIN cfg[k], NEW m \in DOMAIN cfg[k],
           SanitizeResourceName(n) = SanitizeResourceName(m), Stays(k, n), Stays(k, m)
    PROVE  n = m
  <1> SUFFICES ASSUME n # m PROVE FALSE
    OBVIOUS
  <1>1. Before(m, n) /\ Before(n, m)
    BY DEF Stays, Sanitizes
  <1>2. n \in Seq(Chars) /\ m \in Seq(Chars)
    BY ConfigFacts
  <1> QED
    BY <1>1, <1>2, BeforeAsymmetric

LEMMA ResultOf ==
    ASSUME SectionsInv, result = "ok", NEW k \in Kind, NEW n \in DOMAIN cfg[k], Stays(k, n)
    PROVE  /\ SanitizeResourceName(n) \in DOMAIN sanitized[k]
           /\ sanitized[k][SanitizeResourceName(n)] = Rewritten(cfg[k][n], Mappings(cfg))
  <1>1. SanitizeResourceName(n) \in DOMAIN sanitized[k]
    BY Result
  <1>2. PICK m \in Sanitizes(k, SanitizeResourceName(n)) :
           /\ Stays(k, m)
           /\ sanitized[k][SanitizeResourceName(n)] = Rewritten(cfg[k][m], Mappings(cfg))
    BY <1>1, Result
  <1>3. m \in DOMAIN cfg[k] /\ SanitizeResourceName(m) = SanitizeResourceName(n) /\ cfg \in Config
    BY <1>2 DEF Sanitizes, SectionsInv, SectionType
  <1>4. m = n
    BY <1>2, <1>3, OneStays
  <1> QED
    BY <1>1, <1>2, <1>4

(* A name no other shares stays. *)
LEMMA LoneStays ==
    ASSUME NEW k, NEW n, NEW key, Sanitizes(k, key) = {n}
    PROVE  n \in DOMAIN cfg[k] /\ SanitizeResourceName(n) = key /\ Stays(k, n)
  <1>1. n \in DOMAIN cfg[k] /\ SanitizeResourceName(n) = key
    BY DEF Sanitizes
  <1> QED
    BY <1>1 DEF Stays

LEMMA RewrittenBody ==
    ASSUME NEW spec, NEW mappings
    PROVE  Rewritten(spec, mappings).body = spec.body
  BY DEF Rewritten

LEMMA PairFirst ==
    ASSUME NEW A, NEW B, NEW p \in A \X B
    PROVE  p[1] \in A
  OBVIOUS

(* The references of a rewritten spec: of the same kinds, under sanitized names. *)
LEMMA RewrittenRefs ==
    ASSUME NEW c \in Config, NEW k \in Kind, NEW n \in DOMAIN c[k]
    PROVE  LET out == Rewritten(c[k][n], Mappings(c)) IN
           /\ out.body = c[k][n].body
           /\ Len(out.refs) = Len(c[k][n].refs)
           /\ \A i \in 1..Len(c[k][n].refs) :
                 out.refs[i] = <<c[k][n].refs[i][1], SanitizeResourceName(c[k][n].refs[i][2])>>
  <1> DEFINE s == c[k][n]
  <1> DEFINE refs == [i \in 1..Len(s.refs) |->
                        <<s.refs[i][1], sanitizeReference(s.refs[i][2], Mappings(c)[s.refs[i][1]])>>]
  <1>1. Rewritten(s, Mappings(c)) = [body |-> s.body, refs |-> refs]
    BY DEF Rewritten
  <1>2. Len(s.refs) \in Nat /\ \A i \in 1..Len(s.refs) : s.refs[i] \in Kind \X Seq(Chars)
    BY ConfigFacts
  <1>3. Len(refs) = Len(s.refs)
    <2> DEFINE l == Len(s.refs)
    <2>1. refs = [i \in 1..l |-> refs[i]] /\ l \in Nat
      BY <1>2
    <2> HIDE DEF refs, l
    <2>2. Len(refs) = l
      BY <2>1
    <2> QED
      BY <2>2 DEF l
  <1>4. ASSUME NEW i \in 1..Len(s.refs)
        PROVE  refs[i] = <<s.refs[i][1], SanitizeResourceName(s.refs[i][2])>>
    <2> DEFINE kind == s.refs[i][1]
    <2> DEFINE name == s.refs[i][2]
    <2>1. kind \in Kind
      BY <1>2, PairFirst, ZenonT(30)
    <2>2. refs[i] = <<kind, sanitizeReference(name, Mappings(c)[kind])>>
      OBVIOUS
    <2> HIDE DEF kind, name
    <2>3. Mappings(c)[kind] = [m \in DOMAIN c[kind] |-> SanitizeResourceName(m)]
      BY <2>1 DEF Mappings
    <2>4. sanitizeReference(name, Mappings(c)[kind]) = SanitizeResourceName(name)
      BY <2>3 DEF sanitizeReference
    <2> QED
      BY <2>2, <2>4, Zenon DEF kind, name
  <1> HIDE DEF refs
  <1>5. /\ Rewritten(s, Mappings(c)).body = s.body
        /\ Rewritten(s, Mappings(c)).refs = refs
    BY <1>1
  <1> QED
    BY <1>3, <1>4, <1>5

(***************************************************************************)
(* The result misses no name.                                              *)
(***************************************************************************)
LEMMA ResultComplete == SectionsInv => NothingVanishes
  BY Result DEF NothingVanishes

LEMMA ResultIsLast == SectionsInv => LastNameWins
  <1> SUFFICES ASSUME SectionsInv, result = "ok", NEW k \in Kind, NEW key \in DOMAIN sanitized[k]
               PROVE  \E n \in Sanitizes(k, key) :
                         Stays(k, n) /\ sanitized[k][key].body = cfg[k][n].body
    BY DEF LastNameWins
  <1>1. PICK n \in Sanitizes(k, key) :
           Stays(k, n) /\ sanitized[k][key] = Rewritten(cfg[k][n], Mappings(cfg))
    BY Result
  <1>2. sanitized[k][key].body = cfg[k][n].body
    BY <1>1 DEF Rewritten
  <1> QED
    BY <1>1, <1>2

LEMMA ResultRefers == SectionsInv => ReferencesFollow
  <1> SUFFICES ASSUME SectionsInv, result = "ok", NEW k \in Kind, NEW n \in DOMAIN cfg[k], Stays(k, n),
                      NEW i \in 1..Len(cfg[k][n].refs)
               PROVE  LET r == cfg[k][n].refs[i]
                          key == sanitized[k][SanitizeResourceName(n)].refs[i][2]
                      IN  r[2] \in DOMAIN cfg[r[1]] =>
                             /\ key \in DOMAIN sanitized[r[1]]
                             /\ Sanitizes(r[1], key) = {r[2]} =>
                                   sanitized[r[1]][key].body = cfg[r[1]][r[2]].body
    BY Zenon DEF ReferencesFollow
  <1> DEFINE r == cfg[k][n].refs[i]
  <1> DEFINE key == sanitized[k][SanitizeResourceName(n)].refs[i][2]
  <1> SUFFICES ASSUME r[2] \in DOMAIN cfg[r[1]]
               PROVE  /\ key \in DOMAIN sanitized[r[1]]
                      /\ Sanitizes(r[1], key) = {r[2]} =>
                            sanitized[r[1]][key].body = cfg[r[1]][r[2]].body
    BY Zenon
  <1>1. cfg \in Config
    BY DEF SectionsInv, SectionType
  <1>2. r[1] \in Kind
    BY <1>1, ConfigFacts
  <1>3. key = SanitizeResourceName(r[2])
    <2>1. sanitized[k][SanitizeResourceName(n)] = Rewritten(cfg[k][n], Mappings(cfg))
      BY ResultOf
    <2>2. Rewritten(cfg[k][n], Mappings(cfg)).refs[i] = <<r[1], SanitizeResourceName(r[2])>>
      BY <1>1, RewrittenRefs
    <2> QED
      BY <2>1, <2>2
  <1> HIDE DEF r, key
  <1>4. key \in DOMAIN sanitized[r[1]]
    BY <1>2, <1>3, Result
  <1>5. ASSUME Sanitizes(r[1], key) = {r[2]}
        PROVE  sanitized[r[1]][key].body = cfg[r[1]][r[2]].body
    <2>1. Stays(r[1], r[2])
      BY <1>5, LoneStays
    <2>2. sanitized[r[1]][key] = Rewritten(cfg[r[1]][r[2]], Mappings(cfg))
      BY <1>2, <1>3, <2>1, ResultOf, Zenon
    <2> QED
      BY <2>2, RewrittenBody, Zenon
  <1> QED
    BY <1>4, <1>5, Zenon

-----------------------------------------------------------------------------
(* The phases: what has become of services and routers so far. *)

NothingBuilt ==
    services = NoSpecs /\ todoRouters = {} /\ transformed = NoSpecs /\ refused = {} /\ phase = "none"

ServicesConverted ==
    services # NoSpecs =>
        services = [key \in DOMAIN sanitized["services"] |->
                       processSingleService(sanitized["services"][key].body.spec)]

RoutersSoFar ==
    /\ DOMAIN sanitized["routers"] = DOMAIN transformed \cup refused \cup todoRouters
    /\ \A key \in DOMAIN transformed :
          /\ HasRuleAndService(sanitized["routers"][key])
          /\ transformed[key] = TransformRouterToIngressRoute(sanitized["routers"][key])

RoutesWhenOK == phase = "ok" => todoRouters = {} /\ refused = {} /\ routes = transformed

HTTPInv ==
    /\ SectionsInv
    /\ result # "ok" => NothingBuilt
    /\ result = "ok" => ServicesConverted /\ RoutersSoFar
    /\ RoutesWhenOK

(* Before the section is sanitized nothing has been built from it. *)
LEMMA HTTPInitInv == HTTPInit => HTTPInv
  <1> SUFFICES ASSUME HTTPInit PROVE HTTPInv
    OBVIOUS
  <1>1. SectionsInv
    BY SectionsInit DEF HTTPInit
  <1> QED
    BY <1>1 DEF HTTPInit, Init, HTTPInv, NothingBuilt, RoutesWhenOK

(* The steps of the phases preserve the invariant. *)
LEMMA HTTPStep == HTTPInv /\ [HTTPNext]_httpVars => HTTPInv'
  <1> SUFFICES ASSUME HTTPInv, [HTTPNext]_httpVars PROVE HTTPInv'
    OBVIOUS
  <1>1. CASE SanitizeStep
    <2>1. SectionsInv'
      BY <1>1, SectionsStep DEF SanitizeStep, HTTPInv
    <2>2. result = "none" /\ result' \in {"none", "ok", "error"}
      BY <1>1, <2>1 DEF SanitizeStep, Next, Populate, Fail, NextSection, Return, SectionsInv, SectionType
    <2>3. NothingBuilt /\ UNCHANGED <<services, transformed, refused, phase>>
      BY <1>1, <2>2 DEF HTTPInv, SanitizeStep
    <2>4. todoRouters' = IF result' = "ok" THEN DOMAIN sanitized'["routers"] ELSE {}
      BY <1>1 DEF SanitizeStep
    <2>5. result' # "ok" => NothingBuilt'
      BY <2>3, <2>4 DEF NothingBuilt, NoSpecs
    <2>6. result' = "ok" => ServicesConverted' /\ RoutersSoFar'
      BY <2>3, <2>4 DEF NothingBuilt, NoSpecs, ServicesConverted, RoutersSoFar
    <2>7. RoutesWhenOK'
      BY <2>3 DEF NothingBuilt, RoutesWhenOK
    <2> QED
      BY <2>1, <2>5, <2>6, <2>7 DEF HTTPInv
  <1>2. CASE ProcessServices
    <2>1. SectionsInv' /\ result = "ok" /\ result' = "ok"
      BY <1>2, SectionsStutter DEF ProcessServices, HTTPInv, vars
    <2>2. /\ sanitized' = sanitized /\ RoutersSoFar /\ RoutesWhenOK
          /\ UNCHANGED <<todoRouters, transformed, refused, routes, phase>>
      BY <1>2, <2>1 DEF ProcessServices, HTTPInv, vars
    <2>3. ServicesConverted'
      BY <1>2, <2>2 DEF ProcessServices, ServicesConverted
    <2>4. RoutersSoFar' /\ RoutesWhenOK'
      BY <2>2 DEF RoutersSoFar, RoutesWhenOK
    <2> QED
      BY <2>1, <2>3, <2>4 DEF HTTPInv
  <1>3. ASSUME NEW key \in todoRouters, TransformRouter(key) PROVE HTTPInv'
    <2>1. result = "ok"
      BY DEF HTTPInv, NothingBuilt
    <2>2. SectionsInv' /\ result' = "ok" /\ sanitized' = sanitized
      BY <1>3, <2>1, SectionsStutter DEF TransformRouter, HTTPInv, vars
    <2>3. ServicesConverted /\ RoutersSoFar /\ RoutesWhenOK
      BY <2>1 DEF HTTPInv
    <2>4. ServicesConverted'
      BY <1>3, <2>2, <2>3 DEF TransformRouter, ServicesConverted
    <2>5. RoutesWhenOK'
      BY <1>3, <2>3 DEF TransformRouter, RoutesWhenOK
    <2>6. RoutersSoFar'
      <3> DEFINE r == sanitized["routers"][key]
      <3>1. todoRouters' = todoRouters \ {key}
        BY <1>3 DEF TransformRouter
      <3>2. CASE HasRuleAndService(r)
        <4>1. /\ refused' = refused
              /\ DOMAIN transformed' = DOMAIN transformed \cup {key}
              /\ transformed'[key] = TransformRouterToIngressRoute(r)
              /\ \A x \in DOMAIN transformed \ {key} : transformed'[x] = transformed[x]
          BY <1>3, <3>2 DEF TransformRouter
        <4>2. DOMAIN sanitized["routers"] = DOMAIN transformed' \cup refused' \cup todoRouters'
          BY <2>3, <3>1, <4>1 DEF RoutersSoFar
        <4>3. ASSUME NEW x \in DOMAIN transformed'
              PROVE  /\ HasRuleAndService(sanitized["routers"][x])
                     /\ transformed'[x] = TransformRouterToIngressRoute(sanitized["routers"][x])
          BY <2>3, <3>2, <4>1 DEF RoutersSoFar
        <4> QED
          BY <2>2, <4>2, <4>3 DEF RoutersSoFar
      <3>3. CASE ~HasRuleAndService(r)
        <4>1. refused' = refused \cup {key} /\ transformed' = transformed
          BY <1>3, <3>3 DEF TransformRouter
        <4> QED
          BY <2>2, <2>3, <3>1, <4>1 DEF RoutersSoFar
      <3> QED
        BY <3>2, <3>3
    <2> QED
      BY <2>2, <2>4, <2>5, <2>6 DEF HTTPInv
  <1>4. CASE ApplyRoutes
    <2>1. SectionsInv' /\ result = "ok" /\ result' = "ok" /\ sanitized' = sanitized
      BY <1>4, SectionsStutter DEF ApplyRoutes, HTTPInv, vars
    <2>2. ServicesConverted' /\ RoutersSoFar'
      BY <1>4, <2>1 DEF ApplyRoutes, HTTPInv, ServicesConverted, RoutersSoFar
    <2>3. RoutesWhenOK'
      BY <1>4 DEF ApplyRoutes, TransformErrors, RoutesWhenOK
    <2> QED
      BY <2>1, <2>2, <2>3 DEF HTTPInv
  <1>5. CASE UNCHANGED httpVars
    <2>1. SectionsInv'
      BY <1>5, SectionsStutter DEF httpVars, HTTPInv
    <2>2. UNCHANGED <<result, sanitized, services, todoRouters, transformed, refused, routes, phase>>
      BY <1>5 DEF httpVars, vars
    <2> QED
      BY <2>1, <2>2 DEF HTTPInv, NothingBuilt, ServicesConverted, RoutersSoFar, RoutesWhenOK
  <1> QED
    BY <1>1, <1>2, <1>3, <1>4, <1>5 DEF HTTPNext

(* The inductive invariant holds in every reachable state. *)
THEOREM Invariance == HTTPSpec => []HTTPInv
  BY HTTPInitInv, HTTPStep, PTL DEF HTTPSpec

(***************************************************************************)
(* SanitizeTraefikConfig misses no object, however many there are, however *)
(* their names collide.                                                    *)
(***************************************************************************)
THEOREM CompleteSafety == HTTPSpec => []NothingVanishes
  <1>1. HTTPInv => NothingVanishes
    BY ResultComplete DEF HTTPInv
  <1> QED
    BY Invariance, <1>1, PTL

(***************************************************************************)
(* Of objects that share a Kubernetes name the one with the last name in   *)
(* byte order stays: sortKeys makes the result a function of the section.  *)
(***************************************************************************)
THEOREM CollisionSafety == HTTPSpec => []LastNameWins
  <1>1. HTTPInv => LastNameWins
    BY ResultIsLast DEF HTTPInv
  <1> QED
    BY Invariance, <1>1, PTL

(***************************************************************************)
(* The references of the spec that stays follow the names of the objects   *)
(* they mean (sanitizeReference over buildNameMappings).                   *)
(***************************************************************************)
THEOREM ReferenceSafety == HTTPSpec => []ReferencesFollow
  <1>1. HTTPInv => ReferencesFollow
    BY ResultRefers DEF HTTPInv
  <1> QED
    BY Invariance, <1>1, PTL

-----------------------------------------------------------------------------
(* The names in the sanitized section. *)

(* Names of the configuration, and those it refers to, have hashes. *)
LEMMA HashedNames ==
    ASSUME NEW c \in Config, NEW k \in Kind, NEW n \in DOMAIN c[k]
    PROVE  /\ IsResourceName(SanitizeResourceName(n))
           /\ \A i \in 1..Len(c[k][n].refs) : IsResourceName(SanitizeResourceName(c[k][n].refs[i][2]))
  <1>1. /\ n \in Seq(Chars) /\ IsHash(shortHash(n))
        /\ \A i \in 1..Len(c[k][n].refs) : IsHash(shortHash(c[k][n].refs[i][2]))
    BY ConfigAssumption
  <1>2. \A i \in 1..Len(c[k][n].refs) : c[k][n].refs[i][2] \in Seq(Chars)
    BY ConfigFacts
  <1> QED
    BY <1>1, <1>2, SanitizedIsName

(* What has been built so far has valid names and refers to valid names. *)
LEMMA ValidNames == SectionsInv => NamesAreValid
  <1> SUFFICES ASSUME SectionsInv, NEW k \in Kind, NEW key \in DOMAIN sanitized[k]
               PROVE  /\ IsResourceName(key)
                      /\ \A i \in 1..Len(sanitized[k][key].refs) :
                            IsResourceName(sanitized[k][key].refs[i][2])
    BY DEF NamesAreValid
  <1>1. result # "error"
    BY DEF SectionsInv, Nothing, NoSpecs
  <1>2. PICK j \in 1..4 : Order[j] = k
    BY OrderFacts
  <1>3. PICK n \in Done(j) : /\ SanitizeResourceName(n) = key
                             /\ sanitized[k][key] = Rewritten(cfg[k][n], Mappings(cfg))
    BY <1>1, <1>2 DEF SectionsInv, LastSoFar
  <1>4. cfg \in Config /\ n \in DOMAIN cfg[k]
    BY <1>2 DEF SectionsInv, SectionType, Done
  <1> DEFINE out == Rewritten(cfg[k][n], Mappings(cfg))
             refs == cfg[k][n].refs
  <1>5. /\ Len(out.refs) = Len(refs)
        /\ \A i \in 1..Len(refs) : out.refs[i] = <<refs[i][1], SanitizeResourceName(refs[i][2])>>
    BY <1>4, RewrittenRefs
  <1>6. /\ IsResourceName(SanitizeResourceName(n))
        /\ \A i \in 1..Len(refs) : IsResourceName(SanitizeResourceName(refs[i][2]))
    BY <1>4, HashedNames
  <1>7. sanitized[k][key] = out
    BY <1>3
  <1> HIDE DEF out, refs
  <1> QED
    BY <1>3, <1>5, <1>6, <1>7

(***************************************************************************)
(* SanitizeTraefikConfig: at every moment every name it has written, of an *)
(* object or in a reference, is one Kubernetes accepts.                    *)
(***************************************************************************)
THEOREM ValidNameSafety == HTTPSpec => []NamesAreValid
  <1>1. HTTPInv => NamesAreValid
    BY ValidNames DEF HTTPInv
  <1> QED
    BY Invariance, <1>1, PTL

(* What SanitizeResourceName makes of the words of a name. *)
LEMMA WordsKept ==
    ASSUME NEW n \in Seq(Chars), IsHash(shortHash(n))
    PROVE  LET words == WordsJoined(n)
               key == SanitizeResourceName(n)
           IN  /\ words = <<>> => key = <<"x", "-">> \o shortHash(n)
               /\ words # <<>> => Len(words) \in Nat
               /\ words # <<>> /\ Len(words) <= maxK8sNameLength => key = words
               /\ words # <<>> /\ Len(words) > maxK8sNameLength =>
                     /\ \E i \in 1..Len(words) : key = SubSeq(words, 1, i) \o <<"-">> \o shortHash(n)
                     /\ Len(key) >= maxK8sNameLength - 1
  <1> DEFINE words == WordsJoined(n)
             key == SanitizeResourceName(n)
             h == shortHash(n)
  <1>1. words = TrimLeft(TrimRight(buildBaseName(Lowered(n))))
    BY LoopJoinsWords
  <1>2. words = <<>> \/ Joined(words)
    BY <1>1, LoweredType, BaseWords
  <1>3. key = finalizeSanitizedName(words, n)
    BY <1>1 DEF SanitizeResourceName
  <1>4. words # <<>> => Len(words) \in Nat /\ words \in Seq(AlphaNum \cup {"-"})
    BY <1>2 DEF Joined, Clean
  <1>5. /\ h \in Seq(AlphaNum) /\ Len(h) = nameHashLength
        /\ nameHashLength \in Nat /\ nameHashLength > 0 /\ maxK8sNameLength \in Nat
    BY HashFacts, NameAssumption
  <1>6. h # <<>>
    BY <1>5
  <1> HIDE DEF words, key, h
  <1>7. ASSUME words # <<>>, Len(words) > maxK8sNameLength
        PROVE  /\ \E i \in 1..Len(words) : key = SubSeq(words, 1, i) \o <<"-">> \o h
               /\ Len(key) >= maxK8sNameLength - 1
    <2>1. CutName(words, n, key)
      BY <1>2, <1>3, <1>7, FinalCases
    <2>2. PICK i \in 1..Len(words) :
             /\ key = SubSeq(words, 1, i) \o <<"-">> \o h
             /\ Joined(SubSeq(words, 1, i))
             /\ i \in (maxBaseLen - 1)..maxBaseLen
      BY <2>1 DEF CutName, h
    <2>3. Len(SubSeq(words, 1, i)) = i
      BY <1>4, <1>7, PrefixFacts
    <2>4. Len(key) = i + 1 + nameHashLength
      <3> DEFINE w == SubSeq(words, 1, i)
      <3>1. key = w \o <<"-">> \o h /\ Joined(w) /\ Len(w) = i
        BY <2>2, <2>3
      <3> HIDE DEF w
      <3>2. Len(w \o <<"-">> \o h) = Len(w) + 1 + Len(h)
        BY <1>5, <1>6, <3>1, JoinWord, Zenon
      <3> QED
        BY <1>5, <3>1, <3>2, Zenon
    <2>5. i \in Int /\ i >= maxK8sNameLength - nameHashLength - 2
      BY <1>5, <2>2 DEF maxBaseLen
    <2>6. Len(key) >= maxK8sNameLength - 1
      BY <1>5, <2>4, <2>5
    <2> QED
      BY <2>2, <2>6, Zenon
  <1>8. /\ words = <<>> => key = <<"x", "-">> \o h
        /\ words # <<>> /\ Len(words) <= maxK8sNameLength => key = words
    BY <1>2, <1>3, FinalCases DEF h
  <1> QED
    BY <1>4, <1>7, <1>8 DEF words, key, h

(* The names of the sanitized section keep the words of those they stand for. *)
LEMMA KeptWords == SectionsInv => NamesKeepWords
  <1> SUFFICES ASSUME SectionsInv, result = "ok", NEW k \in Kind, NEW n \in DOMAIN cfg[k]
               PROVE  LET words == WordsJoined(n)
                          Starts(key) ==
                              \E i \in 1..Len(words) :
                                  key = SubSeq(words, 1, i) \o <<"-">> \o shortHash(n)
                      IN  \E key \in DOMAIN sanitized[k] :
                              CASE words = <<>>                   -> key = <<"x", "-">> \o shortHash(n)
                                [] Len(words) > maxK8sNameLength  ->
                                      Starts(key) /\ Len(key) >= maxK8sNameLength - 1
                                [] OTHER                          -> key = words
    BY DEF NamesKeepWords
  <1> DEFINE words == WordsJoined(n)
             key == SanitizeResourceName(n)
             max == maxK8sNameLength
             Starts == \E i \in 1..Len(words) : key = SubSeq(words, 1, i) \o <<"-">> \o shortHash(n)
  <1>1. key \in DOMAIN sanitized[k]
    BY Result
  <1>2. n \in Seq(Chars) /\ IsHash(shortHash(n))
    BY ConfigAssumption DEF SectionsInv, SectionType
  <1>3. max \in Nat /\ Len(<<>>) = 0 /\ ~(0 > max)
    BY NameAssumption
  <1>4. /\ words = <<>> => key = <<"x", "-">> \o shortHash(n)
        /\ words # <<>> => Len(words) \in Nat
        /\ words # <<>> /\ Len(words) <= max => key = words
        /\ words # <<>> /\ Len(words) > max => Starts /\ Len(key) >= max - 1
    BY <1>2, WordsKept
  <1> HIDE DEF words, key, max, Starts
  <1>5. words # <<>> => (~(Len(words) > max) => Len(words) <= max)
    BY <1>3, <1>4
  <1>6. words = <<>> => ~(Len(words) > max)
    BY <1>3
  <1> DEFINE Keeps == CASE words = <<>> -> key = <<"x", "-">> \o shortHash(n)
                        [] Len(words) > max -> Starts /\ Len(key) >= max - 1
                        [] OTHER -> key = words
  <1>7. Keeps
    BY <1>4, <1>5, <1>6
  <1> QED
    BY <1>1, <1>7 DEF words, max, Starts

(***************************************************************************)
(* SanitizeResourceName, against its reference definition: a name that     *)
(* fits is its words, joined; a longer one begins with them as far as      *)
(* there is room, for names of any length.                                 *)
(***************************************************************************)
THEOREM WordSafety == HTTPSpec => []NamesKeepWords
  <1>1. HTTPInv => NamesKeepWords
    BY KeptWords DEF HTTPInv
  <1> QED
    BY Invariance, <1>1, PTL

-----------------------------------------------------------------------------
(* From end to end. *)

LEMMA SpecTypes ==
    ASSUME NEW c \in Config
    PROVE  \A n \in DOMAIN c["services"] : c["services"][n].body.spec \in ServiceSpec
  BY BodyAssumption

(* The services the phase applies, and where their specs come from. *)
LEMMA ServiceOrigin ==
    ASSUME HTTPInv, NEW key \in DOMAIN services
    PROVE  /\ result = "ok" /\ key \in DOMAIN sanitized["services"]
           /\ sanitized["services"][key].body.spec \in ServiceSpec
           /\ services[key] = processSingleService(sanitized["services"][key].body.spec)
  <1>1. services # NoSpecs
    BY DEF NoSpecs
  <1>2. result = "ok" /\ ServicesConverted
    BY <1>1 DEF HTTPInv, NothingBuilt
  <1>3. services = [x \in DOMAIN sanitized["services"] |->
                       processSingleService(sanitized["services"][x].body.spec)]
    BY <1>1, <1>2 DEF ServicesConverted
  <1>4. /\ key \in DOMAIN sanitized["services"]
        /\ services[key] = processSingleService(sanitized["services"][key].body.spec)
    BY <1>3
  <1>5. "services" \in Kind /\ SectionsInv /\ cfg \in Config
    BY OrderFacts DEF HTTPInv, SectionsInv, SectionType
  <1>6. PICK n \in Sanitizes("services", key) :
           sanitized["services"][key] = Rewritten(cfg["services"][n], Mappings(cfg))
    BY <1>2, <1>4, <1>5, Result
  <1>7. n \in DOMAIN cfg["services"]
    BY DEF Sanitizes
  <1>8. sanitized["services"][key].body = cfg["services"][n].body
    BY <1>6, RewrittenBody, Zenon
  <1> QED
    BY <1>2, <1>4, <1>5, <1>7, <1>8, SpecTypes

(***************************************************************************)
(* processSingleService turns a load balancer into a Service reference     *)
(* only where no backend and no setting is lost, for hosts of any parts    *)
(* and any number of servers.                                              *)
(***************************************************************************)
THEOREM ConversionSafety == HTTPSpec => []ConversionKeepsBackends
  <1>1. HTTPInv => ConversionKeepsBackends
    BY ServiceOrigin, ConversionReaches DEF ConversionKeepsBackends
  <1> QED
    BY Invariance, <1>1, PTL

(* A router, rewritten: the same places, sanitized names. *)
LEMMA RewrittenRouter ==
    ASSUME NEW c \in Config, NEW n \in DOMAIN c["routers"],
           HasService(Rewritten(c["routers"][n], Mappings(c)))
    PROVE  LET r == c["routers"][n]
               s == Rewritten(r, Mappings(c))
               mws == parseMiddlewares(r)
           IN  /\ s.refs[1][2] = SanitizeResourceName(r.refs[1][2])
               /\ parseMiddlewares(s) = [i \in 1..Len(mws) |-> SanitizeResourceName(mws[i])]
               /\ r.refs[1][1] = "services"
  <1> DEFINE r == c["routers"][n]
  <1> DEFINE s == Rewritten(r, Mappings(c))
  <1> DEFINE L == Len(r.refs)
  <1>0. "routers" \in Kind
    BY OrderFacts
  <1>1. /\ L \in Nat
        /\ r.refs \in Seq(RefersTo("routers") \X Seq(Chars))
    BY <1>0, ConfigFacts, ConfigAssumption
  <1>2. /\ Len(s.refs) = L
        /\ \A i \in 1..L : s.refs[i] = <<r.refs[i][1], SanitizeResourceName(r.refs[i][2])>>
    BY <1>0, RewrittenRefs
  <1>3. s.refs # <<>> /\ s.refs[1][1] = "services"
    BY DEF HasService
  <1>4. L # 0
    <2> SUFFICES ASSUME L = 0 PROVE FALSE
      OBVIOUS
    <2>1. s.refs = [i \in 1..0 |-> <<r.refs[i][1], sanitizeReference(r.refs[i][2], Mappings(c)[r.refs[i][1]])>>]
      BY DEF Rewritten
    <2>2. 1..0 = {}
      OBVIOUS
    <2>3. s.refs = <<>>
      BY <2>1, <2>2
    <2> QED
      BY <1>3, <2>3
  <1>5. r.refs # <<>>
    <2> DEFINE refs == r.refs
    <2>1. Len(refs) # 0
      BY <1>4
    <2> HIDE DEF refs
    <2>2. refs # <<>>
      BY <2>1
    <2> QED
      BY <2>2 DEF refs
  <1>6. 1 \in 1..L
    BY <1>1, <1>4
  <1> HIDE DEF r, s, L
  <1>7. r.refs[1][1] = "services" /\ s.refs[1][2] = SanitizeResourceName(r.refs[1][2])
    BY <1>2, <1>3, <1>6
  <1>8. HasService(r) /\ HasService(s)
    BY <1>3, <1>5, <1>7 DEF HasService
  <1> DEFINE mws == [i \in 1..(L - 1) |-> r.refs[1 + i][2]]
  <1>9. parseMiddlewares(r) = mws
    BY <1>8 DEF parseMiddlewares, L
  <1>10. parseMiddlewares(s) = [i \in 1..(L - 1) |-> s.refs[1 + i][2]]
    BY <1>2, <1>8 DEF parseMiddlewares
  <1>11. Len(mws) = L - 1
    BY <1>1, <1>4
  <1>12. \A i \in 1..(L - 1) : s.refs[1 + i][2] = SanitizeResourceName(mws[i])
    <2> SUFFICES ASSUME NEW i \in 1..(L - 1) PROVE s.refs[1 + i][2] = SanitizeResourceName(mws[i])
      OBVIOUS
    <2>1. 1 + i \in 1..L
      BY <1>1
    <2>2. s.refs[1 + i][2] = SanitizeResourceName(r.refs[1 + i][2])
      BY <1>2, <2>1
    <2> QED
      BY <2>2
  <1> HIDE DEF mws
  <1>13. parseMiddlewares(s) = [i \in 1..Len(mws) |-> SanitizeResourceName(mws[i])]
    BY <1>10, <1>11, <1>12
  <1> QED
    BY <1>7, <1>9, <1>13 DEF r, s, mws

(* What a service became still serves it. *)
LEMMA ConvertedServes ==
    ASSUME NEW n \in DOMAIN cfg["services"], cfg["services"][n].body.spec \in ServiceSpec
    PROVE  Serves(processSingleService(cfg["services"][n].body.spec), n)
  <1> DEFINE s == cfg["services"][n].body.spec
  <1> DEFINE out == processSingleService(s)
  <1>1. CASE out.kind = "spec"
    BY <1>1, ConversionKinds DEF Serves
  <1>2. CASE out.kind = "filled"
    BY <1>2, ConversionKinds DEF Serves
  <1>3. CASE out.kind = "service"
    <2>1. \A k \in 1..Len(s.servers) : Reaches(s.servers[k].url, out.target)
      <3>1. CASE s.servers = <<>>
        BY <3>1
      <3>2. CASE s.servers # <<>>
        BY <1>3, <3>2, ConversionReaches
      <3> QED
        BY <3>1, <3>2
    <2>2. s.listed
      BY <1>3, ConversionLists
    <2> QED
      BY <1>3, <2>1, <2>2 DEF Serves
  <1> QED
    BY <1>1, <1>2, <1>3, ConversionKinds

(***************************************************************************)
(* From end to end: reconcileRouters applies one route for each router of  *)
(* the upstream, with its rule and its middlewares, and it leads to what   *)
(* the upstream's service means.                                           *)
(***************************************************************************)
THEOREM RoutesSafety == HTTPSpec => []RoutesFollowRouters
  <1>1. HTTPInv => RoutesFollowRouters
    <2> SUFFICES ASSUME HTTPInv, phase = "ok" PROVE RoutesFollowRouters
      BY DEF RoutesFollowRouters
    <2>0. /\ result = "ok" /\ SectionsInv /\ cfg \in Config /\ RoutersSoFar
          /\ todoRouters = {} /\ refused = {} /\ routes = transformed
          /\ "routers" \in Kind /\ "services" \in Kind
      BY OrderFacts DEF HTTPInv, NothingBuilt, RoutesWhenOK, SectionsInv, SectionType
    <2>1. DOMAIN routes = DOMAIN sanitized["routers"]
      BY <2>0 DEF RoutersSoFar
    <2>2. DOMAIN routes = {SanitizeResourceName(n) : n \in DOMAIN cfg["routers"]}
      BY <2>0, <2>1, Result
    <2>3. ASSUME NEW key \in DOMAIN routes
          PROVE  LET r == cfg["routers"][Winner(key)]
                     out == routes[key].route
                     service == r.refs[1][2]
                     mws == parseMiddlewares(r)
                 IN  /\ out.match = r.body.rule
                     /\ out.middlewares = [i \in 1..Len(mws) |-> SanitizeResourceName(mws[i])]
                     /\ services # NoSpecs /\ Sanitizes("services", out.service) = {service} =>
                           Serves(services[out.service], service)
      <3> DEFINE w == Winner(key)
      <3> DEFINE r == cfg["routers"][w]
      <3> DEFINE s == Rewritten(r, Mappings(cfg))
      <3> DEFINE service == r.refs[1][2]
      <3>1. \E n \in Sanitizes("routers", key) : Stays("routers", n)
        BY <2>0, <2>1, <2>3, Result
      <3>2. w \in Sanitizes("routers", key) /\ Stays("routers", w)
        BY <3>1, Zenon DEF Winner
      <3>3. w \in DOMAIN cfg["routers"] /\ SanitizeResourceName(w) = key
        BY <3>2 DEF Sanitizes
      <3>4. sanitized["routers"][key] = s
        BY <2>0, <3>2, <3>3, ResultOf
      <3>5. HasRuleAndService(s) /\ routes[key] = TransformRouterToIngressRoute(s)
        BY <2>0, <2>3, <3>4 DEF RoutersSoFar
      <3>6. routes[key].route = buildRoute(s)
        BY <3>5 DEF TransformRouterToIngressRoute
      <3>7. /\ routes[key].route.match = s.body.rule
            /\ routes[key].route.service = s.refs[1][2]
            /\ routes[key].route.middlewares = parseMiddlewares(s)
        BY <3>6 DEF buildRoute
      <3>8. HasService(s)
        BY <3>5 DEF HasRuleAndService
      <3>9. s.body = r.body
        BY RewrittenBody, Zenon
      <3>10. ASSUME services # NoSpecs, Sanitizes("services", routes[key].route.service) = {service}
             PROVE  Serves(services[routes[key].route.service], service)
        <4> DEFINE name == routes[key].route.service
        <4>1. /\ service \in DOMAIN cfg["services"] /\ SanitizeResourceName(service) = name
              /\ Stays("services", service)
          BY <3>10, LoneStays, Zenon
        <4>2. /\ name \in DOMAIN sanitized["services"]
              /\ sanitized["services"][name] = Rewritten(cfg["services"][service], Mappings(cfg))
          BY <2>0, <4>1, ResultOf, Zenon
        <4>3. sanitized["services"][name].body = cfg["services"][service].body
          BY <4>2, RewrittenBody, Zenon
        <4>4. services = [x \in DOMAIN sanitized["services"] |->
                             processSingleService(sanitized["services"][x].body.spec)]
          BY <2>0, <3>10 DEF HTTPInv, ServicesConverted
        <4> HIDE DEF name, service
        <4>5. services[name] = processSingleService(cfg["services"][service].body.spec)
          BY <4>2, <4>3, <4>4
        <4>6. cfg["services"][service].body.spec \in ServiceSpec
          BY <2>0, <4>1, SpecTypes
        <4>7. Serves(services[name], service)
          BY <4>1, <4>5, <4>6, ConvertedServes
        <4> QED
          BY <4>7 DEF name
      <3>11. LET mws == parseMiddlewares(r)
             IN  parseMiddlewares(s) = [i \in 1..Len(mws) |-> SanitizeResourceName(mws[i])]
        BY <2>0, <3>3, <3>8, RewrittenRouter
      <3> QED
        BY <3>7, <3>9, <3>10, <3>11
    <2> QED
      BY <2>2, <2>3 DEF RoutesFollowRouters
  <1> QED
    BY Invariance, <1>1, PTL

=============================================================================
