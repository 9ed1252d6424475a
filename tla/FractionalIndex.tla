--------------------------- MODULE FractionalIndex ---------------------------
(***************************************************************************)
(* Fractional indexing (ui/src/fractionalIndex.ts): the `_order` keys that *)
(* put rows and tables in a manual order.  A key is a sequence of digits   *)
(* in base Base (62 in the code), read as the fraction 0.<key>; the empty  *)
(* sequence stands for the code's null, and Thrown for an exception.       *)
(***************************************************************************)
EXTENDS Integers, Sequences, SequencesExt

CONSTANT Base   \* DIGITS.length

ASSUME BaseAssumption == Base \in Nat /\ Base > 1

NoKey == <<>>
Thrown == <<-1>>

\* a < b, as JavaScript compares strings.
KeyLess(a, b) ==
  \E i \in 1..Len(b) :
    /\ i <= Len(a) + 1
    /\ SubSeq(a, 1, i - 1) = SubSeq(b, 1, i - 1)
    /\ i <= Len(a) => a[i] < b[i]

\* Length of the prefix b shares with a padded with zeros.
CommonPrefix(a, b) ==
  LET Same(i) == (IF i <= Len(a) THEN a[i] ELSE 0) = b[i]
  IN CHOOSE n \in 0..Len(b) : /\ \A i \in 1..n : Same(i)
                              /\ n < Len(b) => ~Same(n + 1)

EndsInZero(k) == k # <<>> /\ Last(k) = 0

RECURSIVE Midpoint(_, _)
Midpoint(a, b) ==
  LET digitA == IF a = <<>> THEN 0 ELSE a[1]
      digitB == IF b = NoKey THEN Base ELSE b[1]
      n == IF b = NoKey THEN 0 ELSE CommonPrefix(a, b)
  IN CASE b # NoKey /\ ~KeyLess(a, b) -> Thrown
       [] EndsInZero(a) \/ EndsInZero(b) -> Thrown
       [] OTHER ->
            CASE n > 0 -> SubSeq(b, 1, n) \o Midpoint(SubSeq(a, n + 1, Len(a)), SubSeq(b, n + 1, Len(b)))
              [] n = 0 /\ digitB - digitA > 1 -> << (digitA + digitB + 1) \div 2 >>
              [] n = 0 /\ digitB - digitA <= 1 /\ Len(b) > 1 -> << digitB >>
              [] OTHER -> <<digitA>> \o Midpoint(SubSeq(a, 2, Len(a)), NoKey)

\* Mutant: the upper neighbour is ignored.
KeyAfter(a, b) == Midpoint(a, NoKey)

GenerateKeyBetween(a, b) ==
  IF a # NoKey /\ b # NoKey /\ ~KeyLess(a, b) THEN Thrown ELSE Midpoint(a, b)

RECURSIVE GenerateNKeysBetween(_, _, _)
GenerateNKeysBetween(a, b, n) ==
  LET c == GenerateKeyBetween(a, b)
      mid == n \div 2
  IN CASE n <= 0 -> <<>>
       [] n = 1 -> <<c>>
       [] n > 1 /\ b = NoKey -> <<c>> \o GenerateNKeysBetween(c, NoKey, n - 1)
       [] n > 1 /\ b # NoKey /\ a = NoKey -> Append(GenerateNKeysBetween(NoKey, c, n - 1), c)
       [] OTHER -> GenerateNKeysBetween(a, c, mid) \o <<c>> \o GenerateNKeysBetween(c, b, n - mid - 1)

\* The list with the item at position i moved to position j.
ArrayMove(s, i, j) == InsertAt(RemoveAt(s, i), j, s[i])

IndexIn(s, x) == CHOOSE i \in 1..Len(s) : s[i] = x

(***************************************************************************)
(* The `_order` writes that move row a to where row o sits in `rows`, with *)
(* the keys the core has: one write when every row has a key, a backfill   *)
(* of the whole list otherwise.                                            *)
(***************************************************************************)
ComputeReorderWrites(rows, key, a, o) ==
  IF a = o \/ ~({a, o} \subseteq ToSet(rows)) THEN <<>>
  ELSE
    LET moved == ArrayMove(rows, IndexIn(rows, a), IndexIn(rows, o))
        i == IndexIn(moved, a)
        prev == IF i > 1 THEN key[moved[i - 1]] ELSE NoKey
        next == IF i < Len(moved) THEN key[moved[i + 1]] ELSE NoKey
        keys == GenerateNKeysBetween(NoKey, NoKey, Len(moved))
    IN IF \A r \in ToSet(rows) : key[r] # NoKey
       THEN << [row |-> a, key |-> GenerateKeyBetween(prev, next)] >>
       ELSE [j \in 1..Len(moved) |-> [row |-> moved[j], key |-> keys[j]]]
=============================================================================
