---------------------------- MODULE Ingest_proofs ----------------------------
(***************************************************************************)
(* What cleaning makes of a source file, for every file, every order of    *)
(* its lines and every length of a bar; what the gap report says of it;    *)
(* and that the loader takes the same columns in whatever order they are.  *)
(***************************************************************************)
EXTENDS Ingest, CsvLoader, SequenceTheorems, FiniteSetTheorems, WellFoundedInduction, TLAPS

-----------------------------------------------------------------------------
LEMMA LeastNumber ==
  ASSUME NEW T, T \subseteq Nat, T # {}
  PROVE  \E n \in T : \A m \in T : n <= m
<1>1. PICK n \in T : \A m \in T : ~ (<<m, n>> \in OpToRel(<, Nat))
  BY NatLessThanWellFounded, WFMin
<1>2. \A m \in T : ~(m < n)
  BY <1>1 DEF OpToRel
<1> QED
  BY <1>2

\* There is a least value.
LEMMA LowestExists ==
  ASSUME NEW value, NEW c \in Int, NEW n \in Int, c <= n, \A i \in c .. n : value[i] \in Int
  PROVE  \E i \in c .. n : \A j \in c .. n : value[i] <= value[j]
<1> DEFINE Has(k) == \E i \in c .. c + k : \A j \in c .. c + k : value[i] <= value[j]
           bad == {k \in 0 .. n - c : ~Has(k)}
<1>1. Has(0)
  <2>1. c \in c .. c + 0 /\ \A j \in c .. c + 0 : j = c
    OBVIOUS
  <2>2. value[c] <= value[c]
    OBVIOUS
  <2> QED
    BY <2>1, <2>2
<1>2. ASSUME NEW k \in 1 .. n - c, Has(k - 1)
      PROVE  Has(k)
  <2>1. PICK i \in c .. c + (k - 1) : \A j \in c .. c + (k - 1) : value[i] <= value[j]
    BY <1>2
  <2>2. /\ \A j \in c .. c + k : j \in c .. n /\ (j \in c .. c + (k - 1) \/ j = c + k)
        /\ i \in c .. n /\ c + k \in c .. n /\ c + k \in c .. c + k /\ i \in c .. c + k
    OBVIOUS
  <2>3. CASE value[c + k] <= value[i]
    <3>1. \A j \in c .. c + k : value[c + k] <= value[j]
      <4> TAKE j \in c .. c + k
      <4>1. j \in c .. c + (k - 1) => value[i] <= value[j]
        BY <2>1
      <4>2. value[i] \in Int /\ value[j] \in Int /\ value[c + k] \in Int
        BY <2>2
      <4> QED
        BY <2>2, <2>3, <4>1, <4>2
    <3> QED
      BY <2>2, <3>1
  <2>4. CASE ~(value[c + k] <= value[i])
    <3>1. value[i] <= value[c + k]
      BY <2>2, <2>4
    <3>2. \A j \in c .. c + k : value[i] <= value[j]
      BY <2>1, <2>2, <3>1
    <3> QED
      BY <2>2, <3>2
  <2> QED
    BY <2>3, <2>4
<1> HIDE DEF Has
<1>3. bad = {}
  <2> SUFFICES ASSUME bad # {} PROVE FALSE
    OBVIOUS
  <2>1. bad \subseteq Nat
    OBVIOUS
  <2>2. PICK k \in bad : \A m \in bad : k <= m
    BY <2>1, LeastNumber
  <2>3. k \in 0 .. n - c /\ ~Has(k)
    OBVIOUS
  <2>4. k # 0
    BY <1>1, <2>3
  <2>5. k \in 1 .. n - c /\ k - 1 \in 0 .. n - c /\ ~(k <= k - 1)
    BY <2>3, <2>4
  <2>6. Has(k - 1)
    BY <2>2, <2>5
  <2> QED
    BY <1>2, <2>3, <2>5, <2>6
<1>4. n - c \in 0 .. n - c /\ c + (n - c) = n
  OBVIOUS
<1>5. Has(n - c)
  BY <1>3, <1>4
<1> QED
  BY <1>4, <1>5 DEF Has


-----------------------------------------------------------------------------
\* Rows of which no two carry one stamp, and a sequence of all of them in the
\* order of their stamps.
OneByStamp(S) ==
  /\ \A r \in S : r.close \in Int
  /\ \A r, s \in S : r.close = s.close => r = s

Sorted(p, n) == \A i, j \in 1 .. n : i < j => p[i].close < p[j].close

\* A finite set of rows that is not empty has an earliest one.
LEMMA Earliest ==
  ASSUME NEW S, IsFiniteSet(S), S # {}, \A r \in S : r.close \in Int
  PROVE  \E r \in S : \A s \in S : r.close <= s.close
<1> DEFINE n == Cardinality(S)
<1>1. PICK p : p \in Bijection(1 .. n, S)
  BY FS_CardinalityType DEF ExistsBijection
<1>2. n \in Nat /\ n # 0
  BY FS_CardinalityType, FS_EmptySet
<1>3. p \in [1 .. n -> S] /\ \A s \in S : \E i \in 1 .. n : p[i] = s
  BY <1>1 DEF Bijection, Injection, Surjection
<1> DEFINE value == [i \in 1 .. n |-> p[i].close]
<1> HIDE DEF n
<1>4. 1 <= n /\ \A i \in 1 .. n : value[i] \in Int /\ value[i] = p[i].close
  BY <1>2, <1>3
<1> HIDE DEF value
<1>5. PICK i \in 1 .. n : \A j \in 1 .. n : value[i] <= value[j]
  <2>1. 1 \in Int /\ n \in Int /\ \A i \in 1 .. n : value[i] \in Int
    BY <1>2, <1>4
  <2> QED
    BY <1>4, <2>1, LowestExists
<1>6. p[i] \in S /\ \A s \in S : p[i].close <= s.close
  <2> SUFFICES ASSUME NEW s \in S PROVE p[i] \in S /\ p[i].close <= s.close
    BY <1>3
  <2>1. PICK j \in 1 .. n : p[j] = s
    BY <1>3
  <2> QED
    BY <1>3, <1>4, <1>5, <2>1
<1> QED
  BY <1>6

LEMMA CanBeSorted ==
  ASSUME NEW S, IsFiniteSet(S), OneByStamp(S)
  PROVE  \E p \in [1 .. Cardinality(S) -> S] : Sorted(p, Cardinality(S))
<1> DEFINE Has(T) == \E p \in [1 .. Cardinality(T) -> T] : Sorted(p, Cardinality(T))
           bad == {n \in Nat : \E T \in SUBSET S : Cardinality(T) = n /\ ~Has(T)}
<1>1. \A T \in SUBSET S : IsFiniteSet(T) /\ Cardinality(T) \in Nat
  BY FS_Subset, FS_CardinalityType
<1>2. bad = {}
  <2> SUFFICES ASSUME bad # {} PROVE FALSE
    OBVIOUS
  <2>1. PICK n \in bad : \A m \in bad : n <= m
    <3>1. bad \subseteq Nat
      OBVIOUS
    <3> QED
      BY <3>1, LeastNumber
  <2>2. PICK T \in SUBSET S : Cardinality(T) = n /\ ~Has(T)
    OBVIOUS
  <2>3. T # {}
    <3> SUFFICES ASSUME T = {} PROVE FALSE
      OBVIOUS
    <3>1. Cardinality(T) = 0
      BY FS_EmptySet
    <3> DEFINE p == [k \in 1 .. 0 |-> 0]
    <3>2. p \in [1 .. 0 -> T] /\ Sorted(p, 0)
      BY DEF Sorted
    <3> QED
      BY <2>2, <3>1, <3>2
  <2>4. PICK first \in T : \A s \in T : first.close <= s.close
    <3>1. \A r \in T : r.close \in Int
      BY DEF OneByStamp
    <3> QED
      BY <1>1, <2>3, <3>1, Earliest
  <2> DEFINE rest == T \ {first}
  <2>5. \A s \in rest : first.close < s.close
    BY <2>4 DEF OneByStamp
  <2>6. rest \in SUBSET S /\ Cardinality(rest) = n - 1 /\ n \in Nat \ {0}
    <3>1. IsFiniteSet(T) /\ n \in Nat /\ Cardinality(rest) \in Nat
      BY <1>1, <2>2
    <3>2. Cardinality(rest) = Cardinality(T) - 1
      BY <3>1, FS_RemoveElement
    <3> QED
      BY <2>2, <3>1, <3>2
  <2>7. PICK p \in [1 .. n - 1 -> rest] : Sorted(p, n - 1)
    <3>1. n - 1 \notin bad /\ n - 1 \in Nat
      BY <2>1, <2>6
    <3>2. Has(rest)
      BY <2>6, <3>1
    <3> QED
      BY <2>6, <3>2
  <2> DEFINE q == [k \in 1 .. n |-> IF k = 1 THEN first ELSE p[k - 1]]
  <2>8. q \in [1 .. n -> T]
    BY <2>6, <2>7
  <2>9. Sorted(q, n)
    <3> SUFFICES ASSUME NEW k \in 1 .. n, NEW l \in 1 .. n, k < l
                 PROVE  q[k].close < q[l].close
      BY DEF Sorted
    <3>1. l - 1 \in 1 .. n - 1 /\ q[l] = p[l - 1] /\ q[l] \in rest
      BY <2>6, <2>7
    <3>2. CASE k = 1
      BY <2>5, <3>1, <3>2
    <3>3. CASE k # 1
      <4>1. k - 1 \in 1 .. n - 1 /\ q[k] = p[k - 1] /\ k - 1 < l - 1
        BY <2>6, <3>3
      <4> QED
        BY <2>7, <3>1, <4>1 DEF Sorted
    <3> QED
      BY <3>2, <3>3
  <2> QED
    BY <2>2, <2>8, <2>9
<1>3. Has(S)
  BY <1>1, <1>2
<1> QED
  BY <1>3

\* InOrder lists all the rows, in the order of their stamps.
Lists(seq, S) ==
  /\ seq \in Seq(S) /\ DOMAIN seq = 1 .. Len(seq) /\ Len(seq) \in Nat
  /\ Sorted(seq, Len(seq))
  /\ \A r \in S : \E i \in 1 .. Len(seq) : seq[i] = r

LEMMA InOrderLists ==
  ASSUME NEW S, IsFiniteSet(S), OneByStamp(S)
  PROVE  Lists(InOrder(S), S)
<1> DEFINE n == Cardinality(S)
           Rank(r) == Cardinality({s \in S : s.close < r.close})
<1>1. PICK p \in [1 .. n -> S] : Sorted(p, n)
  BY CanBeSorted
<1>2. n \in Nat
  BY FS_CardinalityType
<1>3. \A i, j \in 1 .. n : p[i].close < p[j].close <=> i < j
  <2> SUFFICES ASSUME NEW i \in 1 .. n, NEW j \in 1 .. n
               PROVE  p[i].close < p[j].close <=> i < j
    OBVIOUS
  <2>1. p[i].close \in Int /\ p[j].close \in Int /\ i \in Int /\ j \in Int
    BY <1>1, <1>2 DEF OneByStamp
  <2>2. (i < j => p[i].close < p[j].close) /\ (j < i => p[j].close < p[i].close)
    BY <1>1 DEF Sorted
  <2> QED
    BY <2>1, <2>2
<1>4. \A r \in S : \E i \in 1 .. n : p[i] = r
  <2>1. \A i, j \in 1 .. n : p[i] = p[j] => i = j
    <3> SUFFICES ASSUME NEW i \in 1 .. n, NEW j \in 1 .. n, p[i] = p[j] PROVE i = j
      OBVIOUS
    <3>1. ~(p[i].close < p[j].close) /\ ~(p[j].close < p[i].close)
      <4>1. p[i].close \in Int
        BY <1>1 DEF OneByStamp
      <4> QED
        BY <4>1
    <3> QED
      BY <1>2, <1>3, <3>1
  <2>2. Cardinality(1 .. n) = n
    BY <1>2, FS_Interval
  <2> HIDE DEF n
  <2>3. p \in Injection(1 .. n, S)
    BY <1>1, <2>1 DEF Injection, IsInjective
  <2>4. Cardinality(1 .. n) = Cardinality(S)
    BY <2>2 DEF n
  <2>5. p \in Surjection(1 .. n, S)
    BY <2>3, <2>4, FS_Injection
  <2> QED
    BY <2>5 DEF Surjection
<1>5. ASSUME NEW i \in 1 .. n
      PROVE  Rank(p[i]) = i - 1
  <2> DEFINE before == {s \in S : s.close < p[i].close}
             f == [k \in 1 .. i - 1 |-> p[k]]
  <2>1. i \in Int /\ i >= 1 /\ \A k \in 1 .. i - 1 : k \in 1 .. n /\ k < i
    BY <1>2
  <2>2. f \in [1 .. i - 1 -> before] /\ \A k \in 1 .. i - 1 : f[k] = p[k]
    BY <1>1, <1>3, <2>1
  <2>3. \A s \in before : \E k \in 1 .. i - 1 : f[k] = s
    <3> TAKE s \in before
    <3>1. PICK k \in 1 .. n : p[k] = s
      BY <1>4
    <3>2. k < i
      BY <1>3, <3>1
    <3>3. k \in 1 .. i - 1
      BY <1>2, <2>1, <3>2
    <3> QED
      BY <3>1, <3>3
  <2>4. \A k, l \in 1 .. i - 1 : f[k] = f[l] => k = l
    <3> SUFFICES ASSUME NEW k \in 1 .. i - 1, NEW l \in 1 .. i - 1, f[k] = f[l] PROVE k = l
      OBVIOUS
    <3>1. k \in 1 .. n /\ l \in 1 .. n /\ p[k] = p[l]
      BY <2>1, <2>2
    <3>2. ~(p[k].close < p[l].close) /\ ~(p[l].close < p[k].close)
      <4>1. p[k].close \in Int
        BY <1>1, <3>1 DEF OneByStamp
      <4> QED
        BY <3>1, <4>1
    <3> QED
      BY <1>2, <1>3, <3>1, <3>2
  <2>5. Cardinality(before) = Cardinality(1 .. i - 1) /\ IsFiniteSet(1 .. i - 1)
    <3> HIDE DEF before, f
    <3>1. f \in Surjection(1 .. i - 1, before) /\ f \in Injection(1 .. i - 1, before)
      BY <2>2, <2>3, <2>4 DEF Surjection, Injection, IsInjective
    <3>2. IsFiniteSet(1 .. i - 1)
      BY <2>1, FS_Interval
    <3> QED
      BY <3>1, <3>2, FS_Surjection
  <2>6. Cardinality(1 .. i - 1) = i - 1
    BY <2>1, FS_Interval
  <2> QED
    BY <2>5, <2>6
<1> HIDE DEF Rank
<1>6. \A i \in 1 .. n : (CHOOSE row \in S : Rank(row) = i - 1) = p[i]
  <2> TAKE i \in 1 .. n
  <2>1. p[i] \in S /\ Rank(p[i]) = i - 1
    BY <1>1, <1>5
  <2>2. \A r \in S : Rank(r) = i - 1 => r = p[i]
    <3> TAKE r \in S
    <3>1. PICK k \in 1 .. n : p[k] = r
      BY <1>4
    <3>2. Rank(r) = k - 1
      BY <1>5, <3>1
    <3> QED
      BY <1>2, <3>1, <3>2
  <2> QED
    BY <2>1, <2>2
<1>7. InOrder(S) = [i \in 1 .. n |-> p[i]]
  BY <1>6 DEF InOrder, Rank
<1>8. InOrder(S) = p
  BY <1>1, <1>7
<1> HIDE DEF n
<1>9. p \in Seq(S) /\ Len(p) = n /\ DOMAIN p = 1 .. n
  BY <1>1, <1>2, IsASeq, LenProperties
<1> QED
  BY <1>1, <1>2, <1>4, <1>8, <1>9 DEF Lists

-----------------------------------------------------------------------------
\* The rows of a source file, numbered by its lines, and those of a frame.
Rows(lines) == [line : lines, close : Int, faults : SUBSET Faults]

IsFile(rows) ==
  /\ rows \subseteq Rows(Nat \ {0})
  /\ IsFiniteSet(rows)
  /\ \E n \in Nat : \A row \in rows : row.line <= n
  /\ \A r, s \in rows : r.line = s.line => r = s

LEMMA RepairedRow ==
  ASSUME NEW lines, NEW row \in Rows(lines)
  PROVE  /\ Repaired(row) \in Rows(lines)
         /\ Repaired(row).line = row.line /\ Repaired(row).close = row.close
         /\ Repaired(row).faults = IF ClipOhlcInconsistent THEN row.faults \ {"ohlc_inconsistent"}
                                                          ELSE row.faults
<1>1. CASE ClipOhlcInconsistent
  <2>1. Repaired(row) = [line |-> row.line, close |-> row.close,
                         faults |-> row.faults \ {"ohlc_inconsistent"}]
    BY <1>1 DEF Repaired, Rows
  <2> QED
    BY <1>1, <2>1 DEF Rows
<1>2. CASE ~ClipOhlcInconsistent
  BY <1>2 DEF Repaired
<1> QED
  BY <1>1, <1>2

\* The drops leave a file.
LEMMA UsableIsFile ==
  ASSUME NEW rows, IsFile(rows)
  PROVE  /\ IsFile(Usable(rows))
         /\ \A u \in Usable(rows) :
              /\ DropOffGrid => OnGrid(u.close)
              /\ DropNullRows => "null_price" \notin u.faults
              /\ DropNonPositivePrices => "non_positive_price" \notin u.faults
              /\ DropOhlcInconsistent \/ ClipOhlcInconsistent => "ohlc_inconsistent" \notin u.faults
<1> DEFINE f == [row \in rows |-> Repaired(row)]
           image == {Repaired(row) : row \in rows}
<1>1. \A row \in rows : /\ Repaired(row) \in Rows(Nat \ {0})
                        /\ Repaired(row).line = row.line
                        /\ ClipOhlcInconsistent => "ohlc_inconsistent" \notin Repaired(row).faults
  BY RepairedRow DEF IsFile
<1>2. IsFiniteSet(image)
  <2>1. f \in Surjection(rows, image)
    BY DEF Surjection
  <2> HIDE DEF f, image
  <2> QED
    BY <2>1, FS_Surjection DEF IsFile
<1>3. Usable(rows) \in SUBSET image
  BY DEF Usable
<1>4. IsFiniteSet(Usable(rows))
  <2> HIDE DEF image
  <2> QED
    BY <1>2, <1>3, FS_Subset
<1>5. \A u \in Usable(rows) : \E row \in rows : u = Repaired(row)
  BY DEF Usable
<1>6. \A u \in Usable(rows) : /\ u \in Rows(Nat \ {0})
                              /\ \E row \in rows : u = Repaired(row) /\ row.line = u.line
                              /\ ClipOhlcInconsistent => "ohlc_inconsistent" \notin u.faults
  BY <1>1, <1>5
<1>7. \A u, v \in Usable(rows) : u.line = v.line => u = v
  BY <1>6 DEF IsFile
<1>8. \E n \in Nat : \A u \in Usable(rows) : u.line <= n
  BY <1>6 DEF IsFile
<1>9. \A u \in Usable(rows) :
        /\ DropOffGrid => OnGrid(u.close)
        /\ DropNullRows => "null_price" \notin u.faults
        /\ DropNonPositivePrices => "non_positive_price" \notin u.faults
        /\ DropOhlcInconsistent => "ohlc_inconsistent" \notin u.faults
  BY DEF Usable
<1>10. IsFile(Usable(rows))
  BY <1>4, <1>6, <1>7, <1>8 DEF IsFile
<1> QED
  BY <1>6, <1>9, <1>10

\* Deduplication leaves one row for every stamp, and without keep_first the last
\* one of the file.
LEMMA LastOfStamp ==
  ASSUME NEW rows, IsFile(rows), NEW row \in rows
  PROVE  \E last \in rows : /\ last.close = row.close
                            /\ \A other \in rows : other.close = row.close => other.line <= last.line
<1>1. PICK n \in Nat : \A r \in rows : r.line <= n
  BY DEF IsFile
<1> DEFINE rest == {n - r.line : r \in {s \in rows : s.close = row.close}}
<1>2. rest \subseteq Nat /\ rest # {}
  <2>1. \A r \in rows : n - r.line \in Nat
    BY <1>1 DEF IsFile, Rows
  <2> QED
    BY <2>1
<1>3. PICK d \in rest : \A e \in rest : d <= e
  BY <1>2, LeastNumber
<1>4. PICK last \in rows : last.close = row.close /\ d = n - last.line
  OBVIOUS
<1>5. \A other \in rows : other.close = row.close => other.line <= last.line
  <2> SUFFICES ASSUME NEW other \in rows, other.close = row.close
               PROVE  other.line <= last.line
    OBVIOUS
  <2>1. n - last.line <= n - other.line
    BY <1>3, <1>4
  <2> QED
    BY <2>1 DEF IsFile, Rows
<1> QED
  BY <1>4, <1>5

LEMMA DeduplicatedOnce ==
  ASSUME CleaningAssumption, NEW rows, IsFile(rows)
  PROVE  /\ Deduplicated(rows) \subseteq rows
         /\ IsFiniteSet(Deduplicated(rows))
         /\ OneByStamp(Deduplicated(rows))
         /\ DuplicatePolicy # "keep_first" => \A row \in rows :
              \E last \in Deduplicated(rows) : last.close = row.close /\ row.line <= last.line
<1>1. Deduplicated(rows) \subseteq rows
  BY DEF Deduplicated
<1>2. IsFiniteSet(Deduplicated(rows))
  BY <1>1, FS_Subset DEF IsFile
<1>3. \A r \in rows : r.close \in Int /\ r.line \in Int
  BY DEF IsFile, Rows
<1>4. OneByStamp(Deduplicated(rows))
  <2> SUFFICES ASSUME NEW r \in Deduplicated(rows), NEW s \in Deduplicated(rows), r.close = s.close
               PROVE  r = s
    BY <1>1, <1>3 DEF OneByStamp
  <2>1. r \in rows /\ s \in rows /\ r.line = s.line
    BY <1>1, <1>3 DEF Deduplicated
  <2> QED
    BY <2>1 DEF IsFile
<1>5. ASSUME DuplicatePolicy # "keep_first", NEW row \in rows
      PROVE  \E last \in Deduplicated(rows) : last.close = row.close /\ row.line <= last.line
  <2>1. PICK last \in rows : /\ last.close = row.close
                             /\ \A other \in rows : other.close = row.close => other.line <= last.line
    BY LastOfStamp
  <2>2. last \in Deduplicated(rows)
    BY <1>5, <2>1 DEF Deduplicated
  <2> QED
    BY <2>1, <2>2
<1> QED
  BY <1>1, <1>2, <1>4, <1>5

-----------------------------------------------------------------------------
\* The number of bars missing between two stamps.
MissingBetween(r, s) == (s.close - r.close) \div Duration - 1

LEMMA Duration1 ==
  ASSUME CleaningAssumption
  PROVE  Duration \in Nat \ {0} /\ MaxForwardFillBars \in Nat
BY DEF CleaningAssumption

LEMMA Multiples ==
  ASSUME CleaningAssumption, NEW k \in Int, NEW l \in Int
  PROVE  /\ k * Duration \in Int /\ (k + 1) * Duration = k * Duration + Duration
         /\ k <= l => k * Duration <= l * Duration
         /\ k < l => k * Duration + Duration <= l * Duration
<1>1. Duration \in Nat \ {0}
  BY Duration1
<1>2. k * Duration \in Int /\ l * Duration \in Int /\ (k + 1) * Duration = k * Duration + Duration
  BY <1>1
<1>3. ASSUME k <= l PROVE k * Duration <= l * Duration
  <2>1. (l - k) * Duration >= 0
    BY <1>1, <1>3
  <2> QED
    BY <1>1, <1>2, <2>1
<1>4. ASSUME k < l PROVE k * Duration + Duration <= l * Duration
  <2>1. (l - k - 1) * Duration >= 0
    BY <1>1, <1>4
  <2> QED
    BY <1>1, <1>2, <2>1
<1> QED
  BY <1>2, <1>3, <1>4

\* What fills the gap between two rows lies between them, on their grid.
Fills(z, r, s, k) ==
  /\ z \in Rows({0}) /\ z.faults = {} /\ z.close = r.close + k * Duration
  /\ r.close < z.close /\ z.close < s.close
  /\ k * Duration \in Int /\ Duration <= k * Duration

LEMMA SyntheticRows ==
  ASSUME CleaningAssumption, NEW r, NEW s, r.close \in Int, s.close \in Int, r.close < s.close
  PROVE  LET m == MissingBetween(r, s)
         IN  /\ m \in Int /\ (m + 1) * Duration <= s.close - r.close
             /\ Synthetic(r, s) # {} => 1 <= m /\ m <= MaxForwardFillBars
             /\ IsFiniteSet(Synthetic(r, s)) /\ Cardinality(Synthetic(r, s)) <= MaxForwardFillBars
             /\ \A z \in Synthetic(r, s) : \E k \in 1 .. m : Fills(z, r, s, k)
             /\ m <= MaxForwardFillBars => \A k \in 1 .. m :
                  \E z \in Synthetic(r, s) : z.close = r.close + k * Duration
<1> DEFINE m == MissingBetween(r, s)
           Row(k) == [line |-> 0, close |-> r.close + k * Duration, faults |-> {}]
<1>1. Duration \in Nat \ {0} /\ MaxForwardFillBars \in Nat
  BY Duration1
<1>2. m \in Int /\ (m + 1) * Duration <= s.close - r.close
  <2> DEFINE d == s.close - r.close
  <2>1. d \in Int
    OBVIOUS
  <2> HIDE DEF d
  <2>2. d \div Duration \in Int /\ (d \div Duration) * Duration <= d
    BY <1>1, <2>1
  <2>3. m + 1 = d \div Duration
    BY <1>1, <2>2 DEF MissingBetween, d
  <2> QED
    BY <2>2, <2>3 DEF d, MissingBetween
<1>3. Synthetic(r, s) = IF m > MaxForwardFillBars THEN {} ELSE {Row(k) : k \in 1 .. m}
  BY DEF Synthetic, MissingBetween
<1> HIDE DEF m
<1>4. ASSUME NEW k \in 1 .. m
      PROVE  Fills(Row(k), r, s, k)
  <2>1. k * Duration \in Int /\ Duration <= k * Duration /\ k * Duration + Duration <= (m + 1) * Duration
    <3>1. k \in Int /\ 1 <= k /\ k < m + 1 /\ m + 1 \in Int
      BY <1>2
    <3>2. 1 * Duration = Duration /\ (m + 1) * Duration \in Int
      BY <1>1, <1>2
    <3> QED
      BY <3>1, <3>2, Multiples
  <2>2. (m + 1) * Duration \in Int
    BY <1>1, <1>2
  <2>3. r.close < Row(k).close /\ Row(k).close < s.close
    BY <1>1, <1>2, <2>1, <2>2
  <2> QED
    BY <2>1, <2>3 DEF Fills, Rows
<1>5. IsFiniteSet(Synthetic(r, s)) /\ Cardinality(Synthetic(r, s)) <= MaxForwardFillBars
  <2>1. CASE Synthetic(r, s) = {}
    BY <1>1, <2>1, FS_EmptySet
  <2>2. CASE Synthetic(r, s) # {}
    <3>1. ~(m > MaxForwardFillBars) /\ Synthetic(r, s) = {Row(k) : k \in 1 .. m}
      BY <1>3, <2>2
    <3>2. m >= 1
      BY <1>2, <2>2, <3>1
    <3> DEFINE f == [k \in 1 .. m |-> Row(k)]
    <3>3. f \in Surjection(1 .. m, Synthetic(r, s))
      BY <3>1 DEF Surjection
    <3>4. IsFiniteSet(1 .. m) /\ Cardinality(1 .. m) = m
      BY <1>2, <3>2, FS_Interval
    <3> HIDE DEF f
    <3>5. IsFiniteSet(Synthetic(r, s)) /\ Cardinality(Synthetic(r, s)) <= m
      BY <3>3, <3>4, FS_Surjection
    <3>6. Cardinality(Synthetic(r, s)) \in Nat
      BY <3>5, FS_CardinalityType
    <3> QED
      BY <1>1, <1>2, <3>1, <3>5, <3>6
  <2> QED
    BY <2>1, <2>2
<1>6. ASSUME Synthetic(r, s) # {}
      PROVE  1 <= m /\ m <= MaxForwardFillBars
  BY <1>1, <1>2, <1>3, <1>6
<1>7. \A z \in Synthetic(r, s) : \E k \in 1 .. m : Fills(z, r, s, k)
  BY <1>3, <1>4
<1>8. ASSUME m <= MaxForwardFillBars, NEW k \in 1 .. m
      PROVE  \E z \in Synthetic(r, s) : z.close = r.close + k * Duration
  <2>1. ~(m > MaxForwardFillBars)
    BY <1>1, <1>2, <1>8
  <2>2. Row(k) \in Synthetic(r, s) /\ Row(k).close = r.close + k * Duration
    BY <1>3, <2>1
  <2> QED
    BY <2>2
<1> QED
  BY <1>2, <1>5, <1>6, <1>7, <1>8 DEF m

-----------------------------------------------------------------------------
\* The kept rows of a file, the rows that fill the gap after one of them, and
\* all of them together.
IsKept(K) == IsFiniteSet(K) /\ OneByStamp(K) /\ K \subseteq Rows(Nat \ {0})

Gap(K, i) == Synthetic(InOrder(K)[i], InOrder(K)[i + 1])

Gaps(K) == 1 .. Len(InOrder(K)) - 1

Filled(K) == K \cup UNION {Gap(K, i) : i \in Gaps(K)}

LEMMA ListOrder ==
  ASSUME NEW S, NEW p, Lists(p, S), OneByStamp(S), NEW i \in 1 .. Len(p), NEW j \in 1 .. Len(p)
  PROVE  /\ p[i] \in S /\ p[i].close \in Int /\ i \in Int /\ j \in Int
         /\ i < j <=> p[i].close < p[j].close
         /\ i <= j => p[i].close <= p[j].close
<1>1. p[i] \in S /\ p[j] \in S /\ i \in Int /\ j \in Int
  BY ElementOfSeq DEF Lists
<1>2. p[i].close \in Int /\ p[j].close \in Int
  BY <1>1 DEF OneByStamp
<1>3. (i < j => p[i].close < p[j].close) /\ (j < i => p[j].close < p[i].close)
  BY DEF Lists, Sorted
<1> QED
  BY <1>1, <1>2, <1>3

LEMMA KeptOrder ==
  ASSUME NEW K, IsKept(K), NEW i \in 1 .. Len(InOrder(K)), NEW j \in 1 .. Len(InOrder(K))
  PROVE  /\ InOrder(K)[i] \in K /\ InOrder(K)[i].close \in Int /\ i \in Int /\ j \in Int
         /\ i < j <=> InOrder(K)[i].close < InOrder(K)[j].close
         /\ i <= j => InOrder(K)[i].close <= InOrder(K)[j].close
<1>1. Lists(InOrder(K), K) /\ OneByStamp(K)
  BY InOrderLists DEF IsKept
<1> QED
  BY <1>1, ListOrder

LEMMA GapRows ==
  ASSUME CleaningAssumption, NEW K, IsKept(K), NEW i \in Gaps(K)
  PROVE  LET r == InOrder(K)[i]
             s == InOrder(K)[i + 1]
             m == MissingBetween(r, s)
         IN  /\ i \in 1 .. Len(InOrder(K)) /\ i + 1 \in 1 .. Len(InOrder(K)) /\ i \in Int
             /\ r \in K /\ s \in K /\ r.close \in Int /\ s.close \in Int /\ r.close < s.close
             /\ m \in Int /\ (m + 1) * Duration <= s.close - r.close
             /\ Gap(K, i) # {} => 1 <= m /\ m <= MaxForwardFillBars
             /\ IsFiniteSet(Gap(K, i)) /\ Cardinality(Gap(K, i)) <= MaxForwardFillBars
             /\ \A z \in Gap(K, i) : \E k \in 1 .. m : Fills(z, r, s, k)
             /\ m <= MaxForwardFillBars => \A k \in 1 .. m :
                  \E z \in Gap(K, i) : z.close = r.close + k * Duration
<1>1. Len(InOrder(K)) \in Nat
  BY InOrderLists DEF IsKept, Lists
<1>2. /\ i \in 1 .. Len(InOrder(K)) /\ i + 1 \in 1 .. Len(InOrder(K)) /\ i \in Int /\ i < i + 1
  BY <1>1 DEF Gaps
<1>3. /\ InOrder(K)[i] \in K /\ InOrder(K)[i + 1] \in K
      /\ InOrder(K)[i].close \in Int /\ InOrder(K)[i + 1].close \in Int
      /\ InOrder(K)[i].close < InOrder(K)[i + 1].close
  BY <1>2, KeptOrder
<1> QED
  BY <1>2, <1>3, SyntheticRows DEF Gap

\* A row between two neighbours fills the gap between them.
LEMMA OnlyInGap ==
  ASSUME CleaningAssumption, NEW K, IsKept(K), NEW i \in Gaps(K), NEW x \in Filled(K),
         InOrder(K)[i].close < x.close, x.close < InOrder(K)[i + 1].close
  PROVE  x \in Gap(K, i)
<1> DEFINE kept == InOrder(K)
<1>1. i \in 1 .. Len(kept) /\ i + 1 \in 1 .. Len(kept) /\ i \in Int
  BY GapRows
<1>2. CASE x \in K
  <2>1. PICK j \in 1 .. Len(kept) : kept[j] = x
    BY <1>2, InOrderLists DEF IsKept, Lists
  <2>2. i < j /\ j < i + 1 /\ j \in Int
    BY <1>1, <2>1, KeptOrder
  <2> QED
    BY <1>1, <2>2
<1>3. CASE x \notin K
  <2>1. PICK j \in Gaps(K) : x \in Gap(K, j)
    BY <1>3 DEF Filled
  <2>2. /\ j \in 1 .. Len(kept) /\ j + 1 \in 1 .. Len(kept) /\ j \in Int
        /\ kept[j].close < x.close /\ x.close < kept[j + 1].close /\ x.close \in Int
    <3>1. j \in 1 .. Len(kept) /\ j + 1 \in 1 .. Len(kept) /\ j \in Int
      BY GapRows
    <3>2. PICK k : Fills(x, kept[j], kept[j + 1], k)
      BY <2>1, GapRows
    <3> QED
      BY <3>1, <3>2 DEF Fills, Rows
  <2>3. kept[i].close < kept[j + 1].close /\ kept[j].close < kept[i + 1].close
    <3>1. kept[i].close \in Int /\ kept[j].close \in Int /\ kept[i + 1].close \in Int /\ kept[j + 1].close \in Int
      BY <1>1, <2>2, KeptOrder
    <3> HIDE DEF kept
    <3> QED
      BY <2>2, <3>1 DEF kept
  <2>4. i < j + 1 /\ j < i + 1
    BY <1>1, <2>2, <2>3, KeptOrder
  <2>5. i = j
    BY <1>1, <2>2, <2>4
  <2> QED
    BY <2>1, <2>5
<1> QED
  BY <1>2, <1>3

\* The frame that is filled holds one row for every stamp, and the rows of no
\* line are those that fill gaps.
LEMMA FilledOnce ==
  ASSUME CleaningAssumption, NEW K, IsKept(K)
  PROVE  /\ IsFiniteSet(Filled(K)) /\ OneByStamp(Filled(K)) /\ Filled(K) \subseteq Rows(Nat)
         /\ \A x \in Filled(K) : x \in K <=> x.line # 0
         /\ \A x \in Filled(K) : x \notin K => \E i \in Gaps(K) : x \in Gap(K, i)
<1> DEFINE kept == InOrder(K)
<1>1. \A i \in Gaps(K) : \A z \in Gap(K, i) :
        z \in Rows({0}) /\ z.faults = {} /\ z.close \in Int
        /\ kept[i].close < z.close /\ z.close < kept[i + 1].close
  <2> SUFFICES ASSUME NEW i \in Gaps(K), NEW z \in Gap(K, i)
               PROVE  z \in Rows({0}) /\ z.faults = {} /\ z.close \in Int
                      /\ kept[i].close < z.close /\ z.close < kept[i + 1].close
    OBVIOUS
  <2>1. PICK k : Fills(z, kept[i], kept[i + 1], k)
    BY GapRows
  <2> QED
    BY <2>1 DEF Fills, Rows
<1>2. \A x \in Filled(K) : x \notin K => \E i \in Gaps(K) : x \in Gap(K, i)
  BY DEF Filled
<1>3. \A x \in K : x \in Rows(Nat) /\ x.line # 0 /\ x.close \in Int
  BY DEF IsKept, Rows
<1>4. \A x \in Rows({0}) : x \in Rows(Nat) /\ x.line = 0
  BY DEF Rows
<1>5. Filled(K) \subseteq Rows(Nat) /\ \A x \in Filled(K) : x \in K <=> x.line # 0
  BY <1>1, <1>2, <1>3, <1>4
<1>6. IsFiniteSet(Filled(K))
  <2> DEFINE sets == {Gap(K, i) : i \in Gaps(K)}
             f == [i \in Gaps(K) |-> Gap(K, i)]
  <2>1. f \in Surjection(Gaps(K), sets)
    BY DEF Surjection
  <2>2. IsFiniteSet(Gaps(K))
    <3>1. Len(kept) - 1 \in Int
      BY InOrderLists DEF IsKept, Lists
    <3> QED
      BY <3>1, FS_Interval DEF Gaps
  <2>3. \A T \in sets : IsFiniteSet(T)
    BY GapRows
  <2> HIDE DEF sets, f
  <2>4. IsFiniteSet(UNION sets)
    BY <2>1, <2>2, <2>3, FS_Surjection, FS_UNION
  <2>5. IsFiniteSet(K \cup UNION sets)
    BY <2>4, FS_Union DEF IsKept
  <2> QED
    BY <2>5 DEF Filled, sets
<1>7. OneByStamp(Filled(K))
  <2>1. \A x \in Filled(K) : x.close \in Int
    BY <1>5 DEF Rows
  <2> SUFFICES ASSUME NEW x \in Filled(K), NEW y \in Filled(K), x.close = y.close
               PROVE  x = y
    BY <2>1 DEF OneByStamp
  <2>2. CASE x \in K /\ y \in K
    BY <2>2 DEF IsKept, OneByStamp
  <2>3. ASSUME NEW u \in Filled(K), NEW v \in Filled(K), u.close = v.close, u \notin K
        PROVE  u = v
    <3>1. PICK i \in Gaps(K) : u \in Gap(K, i)
      BY <1>2, <2>3
    <3>2. v \in Gap(K, i)
      BY <1>1, <2>3, <3>1, OnlyInGap
    <3> DEFINE r == kept[i]
               s == kept[i + 1]
    <3>3. PICK k \in 1 .. MissingBetween(r, s) : Fills(u, r, s, k)
      BY <3>1, GapRows
    <3>4. u \in Rows({0}) /\ v \in Rows({0}) /\ u.faults = v.faults /\ u.close = v.close
      BY <1>1, <2>3, <3>1, <3>2
    <3>5. /\ u = [line |-> 0, close |-> u.close, faults |-> u.faults]
          /\ v = [line |-> 0, close |-> v.close, faults |-> v.faults]
      BY <3>4 DEF Rows
    <3> QED
      BY <3>4, <3>5
  <2> QED
    BY <2>2, <2>3
<1> QED
  BY <1>2, <1>5, <1>6, <1>7

-----------------------------------------------------------------------------
\* clean_bars lists the kept rows and what fills the short gaps between them.
LEMMA CleanLists ==
  ASSUME CleaningAssumption, NEW rows, IsFile(rows)
  PROVE  LET K == Deduplicated(Usable(rows))
         IN  IsKept(K) /\ CleanBars(rows) = InOrder(Filled(K)) /\ Lists(CleanBars(rows), Filled(K))
<1> DEFINE K == Deduplicated(Usable(rows))
<1>1. IsKept(K)
  BY UsableIsFile, DeduplicatedOnce DEF IsKept, IsFile
<1> HIDE DEF K
<1>2. Lists(InOrder(K), K)
  BY <1>1, InOrderLists DEF IsKept
<1>3. ToSet(InOrder(K)) = K
  <2>1. \A i \in 1 .. Len(InOrder(K)) : InOrder(K)[i] \in K
    BY <1>1, KeptOrder
  <2>2. DOMAIN InOrder(K) = 1 .. Len(InOrder(K))
    BY <1>2 DEF Lists
  <2>3. \A r \in K : \E i \in 1 .. Len(InOrder(K)) : InOrder(K)[i] = r
    BY <1>2 DEF Lists
  <2> QED
    BY <2>1, <2>2, <2>3 DEF ToSet
<1>4. CleanBars(rows) = InOrder(Filled(K))
  BY <1>3 DEF CleanBars, K, Filled, Gaps, Gap
<1>5. Lists(InOrder(Filled(K)), Filled(K))
  BY <1>1, FilledOnce, InOrderLists
<1> QED
  BY <1>1, <1>4, <1>5 DEF K

-----------------------------------------------------------------------------
\* Stamps on the grid are multiples of the length of a bar.
LEMMA OnGridIs ==
  ASSUME CleaningAssumption, NEW c \in Int
  PROVE  OnGrid(c) <=> \E g \in Int : c = g * Duration
<1>1. Duration \in Nat \ {0}
  BY Duration1
<1>2. ASSUME OnGrid(c) PROVE \E g \in Int : c = g * Duration
  <2>1. c \div Duration \in Int /\ c = (c \div Duration) * Duration
    BY <1>1, <1>2 DEF OnGrid
  <2> QED
    BY <2>1
<1>3. ASSUME NEW g \in Int, c = g * Duration PROVE OnGrid(c)
  <2>1. c \in Int
    OBVIOUS
  <2> DEFINE q == c \div Duration
             e == c % Duration
  <2>2. q \in Int /\ e \in Int /\ 0 <= e /\ e < Duration /\ c = q * Duration + e /\ q * Duration \in Int
    BY <1>1, SMT
  <2> HIDE DEF q, e
  <2>3. q = g
    <3>1. g < q => g * Duration + Duration <= q * Duration
      BY <2>2, Multiples
    <3>2. q < g => q * Duration + Duration <= g * Duration
      BY <2>2, Multiples
    <3> QED
      BY <1>1, <1>3, <2>2, <3>1, <3>2
  <2>4. e = 0
    BY <1>3, <2>2, <2>3
  <2> QED
    BY <2>4 DEF OnGrid, e
<1> QED
  BY <1>2, <1>3

\* Between two stamps of the grid, the missing bars are counted exactly.
LEMMA MissingIs ==
  ASSUME CleaningAssumption, NEW r, NEW s, r.close \in Int, s.close \in Int,
         OnGrid(r.close), OnGrid(s.close), r.close < s.close
  PROVE  /\ MissingBetween(r, s) \in Nat
         /\ s.close = r.close + (MissingBetween(r, s) + 1) * Duration
         /\ \A k \in Int : s.close = r.close + k * Duration => k = MissingBetween(r, s) + 1
<1> DEFINE d == s.close - r.close
<1>1. Duration \in Nat \ {0} /\ d \in Int /\ 0 < d
  BY Duration1
<1>2. PICK g \in Int : r.close = g * Duration
  BY OnGridIs
<1>3. PICK h \in Int : s.close = h * Duration
  BY OnGridIs
<1>4. d = (h - g) * Duration
  BY <1>1, <1>2, <1>3
<1> DEFINE q == d \div Duration
           e == d % Duration
<1> HIDE DEF d
<1>5. q \in Int /\ e \in Int /\ d = q * Duration + e /\ q * Duration \in Int
  BY <1>1, SMT
<1>6. e = 0
  BY <1>1, <1>4, OnGridIs DEF OnGrid
<1> HIDE DEF e
<1>7. MissingBetween(r, s) + 1 = q /\ MissingBetween(r, s) \in Int
  BY <1>1, <1>5 DEF MissingBetween, d, q
<1> HIDE DEF q
<1>8. s.close = r.close + q * Duration
  BY <1>5, <1>6, <1>7 DEF d
<1>9. ASSUME NEW k \in Int, s.close = r.close + k * Duration PROVE k = q
  <2>1. k * Duration = q * Duration
    <3>1. k * Duration \in Int /\ q * Duration \in Int
      BY <1>1, <1>5
    <3> QED
      BY <1>8, <1>9, <3>1
  <2>2. k < q => k * Duration + Duration <= q * Duration
    BY <1>5, Multiples
  <2>3. q < k => q * Duration + Duration <= k * Duration
    BY <1>5, Multiples
  <2>4. q * Duration \in Int
    BY <1>5
  <2> QED
    BY <1>1, <1>5, <2>1, <2>2, <2>3, <2>4
<1>10. ~(q <= 0)
  <2> SUFFICES ASSUME q <= 0 PROVE FALSE
    OBVIOUS
  <2>1. q * Duration <= 0 * Duration /\ 0 * Duration = 0
    BY <1>1, <1>5, Multiples
  <2> QED
    BY <1>1, <1>5, <1>6, <2>1
<1>11. MissingBetween(r, s) \in Nat
  BY <1>5, <1>7, <1>10
<1> QED
  BY <1>7, <1>8, <1>9, <1>11

\* Every row of the frame is on the grid, if the kept ones are.
LEMMA FilledOnGrid ==
  ASSUME CleaningAssumption, NEW K, IsKept(K), \A row \in K : OnGrid(row.close)
  PROVE  \A x \in Filled(K) : OnGrid(x.close) /\ x.close \in Int
<1>1. \A x \in K : x.close \in Int
  BY DEF IsKept, OneByStamp
<1>2. ASSUME NEW x \in Filled(K), x \notin K
      PROVE  OnGrid(x.close) /\ x.close \in Int
  <2>1. PICK i \in Gaps(K) : x \in Gap(K, i)
    BY <1>2, FilledOnce
  <2>2. InOrder(K)[i] \in K /\ MissingBetween(InOrder(K)[i], InOrder(K)[i + 1]) \in Int
    BY GapRows
  <2>3. PICK k \in 1 .. MissingBetween(InOrder(K)[i], InOrder(K)[i + 1]) :
          Fills(x, InOrder(K)[i], InOrder(K)[i + 1], k)
    BY <2>1, GapRows
  <2>4. PICK g \in Int : InOrder(K)[i].close = g * Duration
    BY <1>1, <2>2, OnGridIs
  <2>5. k \in Int /\ x.close = g * Duration + k * Duration /\ Duration \in Int
    BY <2>2, <2>3, <2>4, Duration1 DEF Fills
  <2>6. x.close = (g + k) * Duration /\ g + k \in Int /\ x.close \in Int
    BY <2>5
  <2> QED
    BY <2>6, OnGridIs
<1> QED
  BY <1>1, <1>2

\* A row that is not the last of the frame stands at the start of a gap or in one.
LEMMA InSomeGap ==
  ASSUME CleaningAssumption, NEW K, IsKept(K),
         NEW x \in Filled(K), NEW y \in Filled(K), x.close < y.close
  PROVE  \E i \in Gaps(K) :
           /\ x = InOrder(K)[i] \/ x \in Gap(K, i)
           /\ x.close < InOrder(K)[i + 1].close
<1> DEFINE kept == InOrder(K)
<1>1. Lists(kept, K)
  BY InOrderLists DEF IsKept
<1>2. CASE x \notin K
  <2>1. PICK i \in Gaps(K) : x \in Gap(K, i)
    BY <1>2, FilledOnce
  <2>2. PICK k : Fills(x, kept[i], kept[i + 1], k)
    BY <2>1, GapRows
  <2> QED
    BY <2>1, <2>2 DEF Fills
<1>3. CASE x \in K
  <2>1. PICK i \in 1 .. Len(kept) : kept[i] = x
    BY <1>1, <1>3 DEF Lists
  <2>2. \E j \in 1 .. Len(kept) : i < j
    <3>1. CASE y \in K
      <4>1. PICK j \in 1 .. Len(kept) : kept[j] = y
        BY <1>1, <3>1 DEF Lists
      <4> QED
        BY <2>1, <4>1, KeptOrder
    <3>2. CASE y \notin K
      <4>1. PICK l \in Gaps(K) : y \in Gap(K, l)
        BY <3>2, FilledOnce
      <4>2. PICK k : Fills(y, kept[l], kept[l + 1], k)
        BY <4>1, GapRows
      <4>3. l + 1 \in 1 .. Len(kept) /\ kept[l + 1].close \in Int /\ y.close \in Int /\ x.close \in Int
        <5>1. x.close \in Int /\ y.close \in Int
          BY FilledOnce DEF OneByStamp
        <5> QED
          BY <5>1, GapRows
      <4>4. x.close < kept[l + 1].close
        BY <4>2, <4>3 DEF Fills
      <4> QED
        BY <2>1, <4>3, <4>4, KeptOrder
    <3> QED
      BY <3>1, <3>2
  <2>3. Len(kept) \in Nat
    BY <1>1 DEF Lists
  <2>4. i \in Gaps(K)
    BY <2>2, <2>3 DEF Gaps
  <2> QED
    BY <2>1, <2>4, GapRows
<1> QED
  BY <1>2, <1>3

\* The hole between a row and the one after it is none, or too long to fill.
LEMMA HolesAreLong ==
  ASSUME CleaningAssumption, NEW K, IsKept(K), \A row \in K : OnGrid(row.close),
         NEW x \in Filled(K), NEW y \in Filled(K), x.close < y.close,
         \A z \in Filled(K) : x.close < z.close => y.close <= z.close
  PROVE  MissingBetween(x, y) = 0 \/ MissingBetween(x, y) > MaxForwardFillBars
<1> DEFINE kept == InOrder(K)
<1>0. Duration \in Nat \ {0} /\ MaxForwardFillBars \in Nat
  BY Duration1
<1>1. \A z \in Filled(K) : OnGrid(z.close) /\ z.close \in Int
  BY FilledOnGrid
<1>2. PICK i \in Gaps(K) : (x = kept[i] \/ x \in Gap(K, i)) /\ x.close < kept[i + 1].close
  BY InSomeGap
<1> DEFINE r == kept[i]
           s == kept[i + 1]
           m == MissingBetween(r, s)
<1>3. r \in Filled(K) /\ s \in Filled(K) /\ r.close < s.close
  BY GapRows DEF Filled
<1>4. m \in Nat /\ s.close = r.close + (m + 1) * Duration
  BY <1>1, <1>3, MissingIs
<1>5. y.close <= s.close
  BY <1>2, <1>3
<1>6. CASE m > MaxForwardFillBars
  <2>1. Gap(K, i) = {}
    <3>1. Gap(K, i) # {} => m <= MaxForwardFillBars
      BY GapRows
    <3> HIDE DEF m
    <3> QED
      BY <1>0, <1>4, <1>6, <3>1
  <2>2. x = r
    BY <1>2, <2>1
  <2>3. y.close = s.close
    <3>1. ~(y.close < s.close)
      BY <2>1, <2>2, OnlyInGap
    <3> QED
      BY <1>1, <1>3, <1>5, <3>1
  <2>4. MissingBetween(x, y) = m
    BY <2>2, <2>3 DEF MissingBetween
  <2> QED
    BY <1>6, <2>4
<1>7. CASE m <= MaxForwardFillBars
  <2>1. \E k \in 0 .. m : x.close = r.close + k * Duration
    <3>1. CASE x = r
      <4>1. x.close = r.close + 0 * Duration
        BY <1>0, <1>1, <1>3, <3>1
      <4> QED
        BY <1>4, <4>1
    <3>2. CASE x \in Gap(K, i)
      <4>1. PICK k \in 1 .. m : Fills(x, r, s, k)
        BY <3>2, GapRows
      <4> QED
        BY <1>4, <4>1 DEF Fills
    <3> QED
      BY <1>2, <3>1, <3>2
  <2>2. PICK k \in 0 .. m : x.close = r.close + k * Duration
    BY <2>1
  <2>3. k \in Int /\ k + 1 \in 1 .. m + 1 /\ (k + 1) * Duration = k * Duration + Duration
        /\ k * Duration \in Int
    BY <1>4, Multiples
  <2>4. r.close + (k + 1) * Duration = x.close + Duration
    BY <1>0, <1>1, <1>3, <2>2, <2>3
  <2>5. \E z \in Filled(K) : z.close = x.close + Duration
    <3>1. CASE k = m
      BY <1>3, <1>4, <2>4, <3>1
    <3>2. CASE k # m
      <4>1. k + 1 \in 1 .. m
        BY <1>4, <3>2
      <4>2. PICK z \in Gap(K, i) : z.close = r.close + (k + 1) * Duration
        BY <1>7, <4>1, GapRows
      <4> QED
        BY <2>4, <4>2 DEF Filled
    <3> QED
      BY <3>1, <3>2
  <2>6. y.close <= x.close + Duration
    BY <1>0, <1>1, <2>5
  <2>7. MissingBetween(x, y) \in Nat /\ y.close = x.close + (MissingBetween(x, y) + 1) * Duration
    BY <1>1, MissingIs
  <2> DEFINE n == MissingBetween(x, y)
  <2> HIDE DEF n
  <2>8. n \in Nat /\ y.close = x.close + (n + 1) * Duration
    BY <2>7 DEF n
  <2>9. n > 0 => 1 * Duration + Duration <= (n + 1) * Duration
    <3>1. n > 0 => 1 < n + 1 /\ n + 1 \in Int
      BY <2>8
    <3> QED
      BY <3>1, Multiples
  <2>10. n = 0
    <3>1. (n + 1) * Duration \in Int /\ 1 * Duration = Duration
      BY <1>0, <2>8
    <3> HIDE DEF m
    <3> QED
      BY <1>0, <1>1, <2>6, <2>8, <2>9, <3>1
  <2> QED
    BY <2>10 DEF n
<1> QED
  BY <1>0, <1>4, <1>6, <1>7

\* Synthetic rows that follow each other all fill one gap.
LEMMA RunsAreShort ==
  ASSUME CleaningAssumption, NEW K, IsKept(K), NEW p, Lists(p, Filled(K)),
         NEW i \in 1 .. Len(p) - 1, NEW j \in i + 1 .. Len(p),
         \A k \in i + 1 .. j : p[k].line = 0
  PROVE  j - i <= MaxForwardFillBars
<1> DEFINE F == Filled(K)
           kept == InOrder(K)
<1>1. OneByStamp(F) /\ \A x \in F : (x \in K <=> x.line # 0) /\ x.close \in Int
  BY FilledOnce DEF OneByStamp
<1>2. Len(p) \in Nat /\ i \in Int /\ j \in Int /\ i < j
  BY DEF Lists
<1>3. \A k \in i + 1 .. j : k \in 1 .. Len(p) /\ p[k] \in F /\ p[k] \notin K
  <2>1. \A k \in i + 1 .. j : k \in 1 .. Len(p)
    BY <1>2
  <2> QED
    BY <1>1, <2>1, ListOrder
<1>4. i + 1 \in i + 1 .. j
  BY <1>2
<1>5. PICK g \in Gaps(K) : p[i + 1] \in Gap(K, g)
  BY <1>3, <1>4, FilledOnce
<1>6. PICK d : Fills(p[i + 1], kept[g], kept[g + 1], d)
  BY <1>5, GapRows
<1>7. /\ kept[g].close < p[i + 1].close /\ p[i + 1].close < kept[g + 1].close
      /\ kept[g + 1] \in K /\ kept[g].close \in Int /\ kept[g + 1].close \in Int
  BY <1>6, GapRows DEF Fills
<1>8. PICK q \in 1 .. Len(p) : p[q] = kept[g + 1]
  BY <1>7 DEF Lists, Filled
<1>9. j < q
  <2>1. i + 1 < q
    BY <1>1, <1>3, <1>4, <1>7, <1>8, ListOrder
  <2>2. q \notin i + 1 .. j
    BY <1>3, <1>7, <1>8
  <2> QED
    BY <1>2, <2>1, <2>2
<1>10. \A k \in i + 1 .. j : p[k] \in Gap(K, g)
  <2> TAKE k \in i + 1 .. j
  <2>1. k \in 1 .. Len(p) /\ p[k] \in F /\ p[k].close \in Int /\ k < q /\ i + 1 <= k
        /\ i + 1 \in 1 .. Len(p)
    BY <1>1, <1>2, <1>3, <1>4, <1>9
  <2>2. p[k].close < kept[g + 1].close
    BY <1>1, <1>8, <2>1, ListOrder
  <2>3. p[i + 1].close <= p[k].close /\ p[i + 1].close \in Int
    BY <1>1, <2>1, ListOrder
  <2>4. kept[g].close < p[k].close
    BY <1>7, <2>1, <2>3
  <2> QED
    BY <2>1, <2>2, <2>4, OnlyInGap
<1> DEFINE f == [k \in i + 1 .. j |-> p[k]]
<1>11. f \in Injection(i + 1 .. j, Gap(K, g))
  <2>1. f \in [i + 1 .. j -> Gap(K, g)]
    BY <1>10
  <2>2. \A k, l \in i + 1 .. j : p[k] = p[l] => k = l
    <3> SUFFICES ASSUME NEW k \in i + 1 .. j, NEW l \in i + 1 .. j, p[k] = p[l] PROVE k = l
      OBVIOUS
    <3>1. k \in 1 .. Len(p) /\ l \in 1 .. Len(p) /\ p[k].close \in Int
      BY <1>1, <1>3
    <3>2. ~(k < l) /\ ~(l < k)
      <4>1. ~(p[k].close < p[l].close) /\ ~(p[l].close < p[k].close)
        BY <3>1
      <4> QED
        BY <1>1, <3>1, <4>1, ListOrder
    <3> QED
      BY <1>2, <3>2
  <2> QED
    BY <2>1, <2>2 DEF Injection, IsInjective
<1>12. IsFiniteSet(Gap(K, g)) /\ Cardinality(Gap(K, g)) <= MaxForwardFillBars
  BY GapRows
<1>13. Cardinality(i + 1 .. j) = j - i
  <2>1. i + 1 \in Int /\ i + 1 <= j /\ j - (i + 1) + 1 = j - i
    BY <1>2
  <2> QED
    BY <1>2, <2>1, FS_Interval
<1> HIDE DEF f
<1>14. Cardinality(i + 1 .. j) <= Cardinality(Gap(K, g))
  BY <1>11, <1>12, FS_Injection
<1>15. Cardinality(Gap(K, g)) \in Nat /\ MaxForwardFillBars \in Nat
  BY <1>12, FS_CardinalityType, Duration1
<1> QED
  BY <1>2, <1>12, <1>13, <1>14, <1>15

-----------------------------------------------------------------------------
\* The source is numbered by its lines, so that a line that is added is one it
\* has not; and the frame is what cleaning made of lines that are still there.
IngestInv ==
  /\ IsFile(source) /\ \A row \in source : row.line <= Cardinality(source)
  /\ base = <<>> \/ \E rows \in SUBSET source : base = CleanBars(rows)

LEMMA PartOfFile ==
  ASSUME NEW rows, IsFile(rows), NEW part \in SUBSET rows
  PROVE  IsFile(part)
<1>1. IsFiniteSet(part)
  BY FS_Subset DEF IsFile
<1> QED
  BY <1>1 DEF IsFile

LEMMA AddedLine ==
  ASSUME IngestInv, NEW close \in Closes, NEW faults \in {{}} \cup {{f} : f \in Faults},
         AddRow(close, faults)
  PROVE  /\ source \subseteq source'
         /\ IsFile(source') /\ \A row \in source' : row.line <= Cardinality(source')
<1> DEFINE n == Cardinality(source)
           new == [line |-> n + 1, close |-> close, faults |-> faults]
<1>1. n \in Nat
  BY FS_CardinalityType DEF IngestInv, IsFile
<1>2. source' = source \cup {new}
  BY DEF AddRow
<1>3. new \in Rows(Nat \ {0}) /\ new.line = n + 1
  <2>1. close \in Int /\ faults \in SUBSET Faults
    BY IngestAssumption
  <2> QED
    BY <1>1, <2>1 DEF Rows
<1>4. \A row \in source : row.line \in Nat /\ row.line <= n /\ row.line # new.line
  BY <1>1, <1>3 DEF IngestInv, IsFile, Rows
<1>5. IsFiniteSet(source') /\ Cardinality(source') = n + 1
  <2>1. new \notin source
    BY <1>4
  <2> HIDE DEF new
  <2> QED
    BY <1>2, <2>1, FS_AddElement DEF IngestInv, IsFile
<1> HIDE DEF new, n
<1>6. \A row \in source' : row.line <= n + 1
  BY <1>1, <1>2, <1>3, <1>4
<1>7. \A r, s \in source' : r.line = s.line => r = s
  <2>1. \A r, s \in source : r.line = s.line => r = s
    BY DEF IngestInv, IsFile
  <2> QED
    BY <1>2, <1>4, <2>1
<1>8. source' \subseteq Rows(Nat \ {0})
  BY <1>2, <1>3 DEF IngestInv, IsFile
<1>9. IsFile(source')
  <2>1. n + 1 \in Nat
    BY <1>1
  <2> QED
    BY <1>5, <1>6, <1>7, <1>8, <2>1 DEF IsFile
<1> QED
  BY <1>2, <1>5, <1>6, <1>9

\* A run's frame is the cleaning of the file it read, or is not touched.
LEMMA RunsClean ==
  ASSUME RunIngest
  PROVE  /\ source' = source
         /\ base' = base \/ base' = CleanBars(source)
         /\ outcome' = "ingested" => base' = CleanBars(source)
BY DEF RunIngest

LEMMA IngestStep == IngestInv /\ [Next]_vars => IngestInv'
<1> SUFFICES ASSUME IngestInv, [Next]_vars PROVE IngestInv'
  OBVIOUS
<1>1. ASSUME NEW close \in Closes, NEW faults \in {{}} \cup {{f} : f \in Faults},
             AddRow(close, faults)
      PROVE  IngestInv'
  <2>1. /\ source \subseteq source'
        /\ IsFile(source') /\ \A row \in source' : row.line <= Cardinality(source')
    BY <1>1, AddedLine
  <2>2. base' = base
    BY <1>1 DEF AddRow
  <2> QED
    BY <2>1, <2>2 DEF IngestInv
<1>2. CASE RunIngest
  BY <1>2, RunsClean DEF IngestInv
<1>3. CASE UNCHANGED vars
  BY <1>3 DEF vars, IngestInv
<1> QED
  BY <1>1, <1>2, <1>3 DEF Next

LEMMA IngestInit == Init => IngestInv
<1> SUFFICES ASSUME Init PROVE IngestInv
  OBVIOUS
<1>1. source = {} /\ base = <<>>
  BY DEF Init
<1>2. IsFiniteSet(source) /\ \A row \in source : row.line <= 0
  BY <1>1, FS_EmptySet
<1> QED
  BY <1>1, <1>2 DEF IngestInv, IsFile

\* The file is numbered by its lines, and the frame is the cleaning of some of
\* the lines it still has: add_row and ingest_file keep it so.
THEOREM FramesAreAlwaysCleaned == Spec => []IngestInv
<1> QED
  BY IngestInit, IngestStep, PTL DEF Spec

\* The frame lists the kept rows of some lines and what fills their gaps.
LEMMA FrameIs ==
  ASSUME IngestInv, base # <<>>
  PROVE  \E rows \in SUBSET source :
           LET K == Deduplicated(Usable(rows))
           IN  /\ IsKept(K) /\ Lists(base, Filled(K))
               /\ \A u \in K : u \in Usable(rows)
               /\ IsFile(rows)
<1>1. PICK rows \in SUBSET source : base = CleanBars(rows)
  BY DEF IngestInv
<1>2. IsFile(rows)
  BY PartOfFile DEF IngestInv
<1>3. CleaningAssumption
  BY IngestAssumption
<1>4. Deduplicated(Usable(rows)) \subseteq Usable(rows)
  BY DEF Deduplicated
<1> QED
  BY <1>1, <1>2, <1>3, <1>4, CleanLists

\* clean_bars returns a frame that satisfies the BarFrame invariants, whatever
\* the file holds, as long as the drops of the default configuration are on:
\* strictly increasing stamps, on the grid, and prices without a fault.
THEOREM CleanedIsAlwaysFrame ==
  ASSUME DropNullRows, DropNonPositivePrices, DropOffGrid,
         DropOhlcInconsistent \/ ClipOhlcInconsistent
  PROVE  Spec => []CleanedIsFrame
<1>0. CleaningAssumption
  BY IngestAssumption
<1>1. IngestInv => CleanedIsFrame
  <2> SUFFICES ASSUME IngestInv, base # <<>> PROVE CleanedIsFrame
    BY DEF CleanedIsFrame
  <2>1. PICK rows \in SUBSET source :
          LET K == Deduplicated(Usable(rows))
          IN  /\ IsKept(K) /\ Lists(base, Filled(K))
              /\ \A u \in K : u \in Usable(rows)
              /\ IsFile(rows)
    BY FrameIs
  <2> DEFINE K == Deduplicated(Usable(rows))
  <2>2. \A u \in K : OnGrid(u.close) /\ u.faults \subseteq {"negative_volume"}
    <3> SUFFICES ASSUME NEW u \in K
                 PROVE  OnGrid(u.close) /\ u.faults \subseteq {"negative_volume"}
      OBVIOUS
    <3>1. /\ OnGrid(u.close)
          /\ "null_price" \notin u.faults /\ "non_positive_price" \notin u.faults
          /\ "ohlc_inconsistent" \notin u.faults
      BY <2>1, UsableIsFile
    <3>2. u.faults \in SUBSET Faults
      BY <2>1 DEF IsKept, Rows
    <3> QED
      BY <3>1, <3>2 DEF Faults
  <2> HIDE DEF K
  <2>3. IsKept(K) /\ Lists(base, Filled(K))
    BY <2>1 DEF K
  <2>4. \A x \in Filled(K) : OnGrid(x.close) /\ x.faults \subseteq {"negative_volume"}
    <3>1. \A x \in Filled(K) : OnGrid(x.close)
      BY <1>0, <2>2, <2>3, FilledOnGrid
    <3>2. ASSUME NEW x \in Filled(K), x \notin K PROVE x.faults = {}
      <4>1. PICK i \in Gaps(K) : x \in Gap(K, i)
        BY <1>0, <2>3, <3>2, FilledOnce
      <4>2. PICK k : Fills(x, InOrder(K)[i], InOrder(K)[i + 1], k)
        BY <1>0, <2>3, <4>1, GapRows
      <4> QED
        BY <4>2 DEF Fills
    <3> QED
      BY <2>2, <3>1, <3>2
  <2>5. DOMAIN base = 1 .. Len(base) /\ \A i \in 1 .. Len(base) : base[i] \in Filled(K)
    <3>1. OneByStamp(Filled(K))
      BY <1>0, <2>3, FilledOnce
    <3> QED
      BY <2>3, <3>1, ListOrder DEF Lists
  <2> QED
    BY <2>3, <2>4, <2>5 DEF CleanedIsFrame, Lists, Sorted
<1> QED
  BY <1>1, FramesAreAlwaysCleaned, PTL

\* Unless the policy is keep_first, the row of a stamp in an accepted frame is
\* no earlier in the file than any good row of that stamp: a malformed
\* correction never displaces the good row before it.
THEOREM LastGoodRowAlwaysWins ==
  ASSUME DuplicatePolicy # "keep_first"
  PROVE  Spec => LastGoodRowWins
<1>0. CleaningAssumption
  BY IngestAssumption
<1>1. IngestInv /\ [Next]_vars =>
        [source' = source /\ outcome' = "ingested" =>
           \A row \in source : OnGrid(row.close) /\ row.faults \subseteq {"negative_volume"} =>
             \E i \in DOMAIN base' :
               /\ base'[i].close = row.close
               /\ row.line <= base'[i].line]_vars
  <2> SUFFICES ASSUME IngestInv, Next, source' = source, outcome' = "ingested"
               PROVE  \A row \in source :
                        OnGrid(row.close) /\ row.faults \subseteq {"negative_volume"} =>
                          \E i \in DOMAIN base' :
                            base'[i].close = row.close /\ row.line <= base'[i].line
    OBVIOUS
  <2>1. RunIngest
    <3> SUFFICES ASSUME NEW close \in Closes, NEW faults \in {{}} \cup {{f} : f \in Faults},
                        AddRow(close, faults)
                 PROVE  FALSE
      BY DEF Next
    <3>1. Cardinality(source) \in Nat
      BY FS_CardinalityType DEF IngestInv, IsFile
    <3> DEFINE new == [line |-> Cardinality(source) + 1, close |-> close, faults |-> faults]
    <3>2. new \in source /\ new.line = Cardinality(source) + 1
      BY DEF AddRow
    <3>3. new.line <= Cardinality(source)
      BY <3>2 DEF IngestInv
    <3> HIDE DEF new
    <3> QED
      BY <3>1, <3>2, <3>3
  <2>2. base' = CleanBars(source)
    BY <2>1, RunsClean
  <2>3. IsFile(source)
    BY DEF IngestInv
  <2> DEFINE K == Deduplicated(Usable(source))
  <2>4. IsKept(K) /\ Lists(base', Filled(K))
    BY <1>0, <2>2, <2>3, CleanLists
  <2>5. ASSUME NEW row \in source, OnGrid(row.close), row.faults \subseteq {"negative_volume"}
        PROVE  \E i \in DOMAIN base' : base'[i].close = row.close /\ row.line <= base'[i].line
    <3>1. /\ Repaired(row).line = row.line /\ Repaired(row).close = row.close
          /\ Repaired(row).faults \subseteq {"negative_volume"}
      BY <2>3, <2>5, RepairedRow DEF IsFile
    <3>2. Repaired(row) \in Usable(source)
      BY <2>5, <3>1 DEF Usable
    <3>3. PICK last \in K : last.close = Repaired(row).close /\ Repaired(row).line <= last.line
      BY <1>0, <2>3, <3>2, UsableIsFile, DeduplicatedOnce
    <3>4. PICK i \in 1 .. Len(base') : base'[i] = last
      BY <2>4, <3>3 DEF Lists, Filled
    <3>5. DOMAIN base' = 1 .. Len(base')
      BY <2>4 DEF Lists
    <3> QED
      BY <3>1, <3>3, <3>4, <3>5
  <2> QED
    BY <2>5
<1> QED
  BY <1>1, FramesAreAlwaysCleaned, PTL DEF Spec, LastGoodRowWins

\* Bars are made up only for outages of at most max_forward_fill_bars, and then
\* for all of the outage: no shorter hole is left in a frame, and no longer run
\* of made-up bars is in it.
THEOREM OnlyShortGapsAreEverFilled ==
  ASSUME DropOffGrid
  PROVE  Spec => []OnlyShortGapsAreFilled
<1>0. CleaningAssumption
  BY IngestAssumption
<1>1. IngestInv => OnlyShortGapsAreFilled
  <2>1. CASE base = <<>>
    BY <2>1 DEF OnlyShortGapsAreFilled
  <2> SUFFICES ASSUME IngestInv, base # <<>> PROVE OnlyShortGapsAreFilled
    BY <2>1
  <2>2. PICK rows \in SUBSET source :
          LET K == Deduplicated(Usable(rows))
          IN  /\ IsKept(K) /\ Lists(base, Filled(K))
              /\ \A u \in K : u \in Usable(rows)
              /\ IsFile(rows)
    BY FrameIs
  <2> DEFINE K == Deduplicated(Usable(rows))
  <2>3. \A u \in K : OnGrid(u.close)
    BY <2>2, UsableIsFile
  <2> HIDE DEF K
  <2>4. IsKept(K) /\ Lists(base, Filled(K)) /\ OneByStamp(Filled(K)) /\ Len(base) \in Nat
    BY <1>0, <2>2, FilledOnce DEF K, Lists
  <2> SUFFICES ASSUME NEW i \in 1 .. Len(base) - 1
               PROVE  LET hole == (base[i + 1].close - base[i].close) \div Duration - 1
                      IN  /\ hole = 0 \/ hole > MaxForwardFillBars
                          /\ \A j \in i + 1 .. Len(base) :
                               (\A k \in i + 1 .. j : base[k].line = 0) => j - i <= MaxForwardFillBars
    BY DEF OnlyShortGapsAreFilled
  <2> DEFINE x == base[i]
             y == base[i + 1]
  <2>5. i \in 1 .. Len(base) /\ i + 1 \in 1 .. Len(base) /\ i \in Int /\ i < i + 1
    BY <2>4
  <2>6. x \in Filled(K) /\ y \in Filled(K) /\ x.close < y.close
    BY <2>4, <2>5, ListOrder
  <2>7. \A z \in Filled(K) : x.close < z.close => y.close <= z.close
    <3> SUFFICES ASSUME NEW z \in Filled(K), x.close < z.close PROVE y.close <= z.close
      OBVIOUS
    <3>1. PICK q \in 1 .. Len(base) : base[q] = z
      BY <2>4 DEF Lists
    <3>2. i < q /\ q \in Int
      BY <2>4, <2>5, <3>1, ListOrder
    <3>3. i + 1 <= q
      BY <2>5, <3>2
    <3> QED
      BY <2>4, <2>5, <3>1, <3>3, ListOrder
  <2>8. MissingBetween(x, y) = 0 \/ MissingBetween(x, y) > MaxForwardFillBars
    BY <1>0, <2>3, <2>4, <2>6, <2>7, HolesAreLong
  <2>9. \A j \in i + 1 .. Len(base) :
          (\A k \in i + 1 .. j : base[k].line = 0) => j - i <= MaxForwardFillBars
    BY <1>0, <2>4, RunsAreShort
  <2> QED
    BY <2>8, <2>9 DEF MissingBetween
<1> QED
  BY <1>1, FramesAreAlwaysCleaned, PTL
-----------------------------------------------------------------------------
\* What the runs of a gap report add up to.
BarsIn(runs) == MapThenSumSet(LAMBDA run : run.bars, runs)

\* One round of the fold behind the sum.
AddUp(sum, runs) ==
  [part \in SUBSET runs |->
     IF part = {} THEN 0
     ELSE LET run == CHOOSE run \in part : TRUE IN run.bars + sum[part \ {run}]]

LEMMA BarsInIsFold ==
  ASSUME NEW runs
  PROVE  BarsIn(runs) = (CHOOSE sum : sum = AddUp(sum, runs))[runs]
BY DEF BarsIn, MapThenSumSet, MapThenFoldSet, AddUp

\* A measure of sets of runs that grows by the bars of each run is their sum.
LEMMA SumOfBars ==
  ASSUME NEW runs, IsFiniteSet(runs), NEW f, f[{}] = 0,
         \A part \in SUBSET runs : \A run \in part : f[part] = run.bars + f[part \ {run}]
  PROVE  BarsIn(runs) = f[runs]
<1> DEFINE g == [part \in SUBSET runs |-> f[part]]
           sum == CHOOSE s : s = AddUp(s, runs)
<1>1. g = AddUp(g, runs)
  <2>1. \A part \in SUBSET runs :
          f[part] = IF part = {} THEN 0
                    ELSE LET run == CHOOSE run \in part : TRUE IN run.bars + g[part \ {run}]
    <3> TAKE part \in SUBSET runs
    <3>1. CASE part = {}
      BY <3>1
    <3>2. CASE part # {}
      <4> DEFINE run == CHOOSE run \in part : TRUE
      <4>1. run \in part
        BY <3>2
      <4>2. part \ {run} \in SUBSET runs
        OBVIOUS
      <4>3. f[part] = run.bars + f[part \ {run}]
        BY <4>1
      <4> HIDE DEF run
      <4>4. g[part \ {run}] = f[part \ {run}]
        BY <4>2
      <4>5. f[part] = run.bars + g[part \ {run}]
        BY <4>3, <4>4
      <4> QED
        BY <3>2, <4>5 DEF run
    <3> QED
      BY <3>1, <3>2
  <2> QED
    BY <2>1 DEF AddUp
<1>2. sum = AddUp(sum, runs)
  BY <1>1
<1> HIDE DEF sum
<1> DEFINE bad == {n \in Nat : \E part \in SUBSET runs : Cardinality(part) = n /\ sum[part] # f[part]}
<1>3. bad = {}
  <2> SUFFICES ASSUME bad # {} PROVE FALSE
    OBVIOUS
  <2>1. PICK n \in bad : \A m \in bad : n <= m
    <3>1. bad \subseteq Nat
      OBVIOUS
    <3> QED
      BY <3>1, LeastNumber
  <2>2. PICK part \in SUBSET runs : Cardinality(part) = n /\ sum[part] # f[part]
    OBVIOUS
  <2>3. sum[part] = IF part = {} THEN 0
                    ELSE LET run == CHOOSE run \in part : TRUE IN run.bars + sum[part \ {run}]
    BY <1>2 DEF AddUp
  <2>4. part # {}
    BY <2>2, <2>3
  <2> DEFINE run == CHOOSE run \in part : TRUE
             rest == part \ {run}
  <2>5. run \in part /\ sum[part] = run.bars + sum[rest] /\ f[part] = run.bars + f[rest]
    BY <2>3, <2>4
  <2> HIDE DEF run
  <2>6. Cardinality(rest) = n - 1 /\ Cardinality(rest) \in Nat /\ n \in Nat /\ rest \in SUBSET runs
    <3>1. IsFiniteSet(part) /\ IsFiniteSet(rest)
      BY FS_Subset
    <3>2. Cardinality(rest) = Cardinality(part) - 1
      BY <2>5, <3>1, FS_RemoveElement
    <3>3. Cardinality(rest) \in Nat
      BY <3>1, FS_CardinalityType
    <3> QED
      BY <2>2, <3>2, <3>3
  <2>7. n - 1 \notin bad
    BY <2>1, <2>6
  <2>8. sum[rest] = f[rest]
    BY <2>6, <2>7
  <2> QED
    BY <2>2, <2>5, <2>8
<1>4. Cardinality(runs) \in Nat
  BY FS_CardinalityType
<1>5. sum[runs] = f[runs]
  BY <1>3, <1>4
<1> QED
  BY <1>5, BarsInIsFold DEF sum

\* The bars a run of a gap report stands for.
BarsOf(run) == {run.start + k * Duration : k \in 0 .. run.bars - 1}

\* Going on in equal steps, one leaves a finite set before its members are used up.
LEMMA StepsLeave ==
  ASSUME NEW S, IsFiniteSet(S), S \subseteq Int, NEW o \in S, NEW d \in Int, d # 0
  PROVE  \E k \in 1 .. Cardinality(S) : o + k * d \notin S
<1> SUFFICES ASSUME \A k \in 1 .. Cardinality(S) : o + k * d \in S PROVE FALSE
  OBVIOUS
<1> DEFINE n == Cardinality(S)
           f == [k \in 0 .. n |-> o + k * d]
<1>1. n \in Nat
  BY FS_CardinalityType
<1>2. \A k \in 0 .. n : k * d \in Int
  BY <1>1
<1>3. \A k, l \in 0 .. n : o + k * d = o + l * d => k = l
  <2> SUFFICES ASSUME NEW k \in 0 .. n, NEW l \in 0 .. n, o + k * d = o + l * d PROVE k = l
    OBVIOUS
  <2>1. k \in Int /\ l \in Int /\ k * d = l * d
    BY <1>1, <1>2
  <2>2. (k - l) * d = 0
    BY <2>1
  <2> QED
    BY <2>1, <2>2
<1>4. \A k \in 0 .. n : o + k * d \in S
  <2> TAKE k \in 0 .. n
  <2>1. CASE k = 0
    BY <2>1
  <2>2. CASE k # 0
    BY <1>1, <2>2
  <2> QED
    BY <2>1, <2>2
<1> HIDE DEF n
<1>5. f \in Injection(0 .. n, S)
  BY <1>3, <1>4 DEF Injection, IsInjective
<1> HIDE DEF f
<1>6. Cardinality(0 .. n) <= n
  BY <1>5, FS_Injection DEF n
<1>7. Cardinality(0 .. n) = n + 1
  BY <1>1, FS_Interval
<1> QED
  BY <1>1, <1>6, <1>7

\* Run is a run: its bars are missing, and the one after them is not.
LEMMA RunIs ==
  ASSUME CleaningAssumption, NEW missing, IsFiniteSet(missing), missing \subseteq Int,
         NEW o \in missing
  PROVE  /\ Run(missing, o).start = o /\ Run(missing, o).bars \in Nat \ {0}
         /\ \A k \in 0 .. Run(missing, o).bars - 1 : o + k * Duration \in missing
         /\ o + Run(missing, o).bars * Duration \notin missing
<1> DEFINE ends == {k \in 1 .. Cardinality(missing) : o + k * Duration \notin missing}
           n == Min(ends)
<1>1. Duration \in Nat \ {0} /\ Cardinality(missing) \in Nat
  BY Duration1, FS_CardinalityType
<1>2. ends # {}
  <2>1. Duration \in Int /\ Duration # 0
    BY <1>1
  <2> QED
    BY <2>1, StepsLeave
<1>3. ends \subseteq Nat
  BY <1>1
<1>4. n \in ends /\ \A k \in ends : n <= k
  <2> HIDE DEF ends
  <2>1. \E k \in ends : \A l \in ends : k <= l
    BY <1>2, <1>3, LeastNumber
  <2> QED
    BY <2>1 DEF Min
<1>5. Run(missing, o) = [start |-> o, bars |-> n]
  BY DEF Run
<1> HIDE DEF n
<1>6. n \in 1 .. Cardinality(missing) /\ o + n * Duration \notin missing
  BY <1>4
<1>7. \A k \in 0 .. n - 1 : o + k * Duration \in missing
  <2> TAKE k \in 0 .. n - 1
  <2>1. CASE k = 0
    BY <1>1, <2>1
  <2>2. CASE k # 0
    <3>1. k \in 1 .. Cardinality(missing) /\ ~(n <= k)
      BY <1>1, <1>6, <2>2
    <3> QED
      BY <1>4, <3>1
  <2> QED
    BY <2>1, <2>2
<1>8. n \in Nat \ {0}
  BY <1>1, <1>6
<1> QED
  BY <1>5, <1>6, <1>7, <1>8

\* Runs are runs that no missing bar continues at either end.
LEMMA RunsAre ==
  ASSUME CleaningAssumption, NEW missing, IsFiniteSet(missing), missing \subseteq Int
  PROVE  /\ IsFiniteSet(Runs(missing))
         /\ \A run \in Runs(missing) :
              /\ run.start \in missing /\ run.start \in Int /\ run.start - Duration \notin missing
              /\ run = Run(missing, run.start) /\ run.bars \in Nat \ {0}
              /\ \A k \in 0 .. run.bars - 1 : run.start + k * Duration \in missing
              /\ run.start + run.bars * Duration \notin missing
<1> DEFINE starts == {p \in missing : p - Duration \notin missing}
           f == [o \in starts |-> Run(missing, o)]
<1>1. Runs(missing) = {f[o] : o \in starts}
  BY DEF Runs
<1>2. IsFiniteSet(starts)
  BY FS_Subset
<1>3. f \in Surjection(starts, Runs(missing))
  BY <1>1 DEF Surjection
<1>4. \A o \in starts : o \in missing /\ o \in Int /\ o - Duration \notin missing
  OBVIOUS
<1>5. \A run \in Runs(missing) : \E o \in starts : run = Run(missing, o)
  BY DEF Runs
<1> HIDE DEF f, starts
<1>6. IsFiniteSet(Runs(missing))
  BY <1>2, <1>3, FS_Surjection
<1>7. ASSUME NEW run \in Runs(missing)
      PROVE  /\ run.start \in missing /\ run.start \in Int /\ run.start - Duration \notin missing
             /\ run = Run(missing, run.start) /\ run.bars \in Nat \ {0}
             /\ \A k \in 0 .. run.bars - 1 : run.start + k * Duration \in missing
             /\ run.start + run.bars * Duration \notin missing
  <2>1. PICK o \in starts : run = Run(missing, o)
    BY <1>5
  <2>2. o \in missing /\ o \in Int /\ o - Duration \notin missing
    BY <1>4
  <2>3. run.start = o
    BY <2>1, <2>2, RunIs
  <2> QED
    BY <2>1, <2>2, <2>3, RunIs
<1> QED
  BY <1>6, <1>7

\* No bar is in two runs.
LEMMA RunsAreApart ==
  ASSUME CleaningAssumption, NEW missing, IsFiniteSet(missing), missing \subseteq Int,
         NEW r \in Runs(missing), NEW s \in Runs(missing), r.start < s.start
  PROVE  BarsOf(r) \cap BarsOf(s) = {}
<1> SUFFICES ASSUME NEW k \in 0 .. r.bars - 1, NEW l \in 0 .. s.bars - 1,
                    r.start + k * Duration = s.start + l * Duration
             PROVE  FALSE
  BY DEF BarsOf
<1>1. /\ r.start \in Int /\ s.start \in Int /\ r.bars \in Nat /\ s.bars \in Nat
      /\ s.start - Duration \notin missing
      /\ \A j \in 0 .. r.bars - 1 : r.start + j * Duration \in missing
  BY RunsAre
<1>2. k \in Int /\ l \in Int /\ Duration \in Nat \ {0}
  BY <1>1, Duration1
<1>3. k * Duration \in Int /\ l * Duration \in Int /\ (k - l - 1) * Duration = k * Duration - l * Duration - Duration
  BY <1>2
<1>4. l < k
  <2>1. k <= l => k * Duration <= l * Duration
    BY <1>2, Multiples
  <2> QED
    BY <1>1, <1>2, <1>3, <2>1
<1>5. k - l - 1 \in 0 .. r.bars - 1
  BY <1>1, <1>2, <1>4
<1>6. r.start + (k - l - 1) * Duration = s.start - Duration
  BY <1>1, <1>2, <1>3
<1> QED
  BY <1>1, <1>5, <1>6

\* Every missing bar is in a run: the one that starts where, going back, one
\* first comes to a bar that is not missing.
LEMMA RunsReachAll ==
  ASSUME CleaningAssumption, NEW missing, IsFiniteSet(missing), missing \subseteq Int,
         NEW o \in missing
  PROVE  \E run \in Runs(missing) : o \in BarsOf(run)
<1> DEFINE stops == {j \in Nat : o - (j + 1) * Duration \notin missing}
<1>1. Duration \in Nat \ {0} /\ o \in Int
  BY Duration1
<1>2. stops # {}
  <2> DEFINE d == 0 - Duration
  <2>1. d \in Int /\ d # 0 /\ \A k \in Int : k * d = 0 - k * Duration
    BY <1>1
  <2> HIDE DEF d
  <2>2. PICK k \in 1 .. Cardinality(missing) : o + k * d \notin missing
    BY <2>1, StepsLeave
  <2>3. k \in Int /\ k >= 1
    BY FS_CardinalityType
  <2>4. k * Duration \in Int /\ o + k * d = o - k * Duration
    BY <1>1, <2>1, <2>3
  <2>5. k - 1 \in Nat /\ (k - 1) + 1 = k
    BY <2>3
  <2> QED
    BY <2>2, <2>4, <2>5
<1>3. PICK j \in stops : \A i \in stops : j <= i
  <2>1. stops \subseteq Nat
    OBVIOUS
  <2> HIDE DEF stops
  <2> QED
    BY <1>2, <2>1, LeastNumber
<1>4. j \in Nat /\ o - (j + 1) * Duration \notin missing
  OBVIOUS
<1>5. \A i \in 0 .. j : o - i * Duration \in missing
  <2> TAKE i \in 0 .. j
  <2>1. CASE i = 0
    BY <1>1, <2>1
  <2>2. CASE i # 0
    <3>1. i - 1 \in Nat /\ ~(j <= i - 1) /\ (i - 1) + 1 = i
      BY <1>4, <2>2
    <3> QED
      BY <1>3, <3>1
  <2> QED
    BY <2>1, <2>2
<1> DEFINE start == o - j * Duration
           run == Run(missing, start)
<1>6. start \in missing /\ start - Duration \notin missing
  <2>1. j * Duration \in Int /\ (j + 1) * Duration = j * Duration + Duration
    BY <1>1, <1>4
  <2> QED
    BY <1>1, <1>4, <1>5, <2>1
<1>7. run \in Runs(missing)
  BY <1>6 DEF Runs
<1>8. run.start = start /\ run.bars \in Nat /\ start + run.bars * Duration \notin missing
  BY <1>6, RunIs
<1> HIDE DEF run
<1> DEFINE n == run.bars
<1>9. j \in 0 .. n - 1
  <2> SUFFICES ASSUME n <= j PROVE FALSE
    BY <1>4, <1>8
  <2>1. n \in Nat /\ start + n * Duration \notin missing
    BY <1>8
  <2> HIDE DEF n
  <2>2. j * Duration \in Int /\ n * Duration \in Int
        /\ (j - n) * Duration = j * Duration - n * Duration
    BY <1>1, <1>4, <2>1
  <2>3. j - n \in 0 .. j /\ start + n * Duration = o - (j - n) * Duration
    BY <1>1, <1>4, <2>1, <2>2
  <2> QED
    BY <1>5, <2>1, <2>3
<1>10. o = run.start + j * Duration
  BY <1>1, <1>4, <1>8
<1> QED
  BY <1>7, <1>9, <1>10 DEF BarsOf

\* A run stands for as many bars as it says.
LEMMA BarsAreCounted ==
  ASSUME CleaningAssumption, NEW run, run.start \in Int, run.bars \in Nat
  PROVE  IsFiniteSet(BarsOf(run)) /\ Cardinality(BarsOf(run)) = run.bars
<1> DEFINE n == run.bars
           f == [k \in 0 .. n - 1 |-> run.start + k * Duration]
<1>1. n \in Nat
  OBVIOUS
<1>2. \A k, l \in 0 .. n - 1 : f[k] = f[l] => k = l
  <2> SUFFICES ASSUME NEW k \in 0 .. n - 1, NEW l \in 0 .. n - 1,
                      run.start + k * Duration = run.start + l * Duration
               PROVE  k = l
    OBVIOUS
  <2>1. /\ k \in Int /\ l \in Int /\ Duration \in Nat \ {0}
        /\ k * Duration \in Int /\ l * Duration \in Int
    BY <1>1, Duration1
  <2>2. k < l => k * Duration + Duration <= l * Duration
    BY <2>1, Multiples
  <2>3. l < k => l * Duration + Duration <= k * Duration
    BY <2>1, Multiples
  <2> QED
    BY <2>1, <2>2, <2>3
<1>3. BarsOf(run) = {f[k] : k \in 0 .. n - 1}
  BY DEF BarsOf
<1> HIDE DEF f, n
<1>4. f \in [0 .. n - 1 -> BarsOf(run)]
  BY <1>3 DEF f
<1>5. f \in Surjection(0 .. n - 1, BarsOf(run))
  BY <1>3, <1>4 DEF Surjection
<1>6. f \in Injection(0 .. n - 1, BarsOf(run))
  BY <1>2, <1>4 DEF Injection, IsInjective
<1>7. IsFiniteSet(0 .. n - 1) /\ Cardinality(0 .. n - 1) = n
  <2>1. 0 \in Int /\ n - 1 \in Int /\ (IF 0 > n - 1 THEN 0 ELSE (n - 1) - 0 + 1) = n
    BY <1>1
  <2> QED
    BY <2>1, FS_Interval
<1> QED
  BY <1>5, <1>6, <1>7, FS_Surjection DEF n

\* The runs add up to the missing bars.
LEMMA RunsAddUp ==
  ASSUME CleaningAssumption, NEW missing, IsFiniteSet(missing), missing \subseteq Int
  PROVE  BarsIn(Runs(missing)) = Cardinality(missing)
<1> DEFINE runs == Runs(missing)
           Bars(part) == UNION {BarsOf(run) : run \in part}
           f == [part \in SUBSET runs |-> Cardinality(Bars(part))]
<1>0. \A run \in runs : /\ run = Run(missing, run.start) /\ run.start \in Int /\ run.bars \in Nat
                         /\ \A k \in 0 .. run.bars - 1 : run.start + k * Duration \in missing
  BY RunsAre
<1>1. \A part \in SUBSET runs : Bars(part) \in SUBSET missing /\ IsFiniteSet(Bars(part))
  <2>1. \A run \in runs : BarsOf(run) \subseteq missing
    BY <1>0 DEF BarsOf
  <2> HIDE DEF runs
  <2>2. \A part \in SUBSET runs : Bars(part) \in SUBSET missing
    BY <2>1
  <2> QED
    BY <2>2, FS_Subset
<1>2. \A r, s \in runs : r # s => BarsOf(r) \cap BarsOf(s) = {}
  <2> SUFFICES ASSUME NEW r \in runs, NEW s \in runs, r # s
               PROVE  BarsOf(r) \cap BarsOf(s) = {}
    OBVIOUS
  <2>1. r.start \in Int /\ s.start \in Int /\ r.start # s.start
    <3>1. r = Run(missing, r.start) /\ s = Run(missing, s.start)
      BY <1>0
    <3> QED
      BY <1>0, <3>1
  <2>2. CASE r.start < s.start
    BY <2>2, RunsAreApart
  <2>3. CASE s.start < r.start
    BY <2>3, RunsAreApart
  <2> QED
    BY <2>1, <2>2, <2>3
<1>3. f[{}] = 0
  BY FS_EmptySet
<1>4. ASSUME NEW part \in SUBSET runs, NEW run \in part
      PROVE  f[part] = run.bars + f[part \ {run}]
  <2> DEFINE rest == part \ {run}
  <2>1. IsFiniteSet(BarsOf(run)) /\ Cardinality(BarsOf(run)) = run.bars /\ run.bars \in Nat
    <3>1. run.start \in Int /\ run.bars \in Nat
      BY RunsAre
    <3> QED
      BY <3>1, BarsAreCounted
  <2>2. rest \in SUBSET runs /\ IsFiniteSet(Bars(rest)) /\ Cardinality(Bars(rest)) \in Nat
    BY <1>1, FS_CardinalityType
  <2>3. Bars(part) = BarsOf(run) \cup Bars(rest)
    OBVIOUS
  <2>4. BarsOf(run) \cap Bars(rest) = {}
    <3>1. \A r \in rest : BarsOf(run) \cap BarsOf(r) = {}
      BY <1>2
    <3> HIDE DEF rest
    <3> QED
      BY <3>1
  <2> HIDE DEF rest, Bars
  <2>5. Cardinality(Bars(part)) = run.bars + Cardinality(Bars(rest)) - 0
    <3>1. Cardinality({}) = 0
      BY FS_EmptySet
    <3>2. Cardinality(BarsOf(run) \cup Bars(rest))
            = Cardinality(BarsOf(run)) + Cardinality(Bars(rest)) - Cardinality(BarsOf(run) \cap Bars(rest))
      BY <2>1, <2>2, FS_Union
    <3> QED
      BY <2>1, <2>3, <2>4, <3>1, <3>2
  <2>6. f[part] = Cardinality(Bars(part)) /\ f[rest] = Cardinality(Bars(rest))
    BY <2>2
  <2> QED
    BY <2>1, <2>2, <2>5, <2>6 DEF rest
<1>5. Bars(runs) = missing
  <2>1. \A o \in missing : \E run \in runs : o \in BarsOf(run)
    BY RunsReachAll
  <2>2. runs \in SUBSET runs
    OBVIOUS
  <2> HIDE DEF runs
  <2> QED
    BY <1>1, <2>1, <2>2
<1>6. IsFiniteSet(runs)
  BY RunsAre
<1>7. f[runs] = Cardinality(Bars(runs))
  OBVIOUS
<1> HIDE DEF f, Bars
<1>8. BarsIn(runs) = f[runs]
  BY <1>3, <1>4, <1>6, SumOfBars
<1> QED
  BY <1>5, <1>7, <1>8

-----------------------------------------------------------------------------
\* The first and the last open of a frame bound the expected ones.
LEMMA ExpectedIsFinite ==
  ASSUME NEW frame, Len(frame) \in Nat, DOMAIN frame = 1 .. Len(frame), frame # <<>>,
         \A i \in 1 .. Len(frame) : frame[i].close \in Int, CleaningAssumption
  PROVE  IsFiniteSet(Expected(frame)) /\ Expected(frame) \subseteq Int
<1> DEFINE n == Len(frame)
           opens == OpensOf(frame)
           up == [i \in 1 .. n |-> frame[i].close - Duration]
           down == [i \in 1 .. n |-> 0 - up[i]]
<1>1. n \in Nat /\ DOMAIN frame = 1 .. n /\ Duration \in Nat \ {0}
  BY Duration1
<1>2. opens = {up[i] : i \in 1 .. n}
  BY <1>1 DEF OpensOf
<1>3. \A i \in 1 .. n : up[i] \in Int /\ down[i] \in Int /\ down[i] = 0 - up[i]
  BY <1>1
<1>4. CASE n = 0
  <2>1. frame = <<>>
    BY <1>1, <1>4
  <2> QED
    BY <2>1
<1>5. CASE n # 0
  <2>0. 1 \in Int /\ n \in Int /\ 1 <= n
    BY <1>1, <1>5
  <2> HIDE DEF up, down, n, opens
  <2>1. PICK i \in 1 .. n : \A j \in 1 .. n : up[i] <= up[j]
    BY <1>3, <2>0, LowestExists
  <2>2. PICK k \in 1 .. n : \A j \in 1 .. n : down[k] <= down[j]
    BY <1>3, <2>0, LowestExists
  <2>3. \A j \in 1 .. n : up[k] >= up[j]
    BY <1>3, <2>2
  <2>4. Min(opens) \in opens
    <3>1. \E x \in opens : \A y \in opens : x <= y
      BY <1>2, <2>1
    <3> QED
      BY <3>1 DEF Min
  <2>5. Max(opens) \in opens
    <3>1. \E x \in opens : \A y \in opens : x >= y
      BY <1>2, <2>3
    <3> QED
      BY <3>1 DEF Max
  <2>6. Min(opens) \in Int /\ Max(opens) \in Int
    BY <1>2, <1>3, <2>4, <2>5
  <2>7. Expected(frame) \in SUBSET (Min(opens) .. Max(opens))
    BY DEF Expected, opens
  <2>8. IsFiniteSet(Min(opens) .. Max(opens))
    BY <2>6, FS_Interval
  <2> QED
    BY <2>6, <2>7, <2>8, FS_Subset
<1> QED
  BY <1>4, <1>5

\* The report is that of the frame.
ReportInv == report = GapReport(base)

\* The gap report accounts for every expected bar once, whatever the frame and
\* whenever the market is open: a bar is present or missing, a missing bar is in
\* one run, a run never reaches over a bar that is there, and missing bars next to
\* each other are in the same.
THEOREM GapReportAlwaysAddsUp == Spec => []GapReportAddsUp
<1>0. CleaningAssumption
  BY IngestAssumption
<1>1. Init => ReportInv
  BY DEF Init, ReportInv, NoReport
<1>2. ReportInv /\ [Next]_vars => ReportInv'
  <2> SUFFICES ASSUME ReportInv, [Next]_vars PROVE ReportInv'
    OBVIOUS
  <2>1. ASSUME NEW close \in Closes, NEW faults \in {{}} \cup {{f} : f \in Faults},
               AddRow(close, faults)
        PROVE  ReportInv'
    BY <2>1 DEF AddRow, ReportInv
  <2>2. CASE RunIngest
    BY <2>2 DEF RunIngest, ReportInv
  <2>3. CASE UNCHANGED vars
    BY <2>3 DEF vars, ReportInv
  <2> QED
    BY <2>1, <2>2, <2>3 DEF Next
<1>3. IngestInv /\ ReportInv => GapReportAddsUp
  <2> SUFFICES ASSUME IngestInv, report = GapReport(base) PROVE GapReportAddsUp
    BY DEF ReportInv
  <2>1. /\ \A missing : missing = {} => IsFiniteSet(missing) /\ Cardinality(missing) = 0
        /\ Runs({}) = {}
    BY FS_EmptySet DEF Runs
  <2>2. CASE base = <<>>
    <3>1. report = [expected |-> 0, present |-> 0, missing |-> {}, runs |-> {}]
      BY <2>2 DEF GapReport
    <3>2. BarsIn({}) = 0
      BY <1>0, <2>1, RunsAddUp
    <3> QED
      BY <2>1, <3>1, <3>2 DEF GapReportAddsUp, BarsIn
  <2>3. CASE base # <<>>
    <3> DEFINE all == Expected(base)
               here == OpensOf(base)
               missing == all \ here
    <3>1. report = [expected |-> Cardinality(all), present |-> Cardinality(here \cap all),
                    missing |-> missing, runs |-> Runs(missing)]
      BY <2>3 DEF GapReport
    <3>2. IsFiniteSet(all) /\ all \subseteq Int
      <4>1. PICK rows \in SUBSET source :
              LET K == Deduplicated(Usable(rows))
              IN  /\ IsKept(K) /\ Lists(base, Filled(K))
                  /\ \A u \in K : u \in Usable(rows)
                  /\ IsFile(rows)
        BY <2>3, FrameIs
      <4> DEFINE K == Deduplicated(Usable(rows))
      <4> HIDE DEF K
      <4>2. IsKept(K) /\ Lists(base, Filled(K))
        BY <4>1 DEF K
      <4>3. OneByStamp(Filled(K))
        BY <1>0, <4>2, FilledOnce
      <4>4. \A i \in 1 .. Len(base) : base[i] \in Filled(K)
        BY <4>2, <4>3, ListOrder
      <4>5. Len(base) \in Nat /\ DOMAIN base = 1 .. Len(base)
            /\ \A i \in 1 .. Len(base) : base[i].close \in Int
        BY <4>2, <4>3, <4>4 DEF Lists, OneByStamp
      <4> QED
        BY <1>0, <2>3, <4>5, ExpectedIsFinite
    <3> HIDE DEF all, here
    <3>3. missing \in SUBSET all /\ IsFiniteSet(missing) /\ missing \subseteq Int
      BY <3>2, FS_Difference
    <3>4. Cardinality(missing) = Cardinality(all) - Cardinality(all \cap here)
      BY <3>2, FS_Difference
    <3>5. here \cap all = all \cap here /\ IsFiniteSet(all \cap here)
      BY <3>2, FS_Intersection
    <3>6. /\ Cardinality(all) \in Nat /\ Cardinality(all \cap here) \in Nat
      BY <3>2, <3>5, FS_CardinalityType
    <3> HIDE DEF missing
    <3>10. /\ report.expected = Cardinality(all) /\ report.present = Cardinality(here \cap all)
           /\ report.missing = missing /\ report.runs = Runs(missing)
      BY <3>1
    <3>7. report.present + Cardinality(report.missing) = report.expected
      <4>1. Cardinality(here \cap all) = Cardinality(all \cap here)
        BY <3>5
      <4>2. report.present = Cardinality(all \cap here)
        BY <3>10, <4>1
      <4>3. Cardinality(report.missing) = Cardinality(all) - Cardinality(all \cap here)
        BY <3>4, <3>10
      <4>4. report.expected = Cardinality(all)
        BY <3>10
      <4> QED
        BY <3>6, <4>2, <4>3, <4>4
    <3>8. BarsIn(report.runs) = Cardinality(report.missing)
      BY <1>0, <3>3, <3>10, RunsAddUp
    <3>9. \A run \in report.runs :
            /\ \A k \in 0 .. run.bars - 1 : run.start + k * Duration \in report.missing
            /\ run.start - Duration \notin report.missing
            /\ run.start + run.bars * Duration \notin report.missing
      <4>1. \A run \in Runs(missing) :
              /\ \A k \in 0 .. run.bars - 1 : run.start + k * Duration \in missing
              /\ run.start - Duration \notin missing
              /\ run.start + run.bars * Duration \notin missing
        BY <1>0, <3>3, RunsAre
      <4> QED
        BY <3>10, <4>1
    <3> QED
      BY <3>7, <3>8, <3>9 DEF GapReportAddsUp, BarsIn
  <2> QED
    BY <2>2, <2>3
<1> QED
  BY <1>1, <1>2, <1>3, FramesAreAlwaysCleaned, PTL DEF Spec

-----------------------------------------------------------------------------
\* What a command does of this: the configuration is settled before the file is
\* loaded, and one file is loaded.
LoaderSpec ==
  /\ loaded = None
  /\ [][\/ Load /\ UNCHANGED config
        \/ loaded = None /\ UNCHANGED <<header, loaded>>]_<<config, header, loaded>>

\* The columns that were taken are those the loader takes of the file.
LoaderInv == loaded # None => header \in Headers /\ loaded = Loaded(config, header)

\* A list of some elements and another list of the same length, of the same elements.
Enumerates(f, h, n) ==
  f \in [1 .. n -> ToSet(h)] /\ \A i \in 1 .. n : \E j \in 1 .. n : h[i] = f[j]

\* A list without repetitions and the list made of its elements have the same elements.
LEMMA ListOfElements ==
  ASSUME NEW S, NEW n \in Nat, NEW h \in [1 .. n -> S], IsInjective(h)
  PROVE  Enumerates(SetToSeq(ToSet(h)), h, n)
<1> DEFINE T == ToSet(h)
<1>1. h \in [1 .. n -> T] /\ \A t \in T : \E i \in 1 .. n : h[i] = t
  BY DEF ToSet
<1> HIDE DEF T
<1>2. h \in Bijection(1 .. n, T)
  BY <1>1 DEF Bijection, Injection, Surjection
<1>3. Cardinality(T) = n
  BY <1>2, FS_CountingElements DEF ExistsBijection
<1>4. IsFiniteSet(1 .. n) /\ Cardinality(1 .. n) = n
  <2>1. 1 \in Int /\ n \in Int /\ n - 1 + 1 = n
    OBVIOUS
  <2>2. IsFiniteSet(1 .. n) /\ Cardinality(1 .. n) = IF 1 > n THEN 0 ELSE n - 1 + 1
    BY <2>1, FS_Interval
  <2> QED
    BY <2>1, <2>2
<1>5. IsFiniteSet(T)
  BY <1>2, <1>4, FS_Bijection DEF ExistsBijection
<1> DEFINE f == SetToSeq(T)
<1>6. f \in [1 .. n -> T] /\ IsInjective(f)
  <2>1. h \in [1 .. n -> T] /\ IsInjective(h)
    BY <1>1
  <2>2. f = CHOOSE g \in [1 .. n -> T] : IsInjective(g)
    BY <1>3 DEF SetToSeq
  <2> HIDE DEF f
  <2> QED
    BY <2>1, <2>2
<1> HIDE DEF f
<1>7. f \in Surjection(1 .. n, T)
  <2>1. f \in Injection(1 .. n, T)
    BY <1>6 DEF Injection
  <2> QED
    BY <2>1, <1>3, <1>4, <1>5, FS_Injection
<1>8. \A i \in 1 .. n : \E j \in 1 .. n : h[i] = f[j]
  <2> TAKE i \in 1 .. n
  <2>1. h[i] \in T
    BY <1>1
  <2> QED
    BY <2>1, <1>7 DEF Surjection
<1>9. f \in [1 .. n -> T] /\ \A i \in 1 .. n : \E j \in 1 .. n : h[i] = f[j]
  BY <1>6, <1>8
<1> QED
  BY <1>9 DEF f, T, Enumerates

\* When no two columns claim one field, the loader finds the same in both.
LEMMA SameSource ==
  ASSUME NEW c, NEW n \in Nat, NEW h, DOMAIN h = 1 .. n, NEW f, DOMAIN f = 1 .. n,
         \A i, j \in 1 .. n : Field(c, h[i]) = Field(c, h[j]) => i = j,
         \A i \in 1 .. n : \E j \in 1 .. n : h[i] = f[j],
         \A i \in 1 .. n : \E j \in 1 .. n : f[i] = h[j]
  PROVE  \A field : /\ Claimants(c, h, field) = {} <=> Claimants(c, f, field) = {}
                    /\ Claimants(c, h, field) # {} => Source(c, h, field) = Source(c, f, field)
<1> TAKE field
<1>1. Claimants(c, h, field) = {} <=> Claimants(c, f, field) = {}
  <2>1. \A i \in 1 .. n : Field(c, h[i]) = field => \E j \in 1 .. n : Field(c, f[j]) = field
    <3> TAKE i \in 1 .. n
    <3>1. PICK j \in 1 .. n : h[i] = f[j]
      OBVIOUS
    <3> QED
      BY <3>1
  <2>2. \A i \in 1 .. n : Field(c, f[i]) = field => \E j \in 1 .. n : Field(c, h[j]) = field
    <3> TAKE i \in 1 .. n
    <3>1. PICK j \in 1 .. n : f[i] = h[j]
      OBVIOUS
    <3> QED
      BY <3>1
  <2>3. Claimants(c, h, field) = {} <=> ~\E i \in 1 .. n : Field(c, h[i]) = field
    BY ZenonT(40) DEF Claimants
  <2>4. Claimants(c, f, field) = {} <=> ~\E i \in 1 .. n : Field(c, f[i]) = field
    BY ZenonT(40) DEF Claimants
  <2> QED
    BY <2>1, <2>2, <2>3, <2>4
<1>2. ASSUME Claimants(c, h, field) # {}
      PROVE  Source(c, h, field) = Source(c, f, field)
  <2>1. PICK i \in 1 .. n : Field(c, h[i]) = field
    BY <1>2 DEF Claimants
  <2>2. \A j \in 1 .. n : Field(c, h[j]) = field => j = i
    BY <2>1
  <2>3. Claimants(c, h, field) = {i}
    <3>1. Claimants(c, h, field) = {j \in 1 .. n : Field(c, h[j]) = field}
      BY DEF Claimants
    <3>2. i \in Claimants(c, h, field) /\ \A j \in Claimants(c, h, field) : j = i
      BY <2>1, <2>2, <3>1
    <3> QED
      BY <3>2
  <2>4. \A j \in 1 .. n : Field(c, f[j]) = field => f[j] = h[i]
    <3> TAKE j \in 1 .. n
    <3>1. PICK k \in 1 .. n : f[j] = h[k]
      OBVIOUS
    <3> QED
      BY <3>1, <2>2
  <2>5. Claimants(c, f, field) \subseteq 1 .. n /\ \A j \in Claimants(c, f, field) : f[j] = h[i]
    BY <2>4 DEF Claimants
  <2>6. Source(c, h, field) = h[i]
    <3>1. Source(c, h, field) = h[CHOOSE k \in {i} : \A l \in {i} : k <= l]
      BY <2>3 DEF Source
    <3>2. i \in {i} /\ \A l \in {i} : i <= l
      OBVIOUS
    <3>3. (CHOOSE k \in {i} : \A l \in {i} : k <= l) = i
      BY <3>2
    <3> QED
      BY <3>1, <3>3
  <2>7. \E j \in Claimants(c, f, field) : \A k \in Claimants(c, f, field) : j <= k
    <3>1. Claimants(c, f, field) # {}
      BY <1>1, <1>2
    <3>2. 1 .. n \subseteq Nat
      OBVIOUS
    <3>3. Claimants(c, f, field) \subseteq Nat
      BY <2>5, <3>2
    <3> QED
      BY <3>1, <3>3, LeastNumber
  <2>8. Source(c, f, field) = h[i]
    <3> DEFINE least == CHOOSE j \in Claimants(c, f, field) : \A k \in Claimants(c, f, field) : j <= k
    <3>1. least \in Claimants(c, f, field)
      BY <2>7
    <3>2. Source(c, f, field) = f[least]
      BY DEF Source
    <3> HIDE DEF least
    <3> QED
      BY <3>1, <3>2, <2>5
  <2> QED
    BY <2>6, <2>8
<1> QED
  BY <1>1, <1>2

\* And takes the same.
LEMMA SameLoaded ==
  ASSUME NEW c, NEW h, NEW f,
         \A field : /\ Claimants(c, h, field) = {} <=> Claimants(c, f, field) = {}
                    /\ Claimants(c, h, field) # {} => Source(c, h, field) = Source(c, f, field)
  PROVE  Loaded(c, h) = Loaded(c, f)
<1>1. Timestamp(c, h) = Timestamp(c, f)
  <2> DEFINE found(x) == {k \in DOMAIN Candidates : Claimants(c, x, Candidates[k]) # {}}
  <2>1. found(h) = found(f)
    OBVIOUS
  <2>2. \A x : Timestamp(c, x) = IF found(x) = {} THEN None
                              ELSE Candidates[CHOOSE k \in found(x) : \A l \in found(x) : k <= l]
    BY DEF Timestamp
  <2> HIDE DEF found
  <2> QED
    BY <2>1, <2>2
<1>2. Stamp(c, h) = Stamp(c, f)
  <2> DEFINE fields == IF c.split THEN <<"date", "time">> ELSE <<Timestamp(c, h)>>
             given(x) == \A k \in DOMAIN fields : fields[k] # None /\ Claimants(c, x, fields[k]) # {}
             taken(x) == [k \in DOMAIN fields |-> Source(c, x, fields[k])]
  <2>1. Stamp(c, h) = (IF given(h) THEN taken(h) ELSE <<>>) /\ Stamp(c, f) = (IF given(f) THEN taken(f) ELSE <<>>)
    BY <1>1 DEF Stamp
  <2> HIDE DEF fields
  <2>2. given(h) <=> given(f)
    OBVIOUS
  <2>3. given(h) => taken(h) = taken(f)
    OBVIOUS
  <2> HIDE DEF given, taken
  <2> QED
    BY <2>1, <2>2, <2>3
<1>3. Claimants(c, h, "close") # {} => Source(c, h, "close") = Source(c, f, "close")
  OBVIOUS
<1>4. (IF Claimants(c, h, "volume") = {} THEN None ELSE Source(c, h, "volume"))
        = (IF Claimants(c, f, "volume") = {} THEN None ELSE Source(c, f, "volume"))
  OBVIOUS
<1>5. Claimants(c, h, "close") = {} <=> Claimants(c, f, "close") = {}
  OBVIOUS
<1> QED
  BY <1>2, <1>3, <1>4, <1>5 DEF Loaded

\* So no order of the columns is special.
LEMMA AnyOrderLoadsTheSame ==
  ASSUME MaxColumns \in Nat, NEW c, NEW h \in Headers,
         \A i, j \in DOMAIN h : Field(c, h[i]) = Field(c, h[j]) => i = j
  PROVE  Loaded(c, h) = Loaded(c, SetToSeq(ToSet(h)))
<1>1. PICK n \in 1 .. MaxColumns : h \in [1 .. n -> Columns]
  BY DEF Headers
<1>2. IsInjective(h) /\ n \in Nat /\ DOMAIN h = 1 .. n
  BY <1>1 DEF Headers
<1>3. Enumerates(SetToSeq(ToSet(h)), h, n)
  BY <1>1, <1>2, ListOfElements
<1> DEFINE f == SetToSeq(ToSet(h))
<1> HIDE DEF f
<1>4. f \in [1 .. n -> ToSet(h)] /\ \A i \in 1 .. n : \E j \in 1 .. n : h[i] = f[j]
  BY <1>3 DEF f, Enumerates
<1>5. DOMAIN f = 1 .. n /\ \A i \in 1 .. n : \E j \in 1 .. n : f[i] = h[j]
  <2>1. DOMAIN f = 1 .. n /\ \A i \in 1 .. n : f[i] \in ToSet(h)
    BY <1>4
  <2>2. \A x \in ToSet(h) : \E j \in 1 .. n : x = h[j]
    BY <1>2 DEF ToSet
  <2> QED
    BY <2>1, <2>2
<1>6. \A i, j \in 1 .. n : Field(c, h[i]) = Field(c, h[j]) => i = j
  BY <1>2
<1>7. \A field : /\ Claimants(c, h, field) = {} <=> Claimants(c, f, field) = {}
                 /\ Claimants(c, h, field) # {} => Source(c, h, field) = Source(c, f, field)
  BY <1>2, <1>4, <1>5, <1>6, SameSource
<1>8. Loaded(c, h) = Loaded(c, f)
  BY <1>7, SameLoaded
<1> QED
  BY <1>8 DEF f

\* An export of the same columns in another order is loaded as the same bars, unless
\* two columns claim one field: for every configuration of the loader and every file.
THEOREM OrderIsAlwaysImmaterial ==
  ASSUME MaxColumns \in Nat
  PROVE  LoaderSpec => []OrderIsImmaterial
<1> DEFINE Init0 == loaded = None
           Step == \/ Load /\ UNCHANGED config
                   \/ loaded = None /\ UNCHANGED <<header, loaded>>
<1>1. loaded = None => LoaderInv
  BY DEF LoaderInv
<1>2. LoaderInv /\ [Step]_<<config, header, loaded>> => LoaderInv'
  <2> SUFFICES ASSUME LoaderInv, [Step]_<<config, header, loaded>> PROVE LoaderInv'
    OBVIOUS
  <2>1. CASE Load /\ UNCHANGED config
    <3>1. Headers' = Headers
      BY DEF Headers
    <3>2. header' \in Headers /\ loaded' = Loaded(config, header') /\ config' = config
      BY <2>1 DEF Load
    <3> QED
      BY <3>1, <3>2 DEF LoaderInv
  <2>2. CASE loaded = None /\ UNCHANGED <<header, loaded>>
    BY <2>2 DEF LoaderInv
  <2>3. CASE UNCHANGED <<config, header, loaded>>
    BY <2>3 DEF LoaderInv, Headers
  <2> QED
    BY <2>1, <2>2, <2>3
<1>3. LoaderInv => OrderIsImmaterial
  BY AnyOrderLoadsTheSame DEF LoaderInv, OrderIsImmaterial
<1> QED
  BY <1>1, <1>2, <1>3, PTL DEF LoaderSpec
=============================================================================
