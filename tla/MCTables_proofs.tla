--------------------------- MODULE MCTables_proofs ---------------------------
(***************************************************************************)
(* Proofs about OpenTracking and NewsletterList, for any number of hits,   *)
(* hashes, hours, newsletters, moments and page sizes.                     *)
(***************************************************************************)
EXTENDS MCTables, FiniteSetTheorems, SequenceTheorems, WellFoundedInduction, TLAPS

-----------------------------------------------------------------------------
(***************************************************************************)
(* Only a hit with a hash gets as far as the insert.                       *)
(***************************************************************************)
HashInv == \A q \in Hits : hit[q].pc = "insert" => hit[q].hash # NoHash

OpensInv == OpensTypeOK /\ HashInv

(***************************************************************************)
(* Rows are written at moments that have come; a client that holds a token *)
(* has every row it will not see again at or before the cursor, and every  *)
(* row it is still owed after it.                                          *)
(***************************************************************************)
TimesInv ==
  \A i \in Ids : /\ table[i].at <= moment
                 /\ table[i].status # "new" => table[i].at >= 1

WalkInv ==
  /\ walk.pc = "idle" => returned = <<>>
  /\ walk.pc = "more" =>
       /\ walk.next \in (1 .. moment) \X Ids
       /\ \A i \in ToSet(returned) : ~ Before(Key(i), walk.next)
       /\ settled \subseteq ToSet(returned) \cup Left

ListInv == ListTypeOK /\ TimesInv /\ WalkInv /\ EveryRowOnce

-----------------------------------------------------------------------------
(***************************************************************************)
(* HitTo moves one hit on and leaves its newsletter and its hash alone.    *)
(***************************************************************************)
LEMMA HitMoves ==
  ASSUME OpensTypeOK, NEW q \in Hits,
         NEW l \in {"idle", "lookup", "get", "insert", "recorded",
                    "rejected", "refused", "error"},
         HitTo(q, l)
  PROVE  /\ DOMAIN hit' = Hits
         /\ hit' \in [Hits -> [pc : {"idle", "lookup", "get", "insert", "recorded",
                                     "rejected", "refused", "error"},
                               project : Paths, hash : Hashes \cup {NoHash}]]
         /\ hit'[q].pc = l
         /\ hit'[q].hash = hit[q].hash
         /\ \A p \in Hits \ {q} : hit'[p] = hit[p]
  BY DEF OpensTypeOK, HitTo

(***************************************************************************)
(* No hit is under way at first.                                           *)
(***************************************************************************)
LEMMA OpensStart == OpensInit => OpensInv
<1> SUFFICES ASSUME OpensInit  PROVE OpensInv
  OBVIOUS
<1>1. OpensTypeOK
  BY OpenTrackingAssumption DEF OpensInit, OpensTypeOK
<1>2. HashInv
  BY DEF OpensInit, HashInv
<1>3. QED
  BY <1>1, <1>2 DEF OpensInv

(***************************************************************************)
(* A hit that moves and inserts nothing leaves the invariant as it is, if  *)
(* it carries a hash where it has to.                                      *)
(***************************************************************************)
LEMMA OtherHitsKeep ==
  ASSUME OpensInv, NEW q \in Hits, UNCHANGED <<shape, exists, now, opens>>,
         hit' \in [Hits -> [pc : {"idle", "lookup", "get", "insert", "recorded",
                                  "rejected", "refused", "error"},
                            project : Paths, hash : Hashes \cup {NoHash}]],
         \A p \in Hits \ {q} : hit'[p] = hit[p],
         hit'[q].pc = "insert" => hit'[q].hash # NoHash
  PROVE  OpensInv'
<1>1. OpensTypeOK'
  BY DEF OpensInv, OpensTypeOK
<1>2. HashInv'
  BY DEF OpensInv, HashInv
<1>3. QED
  BY <1>1, <1>2 DEF OpensInv

(***************************************************************************)
(* RecordOpen, postgres.go: an insert that is kept is of a recipient, not  *)
(* of a hit without one.                                                   *)
(***************************************************************************)
LEMMA RecordOpenKeeps ==
  ASSUME OpensInv, NEW q \in Hits, RecordOpen(q)
  PROVE  OpensInv'
<1>1. OpensTypeOK /\ hit[q].pc = "insert"
  BY DEF OpensInv, RecordOpen
<1>2. hit[q].hash \in Hashes
  BY <1>1 DEF OpensInv, OpensTypeOK, HashInv
<1>3. CASE exists /\ opens' = opens \cup {<<hit[q].hash, now>>} /\ HitTo(q, "recorded")
  <2>1. UNCHANGED <<shape, exists, now>>
    BY DEF RecordOpen
  <2>2. /\ hit' \in [Hits -> [pc : {"idle", "lookup", "get", "insert", "recorded",
                                    "rejected", "refused", "error"},
                              project : Paths, hash : Hashes \cup {NoHash}]]
        /\ hit'[q].pc = "recorded"
        /\ hit'[q].hash = hit[q].hash
        /\ \A p \in Hits \ {q} : hit'[p] = hit[p]
    BY <1>1, <1>3, HitMoves
  <2>3. opens' = opens \cup {<<hit[q].hash, now>>}
    BY <1>3
  <2>4. OpensTypeOK'
    BY <1>1, <1>2, <2>1, <2>2, <2>3 DEF OpensTypeOK
  <2>5. HashInv'
    BY <1>1, <2>2 DEF OpensInv, HashInv
  <2>6. QED
    BY <2>4, <2>5 DEF OpensInv
<1>4. CASE HitTo(q, "refused") /\ UNCHANGED <<shape, exists, now, opens>>
  BY <1>1, <1>4, HitMoves, OtherHitsKeep
<1>5. CASE HitTo(q, "error") /\ UNCHANGED <<shape, exists, now, opens>>
  BY <1>1, <1>5, HitMoves, OtherHitsKeep
<1>6. QED
  BY <1>3, <1>4, <1>5 DEF RecordOpen

(***************************************************************************)
(* Every step of the pixel, of the clock and of a delete.                  *)
(***************************************************************************)
LEMMA OpensKeep == OpensInv /\ [OpensNext]_opensVars => OpensInv'
<1> SUFFICES ASSUME OpensInv, [OpensNext]_opensVars  PROVE OpensInv'
  OBVIOUS
<1>1. OpensTypeOK
  BY DEF OpensInv
<1>2. CASE Tick
  <2>1. OpensTypeOK'
    BY <1>1, <1>2, OpenTrackingAssumption DEF Tick, OpensTypeOK
  <2>2. HashInv'
    BY <1>2 DEF Tick, OpensInv, HashInv
  <2>3. QED
    BY <2>1, <2>2 DEF OpensInv
<1>3. CASE DeleteNewsletter
  <2>1. OpensTypeOK'
    BY <1>1, <1>3 DEF DeleteNewsletter, OpensTypeOK
  <2>2. HashInv'
    BY <1>3 DEF DeleteNewsletter, OpensInv, HashInv
  <2>3. QED
    BY <2>1, <2>2 DEF OpensInv
<1>4. ASSUME NEW q \in Hits, NEW p \in Paths, NEW h \in Hashes \cup {NoHash},
             OpenPixel(q, p, h)
      PROVE  OpensInv'
  <2>1. /\ hit' \in [Hits -> [pc : {"idle", "lookup", "get", "insert", "recorded",
                                    "rejected", "refused", "error"},
                              project : Paths, hash : Hashes \cup {NoHash}]]
        /\ hit[q].pc = "idle"
        /\ hit'[q].pc = "lookup"
        /\ \A r \in Hits \ {q} : hit'[r] = hit[r]
    BY <1>1, <1>4 DEF OpenPixel, OpensTypeOK
  <2>2. QED
    BY <1>4, <2>1, OtherHitsKeep DEF OpenPixel
<1>5. ASSUME NEW q \in Hits, PixelLookup(q)  PROVE OpensInv'
  <2>1. CASE HitTo(q, "rejected")
    BY <1>1, <1>5, <2>1, HitMoves, OtherHitsKeep DEF PixelLookup
  <2>2. CASE HitTo(q, "get")
    BY <1>1, <1>5, <2>2, HitMoves, OtherHitsKeep DEF PixelLookup
  <2>3. QED
    BY <1>5, <2>1, <2>2 DEF PixelLookup
<1>6. ASSUME NEW q \in Hits, RecordOpenWithHash(q)  PROVE OpensInv'
  <2>1. CASE HitTo(q, "insert") /\ hit[q].hash # NoHash
    BY <1>1, <1>6, <2>1, HitMoves, OtherHitsKeep DEF RecordOpenWithHash
  <2>2. CASE HitTo(q, "rejected")
    BY <1>1, <1>6, <2>2, HitMoves, OtherHitsKeep DEF RecordOpenWithHash
  <2>3. CASE HitTo(q, "error")
    BY <1>1, <1>6, <2>3, HitMoves, OtherHitsKeep DEF RecordOpenWithHash
  <2>4. QED
    BY <1>6, <2>1, <2>2, <2>3 DEF RecordOpenWithHash
<1>7. CASE UNCHANGED opensVars
  BY <1>7 DEF opensVars, OpensInv, OpensTypeOK, HashInv
<1>8. QED
  BY <1>2, <1>3, <1>4, <1>5, <1>6, <1>7, RecordOpenKeeps DEF OpensNext, Pixel

(***************************************************************************)
(* In every behaviour of the pixel.                                        *)
(***************************************************************************)
LEMMA OpensInvariance == OpensSpec => []OpensInv
  BY OpensStart, OpensKeep, PTL DEF OpensSpec

-----------------------------------------------------------------------------
(***************************************************************************)
(* ORDER BY updated_at DESC, id DESC of ListAll: keys are times and ids,   *)
(* compared one after the other.                                           *)
(***************************************************************************)
Keys == Nat \X Nat

(***************************************************************************)
(* The order is strict and total.                                          *)
(***************************************************************************)
LEMMA BeforeIsStrict ==
  ASSUME NEW a \in Keys, NEW b \in Keys
  PROVE  /\ ~ Before(a, a)
         /\ ~ (Before(a, b) /\ Before(b, a))
         /\ a = b \/ Before(a, b) \/ Before(b, a)
<1>1. PICK a1 \in Nat, a2 \in Nat : a = <<a1, a2>>
  BY DEF Keys
<1>2. PICK b1 \in Nat, b2 \in Nat : b = <<b1, b2>>
  BY DEF Keys
<1>3. QED
  BY <1>1, <1>2 DEF Before

(***************************************************************************)
(* It is transitive, in the three forms the proofs use.                    *)
(***************************************************************************)
LEMMA BeforeIsTransitive ==
  ASSUME NEW a \in Keys, NEW b \in Keys, NEW c \in Keys
  PROVE  /\ Before(a, b) /\ Before(b, c) => Before(a, c)
         /\ ~ Before(b, a) /\ Before(b, c) => Before(a, c)
         /\ ~ Before(a, b) /\ ~ Before(b, c) => ~ Before(a, c)
<1>1. PICK a1 \in Nat, a2 \in Nat : a = <<a1, a2>>
  BY DEF Keys
<1>2. PICK b1 \in Nat, b2 \in Nat : b = <<b1, b2>>
  BY DEF Keys
<1>3. PICK c1 \in Nat, c2 \in Nat : c = <<c1, c2>>
  BY DEF Keys
<1>4. QED
  BY <1>1, <1>2, <1>3 DEF Before

(***************************************************************************)
(* Different rows have different keys.                                     *)
(***************************************************************************)
LEMMA KeyType ==
  ASSUME ListTypeOK, NEW i \in Ids
  PROVE  /\ Key(i) \in Keys
         /\ \A j \in Ids : Key(i) = Key(j) => i = j
<1>1. \A j \in Ids : table[j].at \in Nat /\ j \in Nat
  <2>1. 0 .. Moments \subseteq Nat
    BY NewsletterListAssumption
  <2>2. \A j \in Ids : table[j].at \in 0 .. Moments
    BY DEF ListTypeOK
  <2>3. QED
    BY <2>1, <2>2, NewsletterListAssumption
<1>2. Key(i)[2] = i /\ Key(i) \in Keys
  BY <1>1 DEF Key, Keys
<1>3. \A j \in Ids : Key(j)[2] = j
  BY DEF Key
<1>4. QED
  BY <1>2, <1>3

(***************************************************************************)
(* A set of subsets of a finite set has a smallest member: what one step   *)
(* of removing an element refutes holds of every finite set.               *)
(***************************************************************************)
LEMMA SmallestSubset ==
  ASSUME NEW S, IsFiniteSet(S), NEW K \in SUBSET (SUBSET S), K # {}
  PROVE  \E T \in K : \A x \in T : T \ {x} \notin K
<1>1. IsWellFoundedOn(StrictSubsetOrdering(S), SUBSET S)
  BY FS_FiniteSubsetsOfFinite, FS_StrictSubsetOrderingWellFounded
<1>2. PICK T \in K : \A U \in K : <<U, T>> \notin StrictSubsetOrdering(S)
  BY <1>1, WFMin
<1>3. ASSUME NEW x \in T, T \ {x} \in K  PROVE FALSE
  BY <1>2, <1>3 DEF StrictSubsetOrdering
<1>4. QED
  BY <1>3

(***************************************************************************)
(* Row i comes after every other row of T.                                 *)
(***************************************************************************)
LastOf(T, i) == i \in T /\ \A j \in T \ {i} : Before(Key(i), Key(j))

(***************************************************************************)
(* Every set of rows has one that comes after the others.                  *)
(***************************************************************************)
LEMMA SomeRowIsLast ==
  ASSUME ListTypeOK, NEW S \in SUBSET Ids, S # {}
  PROVE  \E i : LastOf(S, i)
<1> DEFINE K == {T \in SUBSET S : T # {} /\ ~ \E i : LastOf(T, i)}
<1> SUFFICES ASSUME K # {}  PROVE FALSE
  OBVIOUS
<1>1. IsFiniteSet(S)
  BY FS_Subset, NewsletterListAssumption
<1>2. PICK T \in K : \A x \in T : T \ {x} \notin K
  BY <1>1, SmallestSubset
<1>3. PICK x \in T : x \in Ids
  BY <1>2
<1>4. CASE T \ {x} = {}
  <2>1. LastOf(T, x)
    BY <1>3, <1>4 DEF LastOf
  <2>2. QED
    BY <1>2, <2>1
<1>5. CASE T \ {x} # {}
  <2>1. PICK i : LastOf(T \ {x}, i)
    BY <1>2, <1>3, <1>5
  <2>2. i \in Ids /\ i # x
    BY <1>2, <2>1 DEF LastOf
  <2>3. Key(i) \in Keys /\ Key(x) \in Keys /\ Key(i) # Key(x)
    BY <1>3, <2>2, KeyType
  <2>4. CASE Before(Key(i), Key(x))
    <3>1. LastOf(T, i)
      BY <1>3, <2>1, <2>4 DEF LastOf
    <3>2. QED
      BY <1>2, <3>1
  <2>5. CASE Before(Key(x), Key(i))
    <3>1. ASSUME NEW j \in T \ {x}  PROVE Before(Key(x), Key(j))
      <4>1. j \in Ids /\ Key(j) \in Keys
        BY <1>2, KeyType
      <4>2. j = i \/ Before(Key(i), Key(j))
        BY <2>1 DEF LastOf
      <4>3. QED
        BY <2>3, <2>5, <4>1, <4>2, BeforeIsTransitive
    <3>2. LastOf(T, x)
      BY <1>3, <3>1 DEF LastOf
    <3>3. QED
      BY <1>2, <3>2
  <2>6. QED
    BY <2>3, <2>4, <2>5, BeforeIsStrict
<1>6. QED
  BY <1>4, <1>5

(***************************************************************************)
(* The rows T in the order of the list.                                    *)
(***************************************************************************)
Sorts(rows, T) ==
  /\ rows \in [1 .. Cardinality(T) -> T]
  /\ \A a, b \in 1 .. Cardinality(T) : a < b => Before(Key(rows[b]), Key(rows[a]))

(***************************************************************************)
(* Every set of rows can be put in order, the last row behind the ordered  *)
(* rest: Ordered chooses among what exists.                                *)
(***************************************************************************)
LEMMA RowsCanBeSorted ==
  ASSUME ListTypeOK, NEW S \in SUBSET Ids
  PROVE  \E rows : Sorts(rows, S)
<1> DEFINE K == {T \in SUBSET S : ~ \E rows : Sorts(rows, T)}
<1> SUFFICES ASSUME K # {}  PROVE FALSE
  OBVIOUS
<1>1. IsFiniteSet(S)
  BY FS_Subset, NewsletterListAssumption
<1>2. PICK T \in K : \A x \in T : T \ {x} \notin K
  BY <1>1, SmallestSubset
<1>3. IsFiniteSet(T) /\ T \in SUBSET Ids /\ Cardinality(T) \in Nat
  BY <1>1, <1>2, FS_Subset, FS_CardinalityType
<1>4. CASE T = {}
  <2>1. Cardinality(T) = 0
    BY <1>4, FS_EmptySet
  <2>2. Sorts([a \in 1 .. 0 |-> a], T)
    BY <2>1 DEF Sorts
  <2>3. QED
    BY <1>2, <2>2
<1>5. CASE T # {}
  <2>1. PICK i : LastOf(T, i)
    BY <1>3, <1>5, SomeRowIsLast
  <2>2. i \in T /\ T \ {i} \in SUBSET S
    BY <1>2, <2>1 DEF LastOf
  <2>3. PICK rest : Sorts(rest, T \ {i})
    BY <1>2, <2>2
  <2> DEFINE n == Cardinality(T)
             rows == [a \in 1 .. n |-> IF a = n THEN i ELSE rest[a]]
  <2>4. n \in Nat /\ Cardinality(T \ {i}) = n - 1
    BY <1>3, <2>2, FS_RemoveElement
  <2>5. \A a \in 1 .. n : a # n => a \in 1 .. n - 1 /\ rest[a] \in T \ {i}
    <3>1. rest \in [1 .. n - 1 -> T \ {i}]
      BY <2>3, <2>4 DEF Sorts
    <3> HIDE DEF n
    <3>2. QED
      BY <2>4, <3>1
  <2>6. rows \in [1 .. n -> T]
    BY <2>2, <2>5
  <2>7. ASSUME NEW a \in 1 .. n, NEW b \in 1 .. n, a < b
        PROVE  Before(Key(rows[b]), Key(rows[a]))
    <3>1. a # n /\ rows[a] = rest[a] /\ rest[a] \in T \ {i} /\ a \in 1 .. n - 1
      BY <2>4, <2>5, <2>7
    <3>2. CASE b = n
      BY <2>1, <3>1, <3>2 DEF LastOf
    <3>3. CASE b # n
      BY <2>3, <2>4, <2>5, <2>7, <3>1, <3>3 DEF Sorts
    <3>4. QED
      BY <3>2, <3>3
  <2> HIDE DEF rows
  <2>8. Sorts(rows, T)
    BY <2>6, <2>7 DEF Sorts
  <2>9. QED
    BY <1>2, <2>8
<1>6. QED
  BY <1>4, <1>5

(***************************************************************************)
(* What Ordered returns: every row once, none before one behind it.        *)
(***************************************************************************)
LEMMA OrderedSorts ==
  ASSUME ListTypeOK, NEW S \in SUBSET Ids
  PROVE  /\ Cardinality(S) \in Nat
         /\ Ordered(S) \in Seq(Ids)
         /\ Len(Ordered(S)) = Cardinality(S)
         /\ Ordered(S) \in [1 .. Cardinality(S) -> S]
         /\ \A a, b \in 1 .. Cardinality(S) :
              a < b => Before(Key(Ordered(S)[b]), Key(Ordered(S)[a]))
         /\ \A a, b \in 1 .. Cardinality(S) :
              Ordered(S)[a] = Ordered(S)[b] => a = b
         /\ \A i \in S : \E a \in 1 .. Cardinality(S) : Ordered(S)[a] = i
<1> DEFINE n == Cardinality(S)
           rows == Ordered(S)
<1>1. IsFiniteSet(S) /\ n \in Nat
  BY FS_Subset, FS_CardinalityType, NewsletterListAssumption
<1>2. \E r \in [1 .. n -> S] :
        \A a, b \in DOMAIN r : a < b => Before(Key(r[b]), Key(r[a]))
  <2>1. PICK r : Sorts(r, S)
    BY RowsCanBeSorted
  <2>2. r \in [1 .. n -> S] /\ DOMAIN r = 1 .. n
    BY <2>1 DEF Sorts
  <2>3. QED
    BY <2>1, <2>2 DEF Sorts
<1>3. /\ rows \in [1 .. n -> S]
      /\ \A a, b \in DOMAIN rows : a < b => Before(Key(rows[b]), Key(rows[a]))
  BY <1>2 DEF Ordered
<1> HIDE DEF rows, n
<1>4. /\ DOMAIN rows = 1 .. n
      /\ \A a, b \in 1 .. n : a < b => Before(Key(rows[b]), Key(rows[a]))
  BY <1>3
<1>5. ASSUME NEW a \in 1 .. n, NEW b \in 1 .. n, rows[a] = rows[b]  PROVE a = b
  <2>1. rows[a] \in Ids
    BY <1>3
  <2>2. ~ Before(Key(rows[a]), Key(rows[a]))
    BY <2>1, KeyType, BeforeIsStrict
  <2>3. ~ a < b /\ ~ b < a
    BY <1>4, <1>5, <2>2
  <2>4. QED
    BY <1>1, <2>3
<1>6. rows \in Injection(1 .. n, S)
  BY <1>3, <1>4, <1>5 DEF Injection, IsInjective
<1>7. Cardinality(1 .. n) = n /\ IsFiniteSet(1 .. n)
  BY <1>1, FS_Interval
<1>8. rows \in Surjection(1 .. n, S)
  BY <1>1, <1>6, <1>7, FS_Injection DEF n
<1>9. \A i \in S : \E a \in 1 .. n : rows[a] = i
  BY <1>8 DEF Surjection
<1>10. rows \in Seq(Ids) /\ Len(rows) = n
  BY <1>1, <1>3
<1>11. QED
  BY <1>1, <1>3, <1>4, <1>5, <1>9, <1>10 DEF rows, n

-----------------------------------------------------------------------------
(***************************************************************************)
(* Whatever limit a caller asks for, a page has room for a row.            *)
(***************************************************************************)
LEMMA LimitIsPositive == \A l \in Int : EffectiveLimit(l) \in Nat \ {0}
  BY NewsletterListAssumption DEF EffectiveLimit

(***************************************************************************)
(* What a page of the rows S after a cursor is.                            *)
(***************************************************************************)
PageOf(page, S) ==
  /\ page.rows \in Seq(Ids)
  /\ IsInjective(page.rows)
  /\ ToSet(page.rows) \subseteq S
  /\ page.next = NoCursor => ToSet(page.rows) = S
  /\ page.next # NoCursor =>
       /\ page.next \in (1 .. moment) \X Ids
       /\ \E m \in S : page.next = Key(m)
       /\ \A i \in ToSet(page.rows) : ~ Before(Key(i), page.next)
       /\ \A i \in S \ ToSet(page.rows) : Before(Key(i), page.next)

(***************************************************************************)
(* A row that is listed was written, so no key is taken for no cursor.     *)
(***************************************************************************)
LEMMA RowKey ==
  ASSUME ListTypeOK, TimesInv, NEW status, NEW c, NEW i \in AfterCursor(status, c)
  PROVE  i \in Ids /\ Key(i) \in (1 .. moment) \X Ids /\ Key(i) # NoCursor
<1>1. i \in Ids /\ table[i].status # "new"
  BY DEF AfterCursor, Matches
<1>2. table[i].at \in 0 .. Moments /\ moment \in 1 .. Moments
  BY <1>1 DEF ListTypeOK
<1>3. table[i].at \in 1 .. moment
  BY <1>1, <1>2, NewsletterListAssumption DEF TimesInv
<1>4. Key(i) \in (1 .. moment) \X Ids
  BY <1>1, <1>3 DEF Key
<1>5. Key(i)[1] # NoCursor[1]
  BY <1>3 DEF Key, NoCursor
<1>6. QED
  BY <1>1, <1>4, <1>5

(***************************************************************************)
(* ListAll, postgres.go, with the row it reads beyond the limit: a page is *)
(* a part of what comes after the cursor, without a row twice; without a   *)
(* token there was no more, and a token is the key of a row of the page    *)
(* and parts the rows that were returned from those that were not.         *)
(***************************************************************************)
LEMMA OnePage ==
  ASSUME ListTypeOK, TimesInv, NEW status, NEW c, NEW l \in Int
  PROVE  PageOf(ListAll(status, c, l), AfterCursor(status, c))
<1> DEFINE S == AfterCursor(status, c)
           n == Cardinality(S)
           rows == Ordered(S)
           limit == EffectiveLimit(l)
           page == ListAll(status, c, l)
<1>1. S \in SUBSET Ids
  BY DEF AfterCursor
<1>2. /\ n \in Nat
      /\ rows \in Seq(Ids) /\ Len(rows) = n
      /\ rows \in [1 .. n -> S] /\ DOMAIN rows = 1 .. n
      /\ \A a, b \in 1 .. n : a < b => Before(Key(rows[b]), Key(rows[a]))
      /\ \A a, b \in 1 .. n : rows[a] = rows[b] => a = b
      /\ \A i \in S : \E a \in 1 .. n : rows[a] = i
  BY <1>1, OrderedSorts
<1>3. limit \in Nat \ {0}
  BY LimitIsPositive
<1>4. \A i \in S : /\ i \in Ids /\ Key(i) \in Keys
                   /\ Key(i) \in (1 .. moment) \X Ids /\ Key(i) # NoCursor
  BY <1>1, RowKey, KeyType
<1>5. CASE n > limit
  <2>1. page = [rows |-> SubSeq(rows, 1, limit), next |-> Key(rows[limit])]
    BY <1>2, <1>5 DEF ListAll
  <2> DEFINE firstRows == SubSeq(rows, 1, limit)
  <2> HIDE DEF rows, limit, n, S, page
  <2>2. \A a \in 1 .. limit : a \in 1 .. n /\ rows[a] \in S
    BY <1>2, <1>3, <1>5
  <2>3. /\ firstRows \in Seq(Ids) /\ Len(firstRows) = limit
        /\ \A a \in 1 .. limit : firstRows[a] = rows[a]
    <3>1. /\ SubSeq(rows, 1, limit) \in Seq(Ids)
          /\ Len(SubSeq(rows, 1, limit)) = IF 1 <= limit THEN limit - 1 + 1 ELSE 0
          /\ \A a \in 1 .. limit - 1 + 1 : SubSeq(rows, 1, limit)[a] = rows[1 + a - 1]
      BY <1>3, <1>4, <2>2, SubSeqProperties
    <3> HIDE DEF firstRows
    <3>2. QED
      BY <1>3, <3>1 DEF firstRows
  <2> HIDE DEF firstRows
  <2>4. DOMAIN firstRows = 1 .. limit
    BY <1>3, <2>3, LenProperties
  <2>5. IsInjective(firstRows) /\ ToSet(firstRows) = {rows[a] : a \in 1 .. limit}
    BY <1>2, <2>2, <2>3, <2>4 DEF IsInjective, ToSet
  <2>6. limit \in 1 .. n /\ rows[limit] \in S
    BY <1>3, <2>2
  <2>7. ASSUME NEW i \in ToSet(firstRows)  PROVE ~ Before(Key(i), Key(rows[limit]))
    <3>1. PICK a \in 1 .. limit : i = rows[a]
      BY <2>5
    <3>2. a = limit \/ Before(Key(rows[limit]), Key(rows[a]))
      BY <1>2, <1>3, <2>2, <2>6
    <3>3. Key(rows[limit]) \in Keys /\ Key(rows[a]) \in Keys
      BY <1>4, <2>2, <2>6
    <3>4. QED
      BY <3>1, <3>2, <3>3, BeforeIsStrict
  <2>8. ASSUME NEW i \in S \ ToSet(firstRows)  PROVE Before(Key(i), Key(rows[limit]))
    <3>1. PICK a \in 1 .. n : rows[a] = i
      BY <1>2
    <3>2. limit < a
      BY <1>2, <1>3, <2>5, <3>1
    <3>3. QED
      BY <1>2, <2>6, <3>1, <3>2
  <2>9. page.rows = firstRows /\ page.next = Key(rows[limit])
    BY <2>1 DEF firstRows
  <2>10. ToSet(firstRows) \subseteq S
    BY <2>2, <2>5
  <2>11. PageOf(page, S)
    BY <1>4, <2>3, <2>5, <2>6, <2>7, <2>8, <2>9, <2>10 DEF PageOf
  <2>12. QED
    BY <2>11 DEF page, S
<1>6. CASE ~ n > limit
  <2>1. page = [rows |-> rows, next |-> NoCursor]
    BY <1>2, <1>6 DEF ListAll
  <2> HIDE DEF rows, limit, n, S, page
  <2>2. IsInjective(rows) /\ ToSet(rows) = S
    BY <1>2 DEF IsInjective, ToSet
  <2>3. page.rows = rows /\ page.next = NoCursor
    BY <2>1
  <2>4. PageOf(page, S)
    BY <1>2, <2>2, <2>3 DEF PageOf
  <2>5. QED
    BY <2>4 DEF page, S
<1>7. QED
  BY <1>5, <1>6

(***************************************************************************)
(* Appending a page the client has nothing of yet gives it those rows, and *)
(* none twice.                                                             *)
(***************************************************************************)
LEMMA PagesAdd ==
  ASSUME NEW s \in Seq(Ids), NEW t \in Seq(Ids), IsInjective(s), IsInjective(t),
         ToSet(s) \cap ToSet(t) = {}
  PROVE  /\ s \o t \in Seq(Ids)
         /\ ToSet(s \o t) = ToSet(s) \cup ToSet(t)
         /\ IsInjective(s \o t)
<1> DEFINE u == s \o t
           m == Len(s)
           n == Len(t)
<1>1. /\ u \in Seq(Ids) /\ Len(u) = m + n
      /\ \A i \in 1 .. m + n : u[i] = IF i <= m THEN s[i] ELSE t[i - m]
  BY ConcatProperties
<1>2. /\ m \in Nat /\ DOMAIN s = 1 .. m
      /\ n \in Nat /\ DOMAIN t = 1 .. n
  BY LenProperties
<1>3. DOMAIN u = 1 .. m + n
  BY <1>1, LenProperties
<1> HIDE DEF u, m, n
<1>4. \A i \in 1 .. m : i \in 1 .. m + n /\ u[i] = s[i]
  BY <1>1, <1>2
<1>5. \A i \in 1 .. n : m + i \in 1 .. m + n /\ u[m + i] = t[i]
  <2>1. ASSUME NEW i \in 1 .. n
        PROVE  m + i \in 1 .. m + n /\ ~ m + i <= m /\ (m + i) - m = i
    BY <1>2
  <2>2. QED
    BY <1>1, <2>1
<1>6. ASSUME NEW i \in 1 .. m + n
      PROVE  i \in 1 .. m \/ \E k \in 1 .. n : i = m + k
  <2>1. CASE i <= m
    BY <1>2, <2>1
  <2>2. CASE ~ i <= m
    <3>1. i - m \in 1 .. n /\ i = m + (i - m)
      BY <1>2, <2>2
    <3>2. QED
      BY <3>1
  <2>3. QED
    BY <2>1, <2>2
<1>7. ToSet(u) = ToSet(s) \cup ToSet(t)
  <2>1. /\ ToSet(s) = {s[i] : i \in 1 .. m}
        /\ ToSet(t) = {t[i] : i \in 1 .. n}
        /\ ToSet(u) = {u[i] : i \in 1 .. m + n}
    BY <1>2, <1>3 DEF ToSet
  <2>2. ASSUME NEW x \in ToSet(u)  PROVE x \in ToSet(s) \cup ToSet(t)
    <3>1. PICK i \in 1 .. m + n : x = u[i]
      BY <2>1
    <3>2. CASE i \in 1 .. m
      BY <1>4, <2>1, <3>1, <3>2
    <3>3. CASE \E k \in 1 .. n : i = m + k
      BY <1>5, <2>1, <3>1, <3>3
    <3>4. QED
      BY <1>6, <3>2, <3>3
  <2>3. ToSet(s) \subseteq ToSet(u)
    BY <1>4, <2>1
  <2>4. ToSet(t) \subseteq ToSet(u)
    BY <1>5, <2>1
  <2>5. QED
    BY <2>2, <2>3, <2>4
<1>8. ASSUME NEW a \in 1 .. m + n, NEW b \in 1 .. m + n, u[a] = u[b]  PROVE a = b
  <2>1. CASE a \in 1 .. m /\ b \in 1 .. m
    BY <1>2, <1>4, <1>8, <2>1 DEF IsInjective
  <2>2. CASE a \in 1 .. m /\ \E k \in 1 .. n : b = m + k
    BY <1>2, <1>4, <1>5, <1>8, <2>2 DEF ToSet
  <2>3. CASE b \in 1 .. m /\ \E k \in 1 .. n : a = m + k
    BY <1>2, <1>4, <1>5, <1>8, <2>3 DEF ToSet
  <2>4. CASE (\E k \in 1 .. n : a = m + k) /\ (\E k \in 1 .. n : b = m + k)
    <3>1. PICK j \in 1 .. n : a = m + j
      BY <2>4
    <3>2. PICK k \in 1 .. n : b = m + k
      BY <2>4
    <3>3. t[j] = t[k]
      BY <1>5, <1>8, <3>1, <3>2
    <3>4. QED
      BY <1>2, <3>1, <3>2, <3>3 DEF IsInjective
  <2>5. QED
    BY <1>6, <2>1, <2>2, <2>3, <2>4
<1>9. IsInjective(u)
  BY <1>3, <1>8 DEF IsInjective
<1>10. QED
  BY <1>1, <1>7, <1>9 DEF u

-----------------------------------------------------------------------------
(***************************************************************************)
(* The numbers a page and a row are made of.                               *)
(***************************************************************************)
LEMMA Numbers ==
  /\ Moments \in Nat \ {0} /\ Ids \subseteq Nat
  /\ \A l \in Limits \cup {0} : l \in Int
  /\ 0 \in 0 .. Moments /\ 1 \in 1 .. Moments
  /\ 1 .. Moments \subseteq 0 .. Moments
  /\ \A m \in 1 .. Moments : m \in Nat \ {0} /\ 1 .. m \subseteq 0 .. Moments
<1>1. /\ Moments \in Nat \ {0} /\ Ids \subseteq Nat
      /\ Limits \subseteq Int
  BY NewsletterListAssumption
<1>2. \A l \in Limits \cup {0} : l \in Int
  BY <1>1
<1>3. QED
  BY <1>1, <1>2

(***************************************************************************)
(* What rows and times of a typed table are.                               *)
(***************************************************************************)
LEMMA RowType ==
  ASSUME ListTypeOK
  PROVE  /\ moment \in 1 .. Moments /\ moment \in 0 .. Moments
         /\ moment \in Nat \ {0}
         /\ \A i \in Ids : i \in Nat /\ table[i].at \in Nat
<1>1. /\ moment \in 1 .. Moments
      /\ \A i \in Ids : table[i].at \in 0 .. Moments
  BY DEF ListTypeOK
<1>2. QED
  BY <1>1, Numbers

(***************************************************************************)
(* A sequence of ids holds ids; the empty one none.                        *)
(***************************************************************************)
LEMMA IdsInSequences ==
  /\ \A s \in Seq(Ids) : ToSet(s) \subseteq Ids
  /\ <<>> \in Seq(Ids) /\ ToSet(<<>>) = {} /\ IsInjective(<<>>)
<1>1. ASSUME NEW s \in Seq(Ids)  PROVE ToSet(s) \subseteq Ids
  <2>1. DOMAIN s = 1 .. Len(s) /\ \A n \in 1 .. Len(s) : s[n] \in Ids
    BY LenProperties, ElementOfSeq
  <2>2. QED
    BY <2>1 DEF ToSet
<1>2. <<>> \in Seq(Ids) /\ DOMAIN <<>> = {}
  <2>1. <<>> \in Seq(Ids) /\ Len(<<>>) = 0
    BY EmptySeq
  <2>2. DOMAIN <<>> = 1 .. 0
    BY <2>1, LenProperties
  <2>3. QED
    BY <2>1, <2>2
<1>3. ToSet(<<>>) = {} /\ IsInjective(<<>>)
  BY <1>2 DEF ToSet, IsInjective
<1>4. QED
  BY <1>1, <1>2, <1>3

(***************************************************************************)
(* Nothing is written and nobody reads at first.                           *)
(***************************************************************************)
LEMMA ListStart == ListInit => ListInv
<1> SUFFICES ASSUME ListInit  PROVE ListInv
  OBVIOUS
<1>1. 0 \in 0 .. Moments /\ 1 \in 1 .. Moments
  BY Numbers
<1>2. returned = <<>> /\ returned \in Seq(Ids) /\ IsInjective(returned)
  BY IdsInSequences DEF ListInit
<1>3. ListTypeOK
  BY <1>1, <1>2 DEF ListInit, ListTypeOK, NoCursor
<1>4. TimesInv
  <2>1. moment = 1 /\ \A i \in Ids : table[i].at = 0 /\ table[i].status = "new"
    BY DEF ListInit
  <2>2. QED
    BY <2>1 DEF TimesInv
<1>5. WalkInv
  BY DEF ListInit, WalkInv
<1>6. EveryRowOnce
  BY <1>2 DEF ListInit, EveryRowOnce
<1>7. QED
  BY <1>3, <1>4, <1>5, <1>6 DEF ListInv

(***************************************************************************)
(* A writer stamps its row with the moment and leaves the others alone.    *)
(***************************************************************************)
LEMMA RowIsWritten ==
  ASSUME ListTypeOK, NEW i \in Ids, NEW from, NEW to, Write(i, from, to)
  PROVE  /\ table'[i] = [status |-> to, at |-> moment]
         /\ \A j \in Ids \ {i} : table'[j] = table[j]
         /\ Key(i)' = <<moment, i>>
         /\ \A j \in Ids \ {i} : Key(j)' = Key(j)
         /\ \A j \in Ids \ {i} : \A s : Matches(j, s)' <=> Matches(j, s)
<1>1. DOMAIN table = Ids
  BY DEF ListTypeOK
<1>2. /\ table'[i] = [status |-> to, at |-> moment]
      /\ \A j \in Ids \ {i} : table'[j] = table[j]
  BY <1>1 DEF Write
<1>3. Key(i)' = <<moment, i>> /\ \A j \in Ids \ {i} : Key(j)' = Key(j)
  BY <1>2 DEF Key
<1>4. \A j \in Ids \ {i} : \A s : Matches(j, s)' <=> Matches(j, s)
  BY <1>2 DEF Matches
<1>5. QED
  BY <1>2, <1>3, <1>4

(***************************************************************************)
(* Create, Update, MarkSent and Delete of postgres.go: a row that is       *)
(* written moves to the head of the order, before every token that is out, *)
(* and is owed to nobody any more.                                         *)
(***************************************************************************)
LEMMA WriteKeeps ==
  ASSUME ListInv, NEW i \in Ids, NEW from, NEW to \in {"draft", "sent", "gone"},
         Write(i, from, to)
  PROVE  ListInv'
<1>1. ListTypeOK /\ moment \in 1 .. Moments /\ moment \in 0 .. Moments
  BY RowType DEF ListInv
<1>2. /\ UNCHANGED <<moment, walk, returned>>
      /\ settled' = settled \ {i}
  BY DEF Write
<1>3. ListTypeOK'
  <2>1. table' \in [Ids -> [status : {"new", "draft", "sent", "gone"},
                            at : 0 .. Moments]]
    BY <1>1 DEF ListTypeOK, Write
  <2>2. QED
    BY <1>1, <1>2, <2>1 DEF ListTypeOK
<1>4. TimesInv'
  <2>1. table'[i].at = moment /\ \A j \in Ids \ {i} : table'[j] = table[j]
    <3>1. /\ table'[i] = [status |-> to, at |-> moment]
          /\ \A j \in Ids \ {i} : table'[j] = table[j]
      BY <1>1, RowIsWritten
    <3>2. QED
      BY <3>1
  <2>2. moment >= 1 /\ moment <= moment
    BY <1>1, RowType
  <2>3. QED
    BY <1>2, <2>1, <2>2 DEF ListInv, TimesInv
<1>5. ASSUME walk.pc = "more"
      PROVE  /\ walk.next \in (1 .. moment) \X Ids
             /\ \A j \in ToSet(returned) : ~ Before(Key(j), walk.next)'
             /\ settled' \subseteq ToSet(returned) \cup Left'
  <2>1. /\ walk.next \in (1 .. moment) \X Ids
        /\ \A j \in ToSet(returned) : ~ Before(Key(j), walk.next)
        /\ settled \subseteq ToSet(returned) \cup Left
    BY <1>5 DEF ListInv, WalkInv
  <2>2. ToSet(returned) \subseteq Ids /\ settled \subseteq Ids
    BY <1>1, IdsInSequences DEF ListTypeOK
  <2>3. PICK c1 \in 1 .. moment, c2 \in Ids : walk.next = <<c1, c2>>
    BY <2>1
  <2>4. ASSUME i \in ToSet(returned)  PROVE ~ Before(<<moment, i>>, walk.next)
    <3>1. ~ Before(<<table[i].at, i>>, <<c1, c2>>)
      BY <2>1, <2>3, <2>4 DEF Key
    <3>2. table[i].at \in Nat /\ table[i].at <= moment /\ i \in Nat /\ c2 \in Nat
      BY <1>1, RowType, Numbers DEF ListInv, TimesInv
    <3>3. QED
      BY <1>1, <2>3, <3>1, <3>2 DEF Before
  <2>5. \A j \in ToSet(returned) : ~ Before(Key(j)', walk.next)
    BY <1>1, <2>1, <2>2, <2>4, RowIsWritten
  <2>6. ASSUME NEW j \in Left, j # i  PROVE j \in Left'
    <3>1. j \in Ids /\ Matches(j, walk.status)
          /\ (walk.next # NoCursor => Before(Key(j), walk.next))
      BY DEF Left, AfterCursor
    <3>2. Matches(j, walk.status)' /\ Key(j)' = Key(j)
      BY <1>1, <1>2, <2>6, <3>1, RowIsWritten DEF Matches
    <3>3. QED
      BY <1>2, <3>1, <3>2 DEF Left, AfterCursor, NoCursor, Before
  <2>7. QED
    BY <1>2, <2>1, <2>5, <2>6 DEF Before
<1>6. WalkInv'
  BY <1>2, <1>5 DEF ListInv, WalkInv, Before
<1>7. EveryRowOnce'
  BY <1>2 DEF ListInv, EveryRowOnce
<1>8. QED
  BY <1>3, <1>4, <1>6, <1>7 DEF ListInv

(***************************************************************************)
(* A page after a token the client has not got beyond.                     *)
(***************************************************************************)
LEMMA PageKeeps ==
  ASSUME ListInv, NEW status \in {"", "draft", "sent"}, NEW c \in Keys,
         NEW l \in Limits \cup {0},
         TakePage(status, c, l), UNCHANGED <<table, moment>>,
         \A i \in ToSet(returned) : c # NoCursor /\ ~ Before(Key(i), c),
         settled' \subseteq Ids,
         settled' \subseteq ToSet(returned) \cup AfterCursor(status, c)
  PROVE  ListInv'
<1> DEFINE page == ListAll(status, c, l)
           S == AfterCursor(status, c)
<1>1. ListTypeOK /\ TimesInv /\ returned \in Seq(Ids) /\ IsInjective(returned)
  BY DEF ListInv, ListTypeOK, EveryRowOnce
<1>2. PageOf(page, S)
  <2>1. l \in Int
    BY Numbers
  <2>2. QED
    BY <1>1, <2>1, OnePage
<1>3. /\ walk' = [pc |-> IF page.next = NoCursor THEN "end" ELSE "more",
                  status |-> status, limit |-> l, next |-> page.next]
      /\ returned' = returned \o page.rows
  BY DEF TakePage
<1>4. \A i \in S : i \in Ids /\ (c # NoCursor => Before(Key(i), c))
  BY DEF AfterCursor
<1> HIDE DEF page
<1>5. ToSet(returned) \cap ToSet(page.rows) = {}
  BY <1>2, <1>4 DEF PageOf
<1>6. /\ returned' \in Seq(Ids)
      /\ ToSet(returned') = ToSet(returned) \cup ToSet(page.rows)
      /\ IsInjective(returned')
  BY <1>1, <1>2, <1>3, <1>5, PagesAdd DEF PageOf
<1>7. page.next \in (0 .. Moments) \X (Ids \cup {0})
  <2>1. CASE page.next = NoCursor
    <3>1. 0 \in 0 .. Moments
      BY Numbers
    <3>2. 0 \in Ids \cup {0}
      OBVIOUS
    <3>3. <<0, 0>> \in (0 .. Moments) \X (Ids \cup {0})
      BY <3>1, <3>2
    <3>4. QED
      BY <2>1, <3>3 DEF NoCursor
  <2>2. CASE page.next # NoCursor
    <3>1. 1 .. moment \subseteq 0 .. Moments
      BY <1>1, RowType, Numbers
    <3>2. QED
      BY <1>2, <2>2, <3>1 DEF PageOf
  <2>3. QED
    BY <2>1, <2>2
<1>8. ListTypeOK'
  BY <1>1, <1>3, <1>6, <1>7 DEF ListTypeOK
<1>9. TimesInv'
  BY <1>1 DEF TimesInv
<1>10. CASE page.next = NoCursor
  <2>1. walk'.pc = "end" /\ settled' \subseteq ToSet(returned')
    BY <1>2, <1>3, <1>6, <1>10 DEF PageOf
  <2>2. WalkInv' /\ EveryRowOnce'
    BY <1>6, <2>1 DEF WalkInv, EveryRowOnce
  <2>3. QED
    BY <1>8, <1>9, <2>2 DEF ListInv
<1>11. CASE page.next # NoCursor
  <2>1. /\ walk'.pc = "more" /\ walk'.next = page.next /\ walk'.status = status
        /\ page.next \in (1 .. moment) \X Ids
        /\ \A i \in ToSet(page.rows) : ~ Before(Key(i), page.next)
        /\ \A i \in S \ ToSet(page.rows) : Before(Key(i), page.next)
    BY <1>2, <1>3, <1>11 DEF PageOf
  <2>2. PICK m \in S : page.next = Key(m)
    BY <1>2, <1>11 DEF PageOf
  <2>3. ASSUME NEW i \in ToSet(returned)  PROVE ~ Before(Key(i), page.next)
    <3>1. i \in Ids
      BY <1>1, IdsInSequences
    <3>2. Key(i) \in Keys /\ Key(m) \in Keys
      BY <1>1, <1>4, <3>1, KeyType
    <3>3. ~ Before(Key(i), c) /\ Before(Key(m), c)
      BY <1>4, <2>3
    <3>4. QED
      BY <2>2, <3>2, <3>3, BeforeIsTransitive
  <2>4. \A i \in ToSet(returned') : ~ Before(Key(i), page.next)
    BY <1>6, <2>1, <2>3
  <2>5. S \ ToSet(page.rows) \subseteq Left'
    BY <2>1 DEF AfterCursor, Left, Matches, Key
  <2>6. settled' \subseteq ToSet(returned') \cup Left'
    BY <1>6, <2>5
  <2>7. WalkInv'
    <3>1. \A i : Key(i)' = Key(i)
      BY DEF Key
    <3>2. \A i \in ToSet(returned') : ~ Before(Key(i)', walk'.next)
      BY <2>1, <2>4, <3>1
    <3>3. QED
      BY <2>1, <2>6, <3>2 DEF WalkInv, Before
  <2>8. EveryRowOnce'
    BY <1>6, <2>1 DEF EveryRowOnce
  <2>9. QED
    BY <1>8, <1>9, <2>7, <2>8 DEF ListInv
<1>12. QED
  BY <1>10, <1>11

(***************************************************************************)
(* Every step of the editors, of the clock and of the client.              *)
(***************************************************************************)
LEMMA ListKeep == ListInv /\ [ListNext]_listVars => ListInv'
<1> SUFFICES ASSUME ListInv, [ListNext]_listVars  PROVE ListInv'
  OBVIOUS
<1>1. ListTypeOK /\ TimesInv /\ WalkInv /\ EveryRowOnce
  BY DEF ListInv
<1>2. ASSUME NEW i \in Ids, CreateRow(i) \/ EditRow(i) \/ SendRow(i) \/ DeleteRow(i)
      PROVE  ListInv'
  BY <1>2, WriteKeeps DEF CreateRow, EditRow, SendRow, DeleteRow
<1>3. CASE Pass
  <2>1. /\ UNCHANGED <<table, walk, returned, settled>>
        /\ moment' = moment + 1 /\ moment < Moments
    BY <1>3 DEF Pass
  <2>2. moment' \in 1 .. Moments /\ \A a \in Nat : a <= moment => a <= moment'
    BY <1>1, <2>1, RowType, Numbers
  <2>3. ListTypeOK'
    BY <1>1, <2>1, <2>2 DEF ListTypeOK
  <2>4. TimesInv'
    BY <1>1, <2>1, <2>2, RowType DEF TimesInv
  <2>5. 1 .. moment \subseteq 1 .. moment'
    BY <1>1, <2>1, RowType
  <2>6. WalkInv'
    BY <1>1, <2>1, <2>5 DEF WalkInv, Left, AfterCursor, Matches, Key, Before
  <2>7. EveryRowOnce'
    BY <1>1, <2>1 DEF EveryRowOnce
  <2>8. QED
    BY <2>3, <2>4, <2>6, <2>7 DEF ListInv
<1>4. ASSUME NEW s \in Statuses, NEW l \in Limits, ListNewsletters(s, l)
      PROVE  ListInv'
  <2>1. UNCHANGED <<table, moment>> /\ returned = <<>> /\ ToSet(returned) = {}
    BY <1>1, <1>4, IdsInSequences DEF ListNewsletters, WalkInv
  <2>2. CASE /\ ValidStatus(s)
             /\ TakePage(s, NoCursor, l)
             /\ settled' = {i \in Ids : Matches(i, s)}
    <3>1. settled' \subseteq Ids /\ settled' \subseteq AfterCursor(s, NoCursor)
      BY <2>2 DEF AfterCursor
    <3>2. NoCursor \in Keys /\ s \in {"", "draft", "sent"}
      BY <2>2 DEF NoCursor, Keys, ValidStatus
    <3>3. QED
      BY <2>1, <2>2, <3>1, <3>2, PageKeeps
  <2>3. CASE /\ walk' = [walk EXCEPT !.pc = "refused"]
             /\ UNCHANGED <<returned, settled>>
    <3>1. ListTypeOK'
      BY <1>1, <2>1, <2>3 DEF ListTypeOK
    <3>2. walk'.pc = "refused"
      BY <1>1, <2>3 DEF ListTypeOK
    <3>3. TimesInv' /\ WalkInv' /\ EveryRowOnce'
      BY <1>1, <2>1, <2>3, <3>2 DEF TimesInv, WalkInv, EveryRowOnce
    <3>4. QED
      BY <3>1, <3>3 DEF ListInv
  <2>4. QED
    BY <1>4, <2>2, <2>3 DEF ListNewsletters
<1>5. CASE NextPage
  <2>1. /\ walk.pc = "more" /\ TakePage(walk.status, walk.next, walk.limit)
        /\ UNCHANGED <<table, moment, settled>>
    BY <1>5 DEF NextPage
  <2>2. /\ walk.next \in (1 .. moment) \X Ids
        /\ \A i \in ToSet(returned) : ~ Before(Key(i), walk.next)
        /\ settled \subseteq ToSet(returned) \cup Left
    BY <1>1, <2>1 DEF WalkInv
  <2>3. walk.next \in Keys /\ walk.next # NoCursor
    <3>1. PICK c1 \in 1 .. moment, c2 \in Ids : walk.next = <<c1, c2>>
      BY <2>2
    <3>2. c1 \in Nat \ {0} /\ c2 \in Nat
      BY <1>1, RowType, Numbers
    <3>3. QED
      BY <3>1, <3>2 DEF Keys, NoCursor
  <2>4. walk.status \in {"", "draft", "sent"} /\ walk.limit \in Limits \cup {0}
        /\ settled \subseteq Ids
    BY <1>1 DEF ListTypeOK
  <2>5. QED
    BY <2>1, <2>2, <2>3, <2>4, PageKeeps DEF Left
<1>6. CASE UNCHANGED listVars
  BY <1>1, <1>6 DEF listVars, ListInv, ListTypeOK, TimesInv, WalkInv, EveryRowOnce,
                    Left, AfterCursor, Matches, Key, Before
<1>7. QED
  BY <1>2, <1>3, <1>4, <1>5, <1>6 DEF ListNext

(***************************************************************************)
(* In every behaviour of the list.                                         *)
(***************************************************************************)
LEMMA ListInvariance == ListSpec => []ListInv
  BY ListStart, ListKeep, PTL DEF ListSpec

(***************************************************************************)
(* A client that follows the tokens to the end has every row that matched  *)
(* and was left alone, and no row twice, for any number of rows, page      *)
(* sizes and writers, and however many rows share a moment.                *)
(***************************************************************************)
THEOREM RowsAreListedOnce == ListSpec => []EveryRowOnce
<1>1. ListInv => EveryRowOnce
  BY DEF ListInv
<1>2. QED
  BY <1>1, ListInvariance, PTL

-----------------------------------------------------------------------------
(***************************************************************************)
(* A writer adds nothing to what a token has still to come, but at the     *)
(* moment the token names.                                                 *)
(***************************************************************************)
LEMMA WritersDoNotAdd ==
  ASSUME ListInv, walk.pc = "more", walk.next[1] < moment,
         NEW i \in Ids, NEW from, NEW to, Write(i, from, to)
  PROVE  UNCHANGED walk /\ Left' \subseteq Left
<1>1. ListTypeOK /\ UNCHANGED walk
  BY DEF ListInv, Write
<1>2. PICK c1 \in 1 .. moment, c2 \in Ids : walk.next = <<c1, c2>>
  BY DEF ListInv, WalkInv
<1>3. c1 \in Nat \ {0} /\ moment \in Nat /\ c1 < moment /\ c2 \in Nat
  BY <1>1, <1>2, RowType, Numbers
<1>4. walk.next # NoCursor
  BY <1>2, <1>3 DEF NoCursor
<1>5. Left = {j \in Ids : Matches(j, walk.status) /\ Before(Key(j), walk.next)}
  BY <1>4 DEF Left, AfterCursor
<1>6. Left' = {j \in Ids : Matches(j, walk.status)' /\ Before(Key(j)', walk.next)}
  BY <1>1, <1>4 DEF Left, AfterCursor, Matches, Before
<1>7. ~ Before(Key(i)', walk.next)
  <2>1. Key(i)' = <<moment, i>>
    BY <1>1, RowIsWritten
  <2>2. QED
    BY <1>2, <1>3, <2>1 DEF Before
<1>8. ASSUME NEW j \in Ids, j # i, Matches(j, walk.status)', Before(Key(j)', walk.next)
      PROVE  j \in Left
  <2>1. Matches(j, walk.status) /\ Key(j)' = Key(j)
    BY <1>1, <1>8, RowIsWritten DEF Matches
  <2>2. QED
    BY <1>5, <1>8, <2>1
<1>9. QED
  BY <1>1, <1>6, <1>7, <1>8

(***************************************************************************)
(* A page that ends with a token leaves less behind it: the row the token  *)
(* names is not to come again.                                             *)
(***************************************************************************)
LEMMA PagesShrinkTheRest ==
  ASSUME ListInv, NextPage
  PROVE  walk'.pc = "end" \/ Cardinality(Left') < Cardinality(Left)
<1> DEFINE page == ListAll(walk.status, walk.next, walk.limit)
<1>1. ListTypeOK /\ TimesInv /\ walk.limit \in Int
  BY Numbers DEF ListInv, ListTypeOK
<1>2. PageOf(page, Left)
  BY <1>1, OnePage DEF Left
<1>3. /\ walk' = [pc |-> IF page.next = NoCursor THEN "end" ELSE "more",
                  status |-> walk.status, limit |-> walk.limit, next |-> page.next]
      /\ UNCHANGED table /\ walk.pc = "more"
  BY DEF NextPage, TakePage
<1> HIDE DEF page
<1>4. CASE page.next = NoCursor
  BY <1>3, <1>4
<1>5. CASE page.next # NoCursor
  <2>1. PICK m \in Left : page.next = Key(m)
    BY <1>2, <1>5 DEF PageOf
  <2>2. walk.next \in Keys /\ walk.next # NoCursor
    <3>1. PICK c1 \in 1 .. moment, c2 \in Ids : walk.next = <<c1, c2>>
      BY <1>3 DEF ListInv, WalkInv
    <3>2. c1 \in Nat \ {0} /\ c2 \in Nat
      BY <1>1, RowType, Numbers
    <3>3. QED
      BY <3>1, <3>2 DEF Keys, NoCursor
  <2>3. Left = {i \in Ids : Matches(i, walk.status) /\ Before(Key(i), walk.next)}
    BY <2>2 DEF Left, AfterCursor
  <2>4. walk'.next = page.next /\ walk'.status = walk.status
    BY <1>3
  <2>5. Left' = {i \in Ids : Matches(i, walk.status) /\ Before(Key(i), page.next)}
    BY <1>3, <1>5, <2>4 DEF Left, AfterCursor, Matches, Key
  <2>6. m \in Ids /\ Key(m) \in Keys /\ Before(Key(m), walk.next)
    BY <1>1, <2>1, <2>3, KeyType
  <2>7. Left' \subseteq Left
    <3>1. ASSUME NEW i \in Left'  PROVE i \in Left
      <4>1. i \in Ids /\ Matches(i, walk.status) /\ Before(Key(i), Key(m))
        BY <2>1, <2>5
      <4>2. Before(Key(i), walk.next)
        BY <1>1, <2>2, <2>6, <4>1, KeyType, BeforeIsTransitive
      <4>3. QED
        BY <2>3, <4>1, <4>2
    <3>2. QED
      BY <3>1
  <2>8. m \notin Left'
    BY <2>1, <2>5, <2>6, BeforeIsStrict
  <2>9. IsFiniteSet(Left)
    BY FS_Subset, NewsletterListAssumption, <2>3
  <2>10. Cardinality(Left') <= Cardinality(Left) /\ Cardinality(Left') # Cardinality(Left)
    BY <2>1, <2>7, <2>8, <2>9, FS_Subset
  <2>11. Cardinality(Left) \in Nat /\ Cardinality(Left') \in Nat
    BY <2>7, <2>9, FS_Subset, FS_CardinalityType
  <2>12. QED
    BY <2>10, <2>11
<1>6. QED
  BY <1>4, <1>5

(***************************************************************************)
(* The tokens lead to an end, whatever the editors do meanwhile.           *)
(***************************************************************************)
LEMMA PagingStep ==
  ASSUME ListInv, [ListNext]_listVars, walk.pc = "more"
  PROVE  \/ UNCHANGED walk /\ (walk.next[1] < moment => Left' \subseteq Left)
         \/ walk'.pc = "end"
         \/ Cardinality(Left') < Cardinality(Left)
<1>1. ASSUME NEW i \in Ids, CreateRow(i) \/ EditRow(i) \/ SendRow(i) \/ DeleteRow(i)
      PROVE  UNCHANGED walk /\ (walk.next[1] < moment => Left' \subseteq Left)
  <2>1. PICK from, to : Write(i, from, to)
    BY <1>1 DEF CreateRow, EditRow, SendRow, DeleteRow
  <2>2. UNCHANGED walk
    BY <2>1 DEF Write
  <2>3. QED
    BY <2>1, <2>2, WritersDoNotAdd
<1>2. CASE Pass \/ UNCHANGED listVars
  <2>1. UNCHANGED <<table, walk>>
    BY <1>2 DEF Pass, listVars
  <2>2. Left' = Left
    BY <2>1 DEF Left, AfterCursor, Matches, Key
  <2>3. QED
    BY <2>1, <2>2
<1>3. ~ \E s \in Statuses, l \in Limits : ListNewsletters(s, l)
  BY DEF ListNewsletters
<1>4. QED
  BY <1>1, <1>2, <1>3, PagesShrinkTheRest DEF ListNext

(***************************************************************************)
(* So it is in every behaviour: editors cannot keep a client paging.       *)
(***************************************************************************)
THEOREM TokensEnd == ListSpec => PagesRunOut
<1> DEFINE Step == walk.pc = "more" =>
                     \/ UNCHANGED walk /\ (walk.next[1] < moment => Left' \subseteq Left)
                     \/ walk'.pc = "end"
                     \/ Cardinality(Left') < Cardinality(Left)
<1>1. ListInv /\ [ListNext]_listVars => Step
  BY PagingStep
<1>2. ListSpec => [][Step]_listVars
  BY <1>1, ListInvariance, PTL DEF ListSpec
<1>3. QED
  BY <1>2 DEF PagesRunOut

-----------------------------------------------------------------------------
(***************************************************************************)
(* A behaviour of the two tables side by side is one of each.              *)
(***************************************************************************)
LEMMA EachTableByItself == Spec => OpensSpec /\ ListSpec
<1>1. Init => OpensInit /\ ListInit
  BY DEF Init
<1>2. [Next]_<<part, opensVars, listVars>>
      => [OpensNext]_opensVars /\ [ListNext]_listVars
  BY DEF Next
<1>3. QED
  BY <1>1, <1>2, PTL DEF Spec, OpensSpec, ListSpec

(***************************************************************************)
(* The variables of both keep their types.                                 *)
(***************************************************************************)
THEOREM TypeCorrect == Spec => []TypeOK
<1>1. OpensInv /\ ListInv => TypeOK
  BY DEF OpensInv, ListInv, TypeOK
<1>2. QED
  BY <1>1, EachTableByItself, OpensInvariance, ListInvariance, PTL

(***************************************************************************)
(* What is proved of each holds of the two together, as they are run.      *)
(***************************************************************************)
THEOREM TablesAreRight == Spec => []EveryRowOnce /\ PagesRunOut
  BY EachTableByItself, RowsAreListedOnce, TokensEnd
=============================================================================
