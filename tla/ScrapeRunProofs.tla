-------------------------- MODULE ScrapeRunProofs --------------------------
(***************************************************************************)
(* Proofs about ScrapeRun, for any site, any number of failures and every  *)
(* START_INDEX.                                                            *)
(***************************************************************************)
EXTENDS ScrapeRun, FiniteSetTheorems, TLAPS

Offered(l) == UNION {ToSet(l[m]) : m \in DOMAIN l}
ItemOf(l) ==
  [name : {e.name : e \in Offered(l)}, page : {e.page : e \in Offered(l)},
   image : {e.image : e \in Offered(l)}, months : SUBSET (DOMAIN l),
   calendar : BOOLEAN, copies : Nat, fails : Nat]

TypeOK ==
  /\ scraper \in AllScrapers
  /\ listing \in Listings
  /\ start \in Nat
  /\ phase \in {"listing", "detail", "done", "aborted"}
  /\ refetched \in BOOLEAN
  /\ month \in 0..Len(listing)
  /\ entry \in 0..Len(Entries)
  /\ items \in Seq(ItemOf(listing))
  /\ frames \in Seq(Nat)
  /\ again \in BOOLEAN

(* The loops that have still to come to item k.                            *)
Due(k) == {f \in DOMAIN frames : frames[f] <= k}

Balanced ==
  \A k \in DOMAIN items :
    items[k].copies + items[k].fails + Cardinality(Due(k)) = Owed(items, StartIndex(start), k)

Untouched == \A k \in DOMAIN items : items[k].copies = 0 /\ items[k].fails = 0

(* The loops under way are past START_INDEX; what is written is balanced.  *)
Ledger ==
  /\ phase = "listing" => Untouched /\ frames = <<>>
  /\ phase \in {"detail", "done"} => Balanced
  /\ phase = "detail" => \A f \in DOMAIN frames : frames[f] > StartIndex(start)
  /\ IF phase = "done"
     THEN /\ frames = <<>>
          /\ csv = [rows |-> items, start |-> StartIndex(start), refetched |-> refetched]
     ELSE csv = NoFile

KeysDiffer == \A j, k \in DOMAIN items : j # k => Key(items[j]) # Key(items[k])
PagesDiffer == \A j, k \in DOMAIN items : j # k => items[j].page # items[k].page

Distinct ==
  /\ phase \in {"detail", "done"} /\ ~refetched => KeysDiffer
  /\ scraper \in MergesPages => PagesDiffer

(* The entries handled so far, which in the end are all.                   *)
Handled == {p \in EntriesAt : p[1] < month \/ (p[1] = month /\ p[2] <= entry)}
Whole(p) == At(p).page # Missing /\ At(p).image # Missing

SeasonFrom(x, first) ==
  /\ first \in Handled
  /\ At(first).page = x.page /\ At(first).image # Missing
  /\ \A p \in Handled : At(p).page = x.page /\ At(p).image # Missing => Before(first, p)
  /\ x.months = {m \in DOMAIN listing :
                   \E p \in Handled : p[1] = m /\ At(p).page = x.page /\ Before(first, p)}

Seasonal ==
  scraper \in MergesPages =>
    /\ \A k \in DOMAIN items : items[k].page # Missing /\ \E first \in Handled : SeasonFrom(items[k], first)
    /\ phase = "listing" =>
         \A p \in Handled : Whole(p) => \E k \in DOMAIN items : items[k].page = At(p).page

AllHandled == phase \in {"detail", "done"} => month = Len(listing) /\ PageDone

IInv == TypeOK /\ Ledger /\ Distinct /\ Seasonal /\ AllHandled

-----------------------------------------------------------------------------
(* A finite set of numbers can be counted in its order: the rank of each   *)
(* is how many there are up to it.                                         *)
LEMMA RanksExist ==
  ASSUME NEW S \in SUBSET Nat, IsFiniteSet(S), S # {}
  PROVE  \E n \in Nat \ {0} : \E rank \in [S -> 1..n] :
           /\ \A s, t \in S : s < t => rank[s] < rank[t]
           /\ \A i \in 1..n : \E s \in S : rank[s] = i
<1> DEFINE n == Cardinality(S)
           UpTo(s) == {t \in S : t <= s}
           rank == [s \in S |-> Cardinality(UpTo(s))]
<1>1. n \in Nat /\ n # 0
  BY FS_CardinalityType, FS_EmptySet
<1>2. ASSUME NEW s \in S PROVE rank[s] \in 1..n
  <2>1. UpTo(s) \in SUBSET S /\ s \in UpTo(s)
    OBVIOUS
  <2>2. IsFiniteSet(UpTo(s)) /\ Cardinality(UpTo(s)) <= n
    BY <2>1, FS_Subset
  <2>3. Cardinality(UpTo(s)) \in Nat /\ Cardinality(UpTo(s)) # 0
    BY <2>1, <2>2, FS_CardinalityType, FS_EmptySet
  <2> QED
    BY <1>1, <2>2, <2>3
<1>3. ASSUME NEW s \in S, NEW t \in S, s < t PROVE rank[s] < rank[t]
  <2>1. UpTo(s) \in SUBSET UpTo(t) /\ t \in UpTo(t) /\ t \notin UpTo(s)
    <3>1. s \in Nat /\ t \in Nat /\ ~(t <= s) /\ t <= t
      BY <1>3
    <3>2. ASSUME NEW u \in S, u <= s PROVE u <= t
      BY <1>3, <3>1, <3>2
    <3> QED
      BY <3>1, <3>2
  <2>2. UpTo(t) \in SUBSET S
    OBVIOUS
  <2>3. IsFiniteSet(UpTo(t))
    BY <2>2, FS_Subset
  <2>4. Cardinality(UpTo(s)) <= Cardinality(UpTo(t)) /\ Cardinality(UpTo(s)) # Cardinality(UpTo(t))
    BY <2>1, <2>3, FS_Subset
  <2>5. rank[s] = Cardinality(UpTo(s)) /\ rank[t] = Cardinality(UpTo(t))
    OBVIOUS
  <2>6. rank[s] \in Nat /\ rank[t] \in Nat
    BY <1>1, <1>2
  <2> HIDE DEF rank, UpTo
  <2> QED
    BY <2>4, <2>5, <2>6
<1>4. \A s, t \in S : rank[s] = rank[t] => s = t
  <2> SUFFICES ASSUME NEW s \in S, NEW t \in S, rank[s] = rank[t], s # t PROVE FALSE
    OBVIOUS
  <2>1. s < t \/ t < s
    OBVIOUS
  <2> QED
    BY <1>2, <1>3, <2>1
<1>5. rank \in Injection(S, 1..n)
  BY <1>2, <1>4 DEF Injection, IsInjective
<1>6. IsFiniteSet(1..n) /\ Cardinality(1..n) = n
  BY <1>1, FS_Interval
<1>7. rank \in Surjection(S, 1..n)
  <2> HIDE DEF rank
  <2> QED
    BY <1>5, <1>6, FS_Injection
<1>8. rank \in [S -> 1..n] /\ \A i \in 1..n : \E s \in S : rank[s] = i
  <2> HIDE DEF rank
  <2> QED
    BY <1>7 DEF Surjection
<1>9. \A s, t \in S : s < t => rank[s] < rank[t]
  BY <1>3
<1> HIDE DEF rank, n
<1> QED
  BY <1>1, <1>8, <1>9

(* Hence its elements can be put in order.                                 *)
LEMMA AscendingExists ==
  ASSUME NEW S \in SUBSET Nat, IsFiniteSet(S)
  PROVE  /\ Ascending(S) \in [1..Cardinality(S) -> S]
         /\ \A i, j \in DOMAIN Ascending(S) : i < j => Ascending(S)[i] < Ascending(S)[j]
<1> SUFFICES \E o \in [1..Cardinality(S) -> S] : \A i, j \in DOMAIN o : i < j => o[i] < o[j]
  BY DEF Ascending
<1>1. CASE S = {}
  <2>1. Cardinality(S) = 0 /\ 1..0 = {}
    BY <1>1, FS_EmptySet
  <2>2. [i \in {} |-> 0] \in [1..Cardinality(S) -> S]
    BY <2>1
  <2> QED
    BY <2>1, <2>2
<1>2. CASE S # {}
  <2>1. PICK n \in Nat \ {0} : \E rank \in [S -> 1..n] :
          /\ \A s, t \in S : s < t => rank[s] < rank[t]
          /\ \A i \in 1..n : \E s \in S : rank[s] = i
    BY <1>2, RanksExist
  <2>2. PICK rank \in [S -> 1..n] :
          /\ \A s, t \in S : s < t => rank[s] < rank[t]
          /\ \A i \in 1..n : \E s \in S : rank[s] = i
    BY <2>1
  <2>3. rank \in Surjection(S, 1..n)
    BY <2>2 DEF Surjection
  <2>4. rank \in Injection(S, 1..n)
    <3>1. \A s, t \in S : s < t \/ t < s \/ s = t
      OBVIOUS
    <3>2. \A s, t \in S : rank[s] = rank[t] => s = t
      BY <2>2, <3>1
    <3> QED
      BY <3>2 DEF Injection, IsInjective
  <2>5. Cardinality(S) = n
    <3>1. IsFiniteSet(1..n) /\ Cardinality(1..n) = n
      BY FS_Interval
    <3> QED
      BY <2>3, <2>4, <3>1, FS_Surjection
  <2> DEFINE o == [i \in 1..n |-> CHOOSE s \in S : rank[s] = i]
  <2>6. \A i \in 1..n : o[i] \in S /\ rank[o[i]] = i
    BY <2>2
  <2>7. o \in [1..n -> S] /\ DOMAIN o = 1..n
    BY <2>6
  <2> HIDE DEF o
  <2>8. \A i, j \in 1..n : i < j => o[i] < o[j]
    <3> SUFFICES ASSUME NEW i \in 1..n, NEW j \in 1..n, i < j PROVE o[i] < o[j]
      OBVIOUS
    <3>1. o[i] \in Nat /\ o[j] \in Nat /\ rank[o[i]] = i /\ rank[o[j]] = j
      BY <2>6
    <3>2. ~(o[j] < o[i]) /\ o[i] # o[j]
      BY <2>2, <2>6, <3>1
    <3> QED
      BY <3>1, <3>2
  <2> QED
    BY <2>5, <2>7, <2>8
<1> QED
  BY <1>1, <1>2

(* uniq! keeps items of the list, no two of one key.                       *)
LEMMA UniqKeeps ==
  ASSUME NEW T, NEW list \in Seq(T)
  PROVE  /\ Uniq(list) \in Seq(T)
         /\ \A i, j \in DOMAIN Uniq(list) : i # j => Key(Uniq(list)[i]) # Key(Uniq(list)[j])
         /\ \E kept \in [DOMAIN Uniq(list) -> DOMAIN list] :
              /\ \A i \in DOMAIN Uniq(list) : Uniq(list)[i] = list[kept[i]]
              /\ \A i, j \in DOMAIN Uniq(list) : i # j => kept[i] # kept[j]
<1> DEFINE F == Firsts(list)
           kept == Ascending(F)
           n == Cardinality(F)
<1>1. Len(list) \in Nat /\ DOMAIN list = 1..Len(list)
  OBVIOUS
<1>2. F \in SUBSET (1..Len(list)) /\ F \in SUBSET Nat /\ IsFiniteSet(F)
  <2>1. F \in SUBSET (1..Len(list))
    BY <1>1 DEF Firsts
  <2>2. IsFiniteSet(1..Len(list))
    BY <1>1, FS_Interval
  <2>3. IsFiniteSet(F)
    BY <2>1, <2>2, FS_Subset
  <2> QED
    BY <2>1, <2>3
<1>3. n \in Nat
  BY <1>2, FS_CardinalityType
<1>4. /\ kept \in [1..n -> F]
      /\ \A i, j \in DOMAIN kept : i < j => kept[i] < kept[j]
  BY <1>2, AscendingExists
<1>5. Uniq(list) = [i \in DOMAIN kept |-> list[kept[i]]]
  BY DEF Uniq
<1>6. \A k \in F : k \in DOMAIN list /\ \A j \in 1..(k - 1) : Key(list[j]) # Key(list[k])
  BY DEF Firsts
<1> HIDE DEF kept, n, F
<1>7. DOMAIN Uniq(list) = 1..n /\ DOMAIN kept = 1..n
  BY <1>4, <1>5
<1>8. \A i \in 1..n : kept[i] \in F /\ kept[i] \in DOMAIN list /\ Uniq(list)[i] = list[kept[i]]
  BY <1>4, <1>5, <1>6, <1>7
<1>9. Uniq(list) \in Seq(T)
  <2>1. \A i \in 1..n : list[kept[i]] \in T
    BY <1>8
  <2>2. Uniq(list) = [i \in 1..n |-> list[kept[i]]]
    BY <1>5, <1>7
  <2> QED
    BY <1>3, <2>1, <2>2
<1>10. \A i, j \in 1..n : i < j => Key(list[kept[i]]) # Key(list[kept[j]])
  <2> SUFFICES ASSUME NEW i \in 1..n, NEW j \in 1..n, i < j
               PROVE  Key(list[kept[i]]) # Key(list[kept[j]])
    OBVIOUS
  <2>1. kept[i] < kept[j] /\ kept[i] \in F /\ kept[j] \in F
    BY <1>4, <1>7, <1>8
  <2>2. kept[i] \in 1..(kept[j] - 1)
    <3>1. kept[i] \in 1..Len(list) /\ kept[j] \in 1..Len(list)
      BY <1>2, <2>1
    <3> QED
      BY <1>1, <2>1, <3>1
  <2> QED
    BY <1>6, <2>1, <2>2
<1>11. \A i, j \in 1..n : i # j => i < j \/ j < i
  BY <1>3
<1>12. \A i, j \in 1..n : i # j => Key(list[kept[i]]) # Key(list[kept[j]])
  BY <1>10, <1>11
<1>13. kept \in [DOMAIN Uniq(list) -> DOMAIN list]
  BY <1>4, <1>7, <1>8
<1>14. \A i, j \in 1..n : i # j => kept[i] # kept[j]
  BY <1>12
<1> QED
  BY <1>7, <1>8, <1>9, <1>12, <1>13, <1>14

-----------------------------------------------------------------------------
LEMMA ItemsType ==
  ASSUME TypeOK
  PROVE  /\ items \in Seq(ItemOf(listing)) /\ Len(items) \in Nat /\ DOMAIN items = 1..Len(items)
         /\ \A k \in DOMAIN items :
              items[k] \in ItemOf(listing) /\ items[k].copies \in Nat /\ items[k].fails \in Nat
<1>1. items \in Seq(ItemOf(listing))
  BY DEF TypeOK
<1>2. \A k \in DOMAIN items : items[k] \in ItemOf(listing)
  BY <1>1
<1>3. \A x \in ItemOf(listing) : x.copies \in Nat /\ x.fails \in Nat
  BY DEF ItemOf
<1> QED
  BY <1>1, <1>2, <1>3

LEMMA FramesType ==
  ASSUME TypeOK, frames # <<>>
  PROVE  /\ frames \in Seq(Nat) /\ Len(frames) \in Nat \ {0} /\ DOMAIN frames = 1..Len(frames)
         /\ Len(frames) \in DOMAIN frames /\ Current = frames[Len(frames)] /\ Current \in Nat
         /\ \A f \in DOMAIN frames : frames[f] \in Nat
<1>1. frames \in Seq(Nat)
  BY DEF TypeOK
<1>2. Len(frames) \in Nat \ {0} /\ DOMAIN frames = 1..Len(frames)
  BY <1>1
<1>3. Len(frames) \in DOMAIN frames
  BY <1>2
<1> QED
  BY <1>1, <1>2, <1>3 DEF Current, Last

LEMMA StartType == TypeOK => StartIndex(start) \in Nat
BY DEF TypeOK, StartIndex

(* There are finitely many loops and failures.                             *)
LEMMA DueFinite ==
  ASSUME TypeOK, NEW k
  PROVE  IsFiniteSet(Due(k)) /\ Cardinality(Due(k)) \in Nat
<1>1. DOMAIN frames = 1..Len(frames) /\ Len(frames) \in Nat
  BY DEF TypeOK
<1>2. IsFiniteSet(DOMAIN frames) /\ Due(k) \in SUBSET DOMAIN frames
  BY <1>1, FS_Interval DEF Due
<1>3. IsFiniteSet(Due(k))
  BY <1>2, FS_Subset
<1> QED
  BY <1>3, FS_CardinalityType

LEMMA FailuresFinite ==
  ASSUME TypeOK, NEW s \in Nat, NEW k \in DOMAIN items
  PROVE  /\ IsFiniteSet(Failures(items, s, k))
         /\ Cardinality(Failures(items, s, k)) \in Nat
<1> DEFINE I == (s + 1)..(k - 1)
           of == [j \in I |-> {j} \X (1..items[j].fails)]
           T == {of[j] : j \in I}
<1>1. k \in Nat /\ IsFiniteSet(I) /\ I \subseteq DOMAIN items
  <2>1. DOMAIN items = 1..Len(items) /\ Len(items) \in Nat
    BY ItemsType
  <2>2. k \in Nat /\ s + 1 \in Int /\ k - 1 \in Int
    BY <2>1
  <2>3. IsFiniteSet(I)
    BY <2>2, FS_Interval
  <2> QED
    BY <2>1, <2>2, <2>3
<1>2. of \in Surjection(I, T)
  BY DEF Surjection
<1>3. IsFiniteSet(T)
  BY <1>1, <1>2, FS_Surjection
<1>4. ASSUME NEW j \in I PROVE IsFiniteSet(of[j])
  <2>1. items[j].fails \in Nat
    BY <1>1, ItemsType
  <2>2. IsFiniteSet(1..items[j].fails)
    BY <2>1, FS_Interval
  <2>4. IsFiniteSet({j})
    BY FS_Singleton
  <2>3. IsFiniteSet({j} \X (1..items[j].fails))
    BY <2>2, <2>4, FS_Product
  <2> QED
    BY <2>3
<1>5. \A t \in T : IsFiniteSet(t)
  BY <1>4
<1>6. IsFiniteSet(UNION T)
  <2> HIDE DEF T
  <2> QED
    BY <1>3, <1>5, FS_UNION
<1>7. Failures(items, s, k) = UNION T
  BY DEF Failures
<1> HIDE DEF T
<1> QED
  BY <1>6, <1>7, FS_CardinalityType

(* One more failure of item c is one more visit owed to each behind it.    *)
LEMMA OwedAfterFailure ==
  ASSUME TypeOK, NEW s \in Nat, NEW c \in DOMAIN items, s < c, NEW list,
         DOMAIN list = DOMAIN items, list[c].fails = items[c].fails + 1,
         \A k \in DOMAIN items : k # c => list[k].fails = items[k].fails,
         NEW k \in DOMAIN items
  PROVE  Owed(list, s, k) = Owed(items, s, k) + IF c < k THEN 1 ELSE 0
<1>1. /\ k \in Nat /\ c \in Nat /\ DOMAIN items = 1..Len(items) /\ Len(items) \in Nat
      /\ \A j \in DOMAIN items : items[j].fails \in Nat
  BY ItemsType
<1>2. CASE ~(c < k)
  <2>1. c \notin (s + 1)..(k - 1) /\ (s + 1)..(k - 1) \subseteq DOMAIN items
    BY <1>1, <1>2
  <2>2. \A j \in (s + 1)..(k - 1) : {j} \X (1..list[j].fails) = {j} \X (1..items[j].fails)
    BY <2>1
  <2>3. Failures(list, s, k) = Failures(items, s, k)
    BY <2>2 DEF Failures
  <2>4. Cardinality(Failures(items, s, k)) \in Nat
    BY FailuresFinite
  <2> QED
    BY <1>2, <2>3, <2>4 DEF Owed
<1>3. CASE c < k
  <2> DEFINE n == items[c].fails + 1
  <2>1. c \in (s + 1)..(k - 1) /\ (s + 1)..(k - 1) \subseteq DOMAIN items
    BY <1>1, <1>3
  <2>2. 1..n = (1..items[c].fails) \cup {n} /\ n \notin 1..items[c].fails
    BY <1>1
  <2>3. \A j \in (s + 1)..(k - 1) : \A i :
          i \in 1..list[j].fails <=> i \in 1..items[j].fails \/ (j = c /\ i = n)
    BY <2>1, <2>2
  <2>4. Failures(list, s, k) = Failures(items, s, k) \cup {<<c, n>>}
    <3>1. \A p : p \in Failures(list, s, k)
                   <=> \E j \in (s + 1)..(k - 1) : \E i \in 1..list[j].fails : p = <<j, i>>
      BY DEF Failures
    <3>2. \A p : p \in Failures(items, s, k)
                   <=> \E j \in (s + 1)..(k - 1) : \E i \in 1..items[j].fails : p = <<j, i>>
      BY DEF Failures
    <3> QED
      BY <2>1, <2>3, <3>1, <3>2
  <2>5. <<c, n>> \notin Failures(items, s, k)
    BY <2>2 DEF Failures
  <2>6. IsFiniteSet(Failures(items, s, k)) /\ Cardinality(Failures(items, s, k)) \in Nat
    BY FailuresFinite
  <2>7. Cardinality(Failures(list, s, k)) = Cardinality(Failures(items, s, k)) + 1
    BY <2>4, <2>5, <2>6, FS_AddElement
  <2> QED
    BY <1>1, <1>3, <2>6, <2>7 DEF Owed
<1> QED
  BY <1>2, <1>3

LEMMA OwedStays ==
  ASSUME TypeOK, NEW s \in Nat, NEW list, DOMAIN list = DOMAIN items,
         \A k \in DOMAIN items : list[k].fails = items[k].fails,
         NEW k \in DOMAIN items
  PROVE  Owed(list, s, k) = Owed(items, s, k)
<1>1. DOMAIN items = 1..Len(items) /\ Len(items) \in Nat
  BY ItemsType
<1>2. (s + 1)..(k - 1) \subseteq DOMAIN items
  BY <1>1
<1>3. \A j \in (s + 1)..(k - 1) : {j} \X (1..list[j].fails) = {j} \X (1..items[j].fails)
  BY <1>2
<1>4. Failures(list, s, k) = Failures(items, s, k)
  BY <1>3 DEF Failures
<1> QED
  BY <1>4 DEF Owed

-----------------------------------------------------------------------------
(* A step on the details keeps what the listing pages said of an item.     *)
SameListing(x, y) ==
  x.name = y.name /\ x.page = y.page /\ x.image = y.image /\ x.months = y.months

LEMMA DetailStep ==
  ASSUME IInv, NEW c \in DOMAIN items, NEW x \in ItemOf(listing), SameListing(x, items[c]),
         items' = [items EXCEPT ![c] = x]
  PROVE  /\ items' \in Seq(ItemOf(listing)) /\ DOMAIN items' = DOMAIN items /\ items'[c] = x
         /\ \A k \in DOMAIN items : k # c => items'[k] = items[k]
         /\ \A k \in DOMAIN items : SameListing(items'[k], items[k])
<1>1. items \in Seq(ItemOf(listing)) /\ DOMAIN items = 1..Len(items)
  BY ItemsType DEF IInv
<1>2. /\ items' \in Seq(ItemOf(listing)) /\ DOMAIN items' = DOMAIN items /\ items'[c] = x
      /\ \A k \in DOMAIN items : k # c => items'[k] = items[k]
  BY <1>1
<1>3. \A k \in DOMAIN items : SameListing(items'[k], items[k])
  BY <1>2 DEF SameListing
<1> QED
  BY <1>2, <1>3

LEMMA ListingKept ==
  ASSUME IInv, phase # "listing", phase' # "listing",
         phase' \in {"detail", "done"} => phase = "detail",
         UNCHANGED <<scraper, listing, refetched, month, entry>>,
         DOMAIN items' = DOMAIN items,
         \A k \in DOMAIN items : SameListing(items'[k], items[k])
  PROVE  Distinct' /\ Seasonal' /\ AllHandled'
<1>1. AllHandled'
  BY DEF IInv, AllHandled, PageDone, Entries
<1>2. Distinct'
  BY DEF IInv, Distinct, KeysDiffer, PagesDiffer, Key, SameListing
<1>3. Handled' = Handled /\ \A p : At(p)' = At(p)
  BY DEF Handled, EntriesAt, At
<1>4. ASSUME NEW k \in DOMAIN items, NEW first, SeasonFrom(items[k], first)
      PROVE  SeasonFrom(items[k], first)'
  BY <1>3, <1>4 DEF SeasonFrom, SameListing, At, Before
<1>5. Seasonal'
  BY <1>3, <1>4 DEF IInv, Seasonal, SameListing
<1> QED
  BY <1>1, <1>2, <1>5

(* The counting of the loops that are due at an item.                      *)
LEMMA DueAfterNext ==
  ASSUME TypeOK, frames # <<>>, frames' = NextItem
  PROVE  /\ frames' \in Seq(Nat) /\ DOMAIN frames' = DOMAIN frames
         /\ frames'[Len(frames)] = Current + 1
         /\ \A f \in DOMAIN frames : f # Len(frames) => frames'[f] = frames[f]
BY FramesType DEF NextItem

LEMMA VisitDone ==
  ASSUME TypeOK, frames # <<>>, frames' = NextItem, NEW k \in Nat
  PROVE  Cardinality(Due(k)) = Cardinality(Due(k)') + IF k = Current THEN 1 ELSE 0
<1> DEFINE n == Len(frames)
<1>1. /\ DOMAIN frames' = DOMAIN frames /\ frames'[n] = Current + 1
      /\ \A f \in DOMAIN frames : f # n => frames'[f] = frames[f]
  BY DueAfterNext
<1>2. n \in DOMAIN frames /\ frames[n] = Current /\ Current \in Nat
  BY FramesType
<1>3. IsFiniteSet(Due(k)) /\ Cardinality(Due(k)) \in Nat
  BY DueFinite
<1>4. CASE k = Current
  <2>1. Due(k)' = Due(k) \ {n} /\ n \in Due(k)
    BY <1>1, <1>2, <1>4 DEF Due
  <2>2. Cardinality(Due(k)') = Cardinality(Due(k)) - 1
    BY <1>3, <2>1, FS_RemoveElement
  <2> QED
    BY <1>3, <1>4, <2>2
<1>5. CASE k # Current
  <2>1. Current + 1 <= k <=> Current <= k
    BY <1>2, <1>5
  <2>2. Due(k)' = Due(k)
    BY <1>1, <1>2, <2>1 DEF Due
  <2> QED
    BY <1>3, <1>5, <2>2
<1> QED
  BY <1>4, <1>5

LEMMA VisitDeferred ==
  ASSUME TypeOK, frames # <<>>, frames' = Append(NextItem, Current + 1), NEW k \in Nat
  PROVE  Cardinality(Due(k)) = Cardinality(Due(k)') + (IF k = Current THEN 1 ELSE 0)
                                 - (IF Current < k THEN 1 ELSE 0)
<1> DEFINE n == Len(frames)
           next == NextItem
<1>1. /\ next \in Seq(Nat) /\ DOMAIN next = DOMAIN frames /\ next[n] = Current + 1
      /\ \A f \in DOMAIN frames : f # n => next[f] = frames[f]
  BY FramesType DEF NextItem
<1>2. n \in DOMAIN frames /\ frames[n] = Current /\ Current \in Nat /\ n \in Nat \ {0}
      /\ DOMAIN frames = 1..n
  BY FramesType
<1>3. /\ DOMAIN frames' = DOMAIN frames \cup {n + 1} /\ frames'[n + 1] = Current + 1
      /\ \A f \in DOMAIN frames : frames'[f] = next[f]
      /\ n + 1 \notin DOMAIN frames
  <2> HIDE DEF next
  <2>1. Len(next) = n
    BY <1>1, <1>2
  <2>2. frames' = Append(next, Current + 1)
    BY DEF next
  <2> QED
    BY <1>1, <1>2, <2>1, <2>2
<1> HIDE DEF next
<1>4. IsFiniteSet(Due(k)) /\ Cardinality(Due(k)) \in Nat
  BY DueFinite
<1>5. CASE k = Current
  <2>1. Due(k)' = Due(k) \ {n} /\ n \in Due(k)
    BY <1>1, <1>2, <1>3, <1>5 DEF Due
  <2>2. Cardinality(Due(k)') = Cardinality(Due(k)) - 1
    BY <1>4, <2>1, FS_RemoveElement
  <2>3. ~(Current < k)
    BY <1>2, <1>5
  <2> QED
    BY <1>4, <1>5, <2>2, <2>3
<1>6. CASE k < Current
  <2>1. ~(Current + 1 <= k) /\ ~(Current <= k)
    BY <1>2, <1>6
  <2>2. Due(k)' = Due(k)
    BY <1>1, <1>2, <1>3, <2>1 DEF Due
  <2>3. k # Current /\ ~(Current < k)
    BY <1>2, <1>6
  <2> QED
    BY <1>4, <2>2, <2>3
<1>7. CASE Current < k
  <2>1. Current + 1 <= k /\ Current <= k
    BY <1>2, <1>7
  <2>2. Due(k)' = Due(k) \cup {n + 1} /\ n + 1 \notin Due(k)
    BY <1>1, <1>2, <1>3, <2>1 DEF Due
  <2>3. Cardinality(Due(k)') = Cardinality(Due(k)) + 1
    BY <1>4, <2>2, FS_AddElement
  <2>4. k # Current
    BY <1>2, <1>7
  <2> QED
    BY <1>4, <1>7, <2>3, <2>4
<1> QED
  BY <1>2, <1>5, <1>6, <1>7

-----------------------------------------------------------------------------
(* The index pages are sequences of entries.                               *)
LEMMA ListingType ==
  ASSUME TypeOK
  PROVE  /\ Len(listing) \in Nat /\ DOMAIN listing = 1..Len(listing)
         /\ \A m \in DOMAIN listing :
              Len(listing[m]) \in Nat /\ DOMAIN listing[m] = 1..Len(listing[m])
<1>1. listing \in Seq(ToSet(listing)) /\ \A m \in DOMAIN listing : listing[m] \in Seq(ToSet(listing[m]))
  BY RunOK DEF TypeOK
<1>2. \A m \in DOMAIN listing : Len(listing[m]) \in Nat /\ DOMAIN listing[m] = 1..Len(listing[m])
  <2> TAKE m \in DOMAIN listing
  <2> DEFINE l == listing[m]
  <2>1. l \in Seq(ToSet(l))
    BY <1>1
  <2> HIDE DEF l
  <2>2. Len(l) \in Nat /\ DOMAIN l = 1..Len(l)
    BY <2>1
  <2> QED
    BY <2>2 DEF l
<1> QED
  BY <1>1, <1>2

LEMMA EntriesAtAre ==
  \A p : p \in EntriesAt <=> \E m \in DOMAIN listing : \E i \in DOMAIN listing[m] : p = <<m, i>>
BY DEF EntriesAt

(* The entry that is read comes right after those handled.                 *)
LEMMA EntryRead ==
  ASSUME TypeOK, ~PageDone
  PROVE  /\ month \in DOMAIN listing /\ Entries = listing[month]
         /\ entry + 1 \in DOMAIN listing[month]
         /\ Entries[entry + 1] \in Offered(listing)
         /\ <<month, entry + 1>> \in EntriesAt /\ At(<<month, entry + 1>>) = Entries[entry + 1]
         /\ \A p \in Handled : /\ Before(p, <<month, entry + 1>>)
                               /\ ~Before(<<month, entry + 1>>, p)
<1>1. /\ Len(listing) \in Nat /\ DOMAIN listing = 1..Len(listing)
      /\ \A m \in DOMAIN listing : Len(listing[m]) \in Nat /\ DOMAIN listing[m] = 1..Len(listing[m])
  BY ListingType
<1>2. month \in 0..Len(listing) /\ entry \in 0..Len(Entries)
  BY DEF TypeOK
<1>3. month # 0
  <2> SUFFICES ASSUME month = 0 PROVE FALSE
    OBVIOUS
  <2>1. Len(Entries) = 0
    BY DEF Entries
  <2> QED
    BY <1>2, <2>1 DEF PageDone
<1>4. month \in DOMAIN listing /\ Entries = listing[month]
  BY <1>1, <1>2, <1>3 DEF Entries
<1>5. entry \in Nat /\ entry + 1 \in DOMAIN listing[month]
  <2>1. Len(Entries) \in Nat /\ entry # Len(Entries)
    BY <1>1, <1>4 DEF PageDone
  <2>2. entry + 1 \in 1..Len(Entries)
    BY <1>2, <2>1
  <2> QED
    BY <1>1, <1>2, <1>4, <2>1, <2>2
<1>6. <<month, entry + 1>> \in EntriesAt /\ At(<<month, entry + 1>>) = Entries[entry + 1]
  BY <1>4, <1>5, EntriesAtAre DEF At
<1>7. Entries[entry + 1] \in Offered(listing)
  BY <1>4, <1>5 DEF Offered, ToSet
<1>8. ASSUME NEW p \in Handled
      PROVE  Before(p, <<month, entry + 1>>) /\ ~Before(<<month, entry + 1>>, p)
  <2>1. PICK m \in DOMAIN listing, i \in Nat : p = <<m, i>> /\ (m < month \/ (m = month /\ i <= entry))
    <3>1. p \in EntriesAt /\ (p[1] < month \/ (p[1] = month /\ p[2] <= entry))
      BY DEF Handled
    <3>2. PICK m \in DOMAIN listing : \E i \in DOMAIN listing[m] : p = <<m, i>>
      BY <3>1, EntriesAtAre
    <3>3. PICK i \in DOMAIN listing[m] : p = <<m, i>>
      BY <3>2
    <3>4. i \in Nat
      BY <1>1
    <3> QED
      BY <3>1, <3>3, <3>4
  <2>2. m \in Nat /\ month \in Nat
    BY <1>1, <1>4
  <2> QED
    BY <1>5, <2>1, <2>2 DEF Before
<1> QED
  BY <1>4, <1>5, <1>6, <1>7, <1>8

LEMMA HandledOneMore ==
  ASSUME TypeOK, ~PageDone, month' = month, entry' = entry + 1, UNCHANGED listing
  PROVE  Handled' = Handled \cup {<<month, entry + 1>>}
<1>1. entry \in Nat /\ <<month, entry + 1>> \in EntriesAt
  <2>1. entry + 1 \in DOMAIN listing[month] /\ month \in DOMAIN listing
    BY EntryRead
  <2>2. Len(Entries) \in Nat
    BY <2>1, EntryRead, ListingType
  <2> QED
    BY <2>2, EntryRead DEF TypeOK
<1>2. EntriesAt' = EntriesAt
  BY DEF EntriesAt
<1>3. ASSUME NEW p \in EntriesAt
      PROVE  (p[1] < month \/ (p[1] = month /\ p[2] <= entry + 1))
              <=> (p[1] < month \/ (p[1] = month /\ p[2] <= entry)) \/ p = <<month, entry + 1>>
  <2>1. PICK m \in DOMAIN listing : \E i \in DOMAIN listing[m] : p = <<m, i>>
    BY EntriesAtAre
  <2>2. PICK i \in DOMAIN listing[m] : p = <<m, i>>
    BY <2>1
  <2>3. i \in Nat
    BY ListingType
  <2> QED
    BY <1>1, <2>2, <2>3
<1> QED
  BY <1>1, <1>2, <1>3 DEF Handled

(* A page that is fetched adds nothing before its entries are read.        *)
LEMMA HandledSame ==
  ASSUME TypeOK, PageDone, month < Len(listing), month' = month + 1, entry' = 0, UNCHANGED listing
  PROVE  Handled' = Handled
<1>1. EntriesAt' = EntriesAt
  BY DEF EntriesAt
<1>2. ASSUME NEW p \in EntriesAt
      PROVE  (p[1] < month + 1 \/ (p[1] = month + 1 /\ p[2] <= 0))
              <=> (p[1] < month \/ (p[1] = month /\ p[2] <= entry))
  <2>1. PICK m \in DOMAIN listing : \E i \in DOMAIN listing[m] : p = <<m, i>>
    BY EntriesAtAre
  <2>2. PICK i \in DOMAIN listing[m] : p = <<m, i>>
    BY <2>1
  <2>3. /\ m \in Nat \ {0} /\ i \in Nat \ {0} /\ month \in Nat
        /\ Len(listing[m]) \in Nat /\ i <= Len(listing[m])
    BY ListingType DEF TypeOK
  <2>4. m = month => entry = Len(listing[m])
    BY <2>3 DEF PageDone, Entries
  <2> QED
    BY <2>2, <2>3, <2>4
<1> QED
  BY <1>1, <1>2 DEF Handled

LEMMA AllAreHandled ==
  ASSUME TypeOK, PageDone, month = Len(listing)
  PROVE  Handled = EntriesAt
<1>1. ASSUME NEW p \in EntriesAt
      PROVE  p[1] < month \/ (p[1] = month /\ p[2] <= entry)
  <2>1. PICK m \in DOMAIN listing : \E i \in DOMAIN listing[m] : p = <<m, i>>
    BY EntriesAtAre
  <2>2. PICK i \in DOMAIN listing[m] : p = <<m, i>>
    BY <2>1
  <2>3. /\ m \in Nat \ {0} /\ i \in Nat \ {0} /\ month \in Nat /\ m <= month
        /\ Len(listing[m]) \in Nat /\ i <= Len(listing[m])
    BY ListingType
  <2>4. m = month => entry = Len(listing[m])
    BY <2>3 DEF PageDone, Entries
  <2> QED
    BY <2>2, <2>3, <2>4
<1> QED
  BY <1>1 DEF Handled

-----------------------------------------------------------------------------
(* An entry of another page leaves the season of an item alone.            *)
LEMMA SeasonStays ==
  ASSUME NEW x, NEW first, NEW q, SeasonFrom(x, first), UNCHANGED listing,
         Handled' \in {Handled, Handled \cup {q}}, At(q).page # x.page
  PROVE  SeasonFrom(x, first)'
<1>1. \A p : At(p)' = At(p)
  BY DEF At
<1> QED
  BY <1>1 DEF SeasonFrom

(* One of its own page adds the month.                                     *)
LEMMA SeasonGrows ==
  ASSUME NEW x, NEW y, NEW first, NEW m \in DOMAIN listing, NEW i, SeasonFrom(x, first), UNCHANGED listing,
         Handled' = Handled \cup {<<m, i>>}, At(<<m, i>>).page = x.page,
         \A p \in Handled : Before(p, <<m, i>>),
         y.page = x.page, y.months = x.months \cup {m}
  PROVE  SeasonFrom(y, first)'
<1> DEFINE q == <<m, i>>
<1>1. \A p : At(p)' = At(p)
  BY DEF At
<1>2. q[1] = m /\ Before(first, q) /\ first \in Handled'
  BY DEF SeasonFrom
<1> HIDE DEF q
<1>3. Handled' = Handled \cup {q} /\ At(q).page = x.page
  BY DEF q
<1>4. y.months = {k \in DOMAIN listing :
                    \E p \in Handled' : p[1] = k /\ At(p).page = x.page /\ Before(first, p)}
  BY <1>2, <1>3 DEF SeasonFrom
<1>5. \A p \in Handled' : At(p).page = y.page /\ At(p).image # Missing => Before(first, p)
  BY <1>2, <1>3 DEF SeasonFrom
<1> QED
  BY <1>1, <1>2, <1>4, <1>5 DEF SeasonFrom

LEMMA ItemType ==
  ASSUME NEW l, NEW e \in Offered(l), NEW months \in SUBSET (DOMAIN l)
  PROVE  /\ Item(e, months) \in ItemOf(l)
         /\ Item(e, months).name = e.name /\ Item(e, months).page = e.page
         /\ Item(e, months).months = months
         /\ Item(e, months).copies = 0 /\ Item(e, months).fails = 0
BY DEF Item, ItemOf

LEMMA ReadEntryKeeps == IInv /\ ReadEntry => IInv'
<1> SUFFICES ASSUME IInv, ReadEntry PROVE IInv'
  OBVIOUS
<1> DEFINE e == Entries[entry + 1]
           q == <<month, entry + 1>>
           same == {k \in DOMAIN items : scraper \in MergesPages /\ items[k].page = e.page}
           months == IF scraper \in MergesPages THEN {month} ELSE {}
<1>1. /\ phase = "listing" /\ ~PageDone /\ entry' = entry + 1
      /\ UNCHANGED <<scraper, listing, start, phase, refetched, month, frames, again, csv>>
      /\ items' = AddEntry(month, items, e)
  BY DEF ReadEntry, settings
<1>2. TypeOK
  BY DEF IInv
<1>3. /\ month \in DOMAIN listing /\ Entries = listing[month]
      /\ entry + 1 \in DOMAIN listing[month] /\ e \in Offered(listing)
      /\ q \in EntriesAt /\ At(q) = e
      /\ \A p \in Handled : Before(p, q) /\ ~Before(q, p)
  BY <1>1, <1>2, EntryRead
<1>4. Handled' = Handled \cup {q}
  BY <1>1, <1>2, HandledOneMore
<1>5. /\ items \in Seq(ItemOf(listing)) /\ Len(items) \in Nat /\ DOMAIN items = 1..Len(items)
      /\ \A k \in DOMAIN items : items[k] \in ItemOf(listing)
  BY <1>2, ItemsType
<1>6. month' \in 0..Len(listing') /\ entry' \in 0..Len(Entries') /\ Handled' = Handled \cup {q}
  <2>1. Entries' = Entries /\ Len(Entries) \in Nat /\ DOMAIN Entries = 1..Len(Entries)
    BY <1>1, <1>2, <1>3, ListingType DEF Entries
  <2>2. entry + 1 \in 0..Len(Entries)
    BY <1>3, <2>1
  <2> QED
    BY <1>1, <1>2, <1>4, <2>1, <2>2 DEF TypeOK
<1>7. AllHandled'
  BY <1>1 DEF AllHandled
<1>8. ASSUME items' \in Seq(ItemOf(listing)), Untouched',
             scraper \in MergesPages => PagesDiffer', Seasonal'
      PROVE  IInv'
  <2>1. TypeOK'
    BY <1>1, <1>2, <1>6, <1>8 DEF TypeOK
  <2>2. Ledger'
    BY <1>1, <1>8 DEF IInv, Ledger
  <2>3. Distinct'
    BY <1>1, <1>8 DEF Distinct
  <2> QED
    BY <1>7, <1>8, <2>1, <2>2, <2>3 DEF IInv
<1>9. Untouched /\ (scraper \in MergesPages => PagesDiffer)
  BY <1>1 DEF IInv, Ledger, Distinct
<1>10. \A p : At(p)' = At(p)
  BY <1>1 DEF At
<1>11. \/ items' = items /\ (e.page = Missing \/ (same = {} /\ e.image = Missing))
       \/ /\ e.page # Missing /\ same # {}
          /\ items' = [k \in DOMAIN items |->
                IF k = Min(same) THEN [items[k] EXCEPT !.months = @ \cup {month}] ELSE items[k]]
       \/ /\ e.page # Missing /\ same = {} /\ e.image # Missing
          /\ items' = Append(items, Item(e, months))
  BY <1>1 DEF AddEntry
<1> HIDE DEF e, q, months
<1>12. CASE items' = items /\ (e.page = Missing \/ (same = {} /\ e.image = Missing))
  <2>1. Untouched' /\ (scraper \in MergesPages => PagesDiffer')
    BY <1>1, <1>9, <1>12 DEF Untouched, PagesDiffer
  <2>2. Seasonal'
    <3> SUFFICES ASSUME scraper \in MergesPages PROVE Seasonal'
      BY <1>1 DEF Seasonal
    <3>1. \A k \in DOMAIN items : items[k].page # Missing /\ items[k].page # e.page
      BY <1>12 DEF IInv, Seasonal
    <3>2. ASSUME NEW k \in DOMAIN items
          PROVE  \E x : x = items'[k] /\ \E first \in Handled' : SeasonFrom(x, first)'
      <4>1. PICK first \in Handled : SeasonFrom(items[k], first)
        BY DEF IInv, Seasonal
      <4>2. PICK x : x = items[k]
        OBVIOUS
      <4>3. SeasonFrom(x, first)'
        BY <1>1, <1>3, <1>4, <3>1, <4>1, <4>2, SeasonStays
      <4> QED
        BY <1>4, <1>12, <4>2, <4>3
    <3>3. ~Whole(q)
      BY <1>3, <1>12 DEF Whole
    <3>4. \A p \in Handled' : Whole(p)' => \E k \in DOMAIN items : items[k].page = At(p).page
      BY <1>1, <1>4, <1>10, <3>3 DEF IInv, Seasonal, Whole
    <3> QED
      BY <1>1, <1>10, <1>12, <3>1, <3>2, <3>4 DEF Seasonal
  <2> QED
    BY <1>5, <1>8, <1>12, <2>1, <2>2
<1>13. CASE /\ e.page # Missing /\ same # {}
            /\ items' = [k \in DOMAIN items |->
                  IF k = Min(same) THEN [items[k] EXCEPT !.months = @ \cup {month}] ELSE items[k]]
  <2>1. scraper \in MergesPages /\ PagesDiffer
    BY <1>9, <1>13
  <2>2. PICK c \in DOMAIN items : items[c].page = e.page
    BY <1>13
  <2>3. same = {c}
    BY <2>1, <2>2 DEF PagesDiffer
  <2>4. Min(same) = c
    <3>1. \A x : x \in {c} /\ (\A y \in {c} : x <= y) <=> x = c
      BY <1>5
    <3> QED
      BY <2>3, <3>1 DEF Min
  <2> DEFINE y == [items[c] EXCEPT !.months = @ \cup {month}]
  <2>5. /\ DOMAIN items' = DOMAIN items /\ items'[c] = y
        /\ \A k \in DOMAIN items : k # c => items'[k] = items[k]
    BY <1>13, <2>4
  <2>6. /\ y \in ItemOf(listing) /\ y.page = items[c].page
        /\ y.months = items[c].months \cup {month}
        /\ y.copies = items[c].copies /\ y.fails = items[c].fails
    <3>1. items[c] \in ItemOf(listing)
      BY <1>5
    <3> QED
      BY <1>3, <3>1 DEF ItemOf
  <2>7. items' \in Seq(ItemOf(listing))
    <3>1. items' = [k \in 1..Len(items) |-> IF k = c THEN y ELSE items[k]]
      BY <1>5, <1>13, <2>4
    <3>2. \A k \in 1..Len(items) : (IF k = c THEN y ELSE items[k]) \in ItemOf(listing)
      BY <1>5, <2>6
    <3> HIDE DEF y
    <3> QED
      BY <1>5, <3>1, <3>2
  <2> HIDE DEF y
  <2>8. Untouched' /\ PagesDiffer'
    BY <1>1, <1>9, <2>1, <2>5, <2>6 DEF Untouched, PagesDiffer
  <2>9. ASSUME NEW k \in DOMAIN items
        PROVE  /\ items'[k].page = items[k].page
               /\ \E x : x = items'[k] /\ \E first \in Handled' : SeasonFrom(x, first)'
    <3>1. PICK first \in Handled : SeasonFrom(items[k], first)
      BY <2>1 DEF IInv, Seasonal
    <3>2. first \in Handled'
      BY <1>4
    <3>3. PICK x, z : x = items[k] /\ z = items'[k]
      OBVIOUS
    <3>4. CASE k = c
      <4>1. z.page = x.page /\ z.months = x.months \cup {month} /\ At(<<month, entry + 1>>).page = x.page
        BY <1>3, <2>2, <2>5, <2>6, <3>3, <3>4 DEF q
      <4>2. SeasonFrom(z, first)'
        BY <1>1, <1>3, <1>4, <3>1, <3>3, <4>1, SeasonGrows DEF q
      <4> QED
        BY <2>5, <2>6, <3>2, <3>3, <3>4, <4>2
    <3>5. CASE k # c
      <4>1. items'[k] = items[k] /\ items[k].page # e.page
        BY <2>1, <2>2, <2>5, <3>5 DEF PagesDiffer
      <4>2. SeasonFrom(x, first)'
        BY <1>1, <1>3, <1>4, <3>1, <3>3, <4>1, SeasonStays
      <4> QED
        BY <3>2, <3>3, <4>1, <4>2
    <3> QED
      BY <3>4, <3>5
  <2>10. Seasonal'
    <3>1. \A p \in Handled' : Whole(p)' => \E k \in DOMAIN items : items[k].page = At(p).page
      BY <1>1, <1>3, <1>4, <1>10, <2>1, <2>2 DEF IInv, Seasonal, Whole
    <3>2. \A k \in DOMAIN items : items[k].page # Missing
      BY <2>1 DEF IInv, Seasonal
    <3> QED
      BY <1>1, <1>10, <2>1, <2>5, <2>9, <3>1, <3>2 DEF Seasonal
  <2> QED
    BY <1>8, <2>7, <2>8, <2>10
<1>14. CASE /\ e.page # Missing /\ same = {} /\ e.image # Missing
            /\ items' = Append(items, Item(e, months))
  <2> DEFINE new == Item(e, months)
             n == Len(items) + 1
  <2>1. /\ new \in ItemOf(listing) /\ new.page = e.page /\ new.months = months
        /\ new.copies = 0 /\ new.fails = 0
    <3>1. months \in SUBSET (DOMAIN listing)
      BY <1>3 DEF months
    <3> QED
      BY <1>3, <3>1, ItemType
  <2>2. items' = Append(items, new)
    BY <1>14
  <2> HIDE DEF new
  <2>3. /\ items' \in Seq(ItemOf(listing)) /\ DOMAIN items' = DOMAIN items \cup {n} /\ items'[n] = new
        /\ \A k \in DOMAIN items : items'[k] = items[k] /\ k # n
    BY <1>5, <2>1, <2>2
  <2> HIDE DEF n
  <2>4. Untouched'
    BY <1>9, <2>1, <2>3 DEF Untouched
  <2>5. scraper \in MergesPages => PagesDiffer'
    <3>1. scraper \in MergesPages => \A k \in DOMAIN items : items[k].page # e.page
      BY <1>14
    <3> QED
      BY <1>9, <2>1, <2>3, <3>1 DEF PagesDiffer
  <2>6. Seasonal'
    <3> SUFFICES ASSUME scraper \in MergesPages PROVE Seasonal'
      BY <1>1 DEF Seasonal
    <3>1. \A k \in DOMAIN items : items[k].page # Missing /\ items[k].page # e.page
      BY <1>14 DEF IInv, Seasonal
    <3>2. \A p \in Handled : ~(At(p).page = e.page /\ At(p).image # Missing)
      BY <1>1, <1>14, <3>1 DEF IInv, Seasonal, Whole
    <3>3. ASSUME NEW k \in DOMAIN items
          PROVE  \E x : x = items'[k] /\ \E first \in Handled' : SeasonFrom(x, first)'
      <4>1. PICK first \in Handled : SeasonFrom(items[k], first)
        BY DEF IInv, Seasonal
      <4>2. PICK x : x = items[k]
        OBVIOUS
      <4>3. SeasonFrom(x, first)'
        BY <1>1, <1>3, <1>4, <3>1, <4>1, <4>2, SeasonStays
      <4> QED
        BY <1>4, <2>3, <4>2, <4>3
    <3>4. \E x : x = items'[n] /\ \E first \in Handled' : SeasonFrom(x, first)'
      <4>1. q[1] = month /\ Before(q, q)
        <5>1. month \in Nat /\ entry + 1 \in Nat
          BY <1>2, <1>3, ListingType
        <5> QED
          BY <5>1 DEF q, Before
      <4>2. months = {m \in DOMAIN listing :
                        \E p \in Handled' : p[1] = m /\ At(p).page = new.page /\ Before(q, p)}
        BY <1>3, <1>4, <2>1, <4>1 DEF months
      <4>3. \A p \in Handled' : At(p).page = new.page /\ At(p).image # Missing => Before(q, p)
        BY <1>4, <2>1, <3>2, <4>1
      <4>4. q \in Handled' /\ At(q).page = new.page /\ At(q).image # Missing
        BY <1>3, <1>4, <1>14, <2>1
      <4>5. PICK x, first : x = new /\ first = q
        OBVIOUS
      <4>6. SeasonFrom(x, first)'
        <5>1. /\ first \in Handled' /\ At(first).page = x.page /\ At(first).image # Missing
              /\ \A p \in Handled' : At(p).page = x.page /\ At(p).image # Missing => Before(first, p)
          BY <4>3, <4>4, <4>5
        <5>2. x.months = {m \in DOMAIN listing :
                            \E p \in Handled' : p[1] = m /\ At(p).page = x.page /\ Before(first, p)}
          BY <2>1, <4>2, <4>5
        <5> QED
          BY <1>1, <1>10, <5>1, <5>2 DEF SeasonFrom
      <4> QED
        BY <2>3, <4>4, <4>5, <4>6
    <3>5. \A k \in DOMAIN items' : /\ items'[k].page # Missing
                                 /\ \E x : x = items'[k] /\ \E first \in Handled' : SeasonFrom(x, first)'
      BY <1>14, <2>1, <2>3, <3>1, <3>3, <3>4
    <3>6. \A p \in Handled' : Whole(p)' => \E k \in DOMAIN items' : items'[k].page = At(p).page
      BY <1>1, <1>3, <1>4, <1>10, <2>1, <2>3 DEF IInv, Seasonal, Whole
    <3> QED
      BY <1>1, <1>10, <3>5, <3>6 DEF Seasonal
  <2> QED
    BY <1>8, <2>3, <2>4, <2>5, <2>6
<1> QED
  BY <1>11, <1>12, <1>13, <1>14

-----------------------------------------------------------------------------
LEMMA InitHolds == Init => IInv
<1> SUFFICES ASSUME Init PROVE IInv
  OBVIOUS
<1>1. /\ scraper \in AllScrapers /\ listing \in Listings /\ start \in Nat /\ phase = "listing"
      /\ refetched = FALSE /\ month = 0 /\ entry = 0 /\ items = <<>> /\ frames = <<>>
      /\ again = FALSE /\ csv = NoFile
  BY RunOK DEF Init
<1>2. Len(listing) \in Nat
  <2>1. listing \in Seq(ToSet(listing))
    BY <1>1, RunOK
  <2> QED
    BY <2>1
<1>3. TypeOK
  <2>1. items \in Seq(ItemOf(listing)) /\ frames \in Seq(Nat)
    BY <1>1
  <2>2. month \in 0..Len(listing)
    BY <1>1, <1>2
  <2>3. entry \in 0..Len(Entries)
    BY <1>1 DEF Entries
  <2>4. refetched \in BOOLEAN /\ again \in BOOLEAN
    BY <1>1
  <2>5. phase \in {"listing", "detail", "done", "aborted"}
    BY <1>1
  <2> QED
    BY <1>1, <2>1, <2>2, <2>3, <2>4, <2>5, Zenon DEF TypeOK
<1>4. DOMAIN items = {}
  BY <1>1
<1>5. Ledger /\ Distinct /\ AllHandled
  BY <1>1, <1>4 DEF Ledger, Untouched, Distinct, PagesDiffer, AllHandled
<1>6. Handled = {}
  <2>1. \A p \in EntriesAt : ~(p[1] < 0 \/ (p[1] = 0 /\ p[2] <= 0))
    BY <1>3, EntriesAtAre, ListingType
  <2> QED
    BY <1>1, <2>1 DEF Handled
<1>7. Seasonal
  BY <1>4, <1>6 DEF Seasonal
<1> QED
  BY <1>3, <1>5, <1>7 DEF IInv

(* Where the items stay, their seasons do, as long as the entries handled  *)
(* are the same.                                                           *)
LEMMA SeasonsKept ==
  ASSUME IInv, UNCHANGED <<scraper, listing, items>>, Handled' = Handled, phase' # "listing" \/ phase' = phase
  PROVE  Seasonal'
<1>1. \A p : At(p)' = At(p)
  BY DEF At
<1>2. \A x, first : SeasonFrom(x, first) => SeasonFrom(x, first)'
  BY <1>1 DEF SeasonFrom
<1>3. \A k \in DOMAIN items : scraper \in MergesPages =>
        \E x : x = items[k] /\ \E first \in Handled' : SeasonFrom(x, first)'
  BY <1>2 DEF IInv, Seasonal
<1> QED
  BY <1>1, <1>3 DEF IInv, Seasonal, Whole

LEMMA FetchIndexKeeps == IInv /\ FetchIndex => IInv'
<1> SUFFICES ASSUME IInv, FetchIndex PROVE IInv'
  OBVIOUS
<1>1. /\ phase = "listing" /\ PageDone /\ month < Len(listing) /\ month' = month + 1 /\ entry' = 0
      /\ UNCHANGED <<scraper, listing, start, phase, refetched, items, frames, again, csv>>
  BY DEF FetchIndex, settings
<1>2. TypeOK
  BY DEF IInv
<1>3. TypeOK'
  <2>1. Len(listing) \in Nat /\ month + 1 \in 0..Len(listing) /\ month + 1 # 0 /\ month + 1 \in DOMAIN listing
    BY <1>1, <1>2, ListingType DEF TypeOK
  <2>2. Len(listing[month + 1]) \in Nat
    BY <1>2, <2>1, ListingType
  <2>3. entry' \in 0..Len(Entries')
    BY <1>1, <2>1, <2>2 DEF Entries
  <2> QED
    BY <1>1, <1>2, <2>1, <2>3 DEF TypeOK
<1>4. Seasonal'
  BY <1>1, <1>2, HandledSame, SeasonsKept
<1>5. Ledger' /\ Distinct' /\ AllHandled'
  BY <1>1 DEF IInv, Ledger, Untouched, Distinct, PagesDiffer, AllHandled
<1> QED
  BY <1>3, <1>4, <1>5 DEF IInv

LEMMA FetchIndexFailsKeeps == IInv /\ FetchIndexFails => IInv'
<1> SUFFICES ASSUME IInv, FetchIndexFails PROVE IInv'
  OBVIOUS
<1>1. /\ phase = "listing" /\ PageDone /\ UNCHANGED <<scraper, listing, start, frames, again, csv>>
  BY DEF FetchIndexFails, settings
<1>2. TypeOK
  BY DEF IInv
<1>3. CASE phase' = "aborted" /\ UNCHANGED <<month, entry, items, refetched>>
  <2>1. TypeOK'
    BY <1>1, <1>2, <1>3 DEF TypeOK, Entries
  <2>2. Handled' = Handled
    BY <1>1, <1>3 DEF Handled, EntriesAt
  <2>3. Seasonal'
    BY <1>1, <1>3, <2>2, SeasonsKept
  <2>4. Ledger' /\ Distinct' /\ AllHandled'
    BY <1>1, <1>3 DEF IInv, Ledger, Distinct, PagesDiffer, AllHandled
  <2> QED
    BY <2>1, <2>3, <2>4 DEF IInv
<1>4. CASE refetched' = TRUE /\ month' = 0 /\ entry' = 0 /\ items' = <<>> /\ UNCHANGED phase
  <2>1. TypeOK'
    <3>1. items' \in Seq(ItemOf(listing))
      BY <1>4
    <3>2. month' \in 0..Len(listing) /\ Len(Entries') = 0
      BY <1>2, <1>4, ListingType DEF Entries
    <3>3. entry' \in 0..Len(Entries')
      BY <1>4, <3>2
    <3> QED
      BY <1>1, <1>2, <1>4, <3>1, <3>2, <3>3 DEF TypeOK
  <2>2. Handled' = {}
    <3>1. \A p \in EntriesAt : ~(p[1] < 0 \/ (p[1] = 0 /\ p[2] <= 0))
      BY <1>2, EntriesAtAre, ListingType
    <3>2. EntriesAt' = EntriesAt
      BY <1>1 DEF EntriesAt
    <3> QED
      BY <1>4, <3>1, <3>2 DEF Handled
  <2>3. DOMAIN items' = {}
    BY <1>4
  <2>4. Seasonal'
    BY <2>2, <2>3 DEF Seasonal
  <2>5. Ledger' /\ Distinct' /\ AllHandled'
    BY <1>1, <1>4, <2>3 DEF IInv, Ledger, Untouched, Distinct, PagesDiffer, AllHandled
  <2> QED
    BY <2>1, <2>4, <2>5 DEF IInv
<1> QED
  BY <1>3, <1>4 DEF FetchIndexFails

-----------------------------------------------------------------------------
(* What is left of the list is part of it.                                 *)
LEMMA ReducedKeeps ==
  ASSUME TypeOK
  PROVE  /\ Reduced(items) \in Seq(ItemOf(listing))
         /\ ~refetched => \A i, j \in DOMAIN Reduced(items) :
              i # j => Key(Reduced(items)[i]) # Key(Reduced(items)[j])
         /\ \E kept \in [DOMAIN Reduced(items) -> DOMAIN items] :
              /\ \A i \in DOMAIN Reduced(items) : Reduced(items)[i] = items[kept[i]]
              /\ \A i, j \in DOMAIN Reduced(items) : i # j => kept[i] # kept[j]
<1>1. items \in Seq(ItemOf(listing))
  BY DEF TypeOK
<1>2. CASE refetched
  <2>1. Reduced(items) = items
    BY <1>2 DEF Reduced
  <2> DEFINE kept == [i \in DOMAIN items |-> i]
  <2>2. /\ kept \in [DOMAIN items -> DOMAIN items]
        /\ \A i \in DOMAIN items : items[i] = items[kept[i]]
        /\ \A i, j \in DOMAIN items : i # j => kept[i] # kept[j]
    OBVIOUS
  <2> HIDE DEF kept
  <2> QED
    BY <1>1, <1>2, <2>1, <2>2
<1>3. CASE ~refetched
  <2>1. Reduced(items) = Uniq(items)
    BY <1>3 DEF Reduced
  <2> QED
    BY <1>1, <2>1, UniqKeeps
<1> QED
  BY <1>2, <1>3

LEMMA BeginDetailsKeeps == IInv /\ BeginDetails => IInv'
<1> SUFFICES ASSUME IInv, BeginDetails PROVE IInv'
  OBVIOUS
<1> DEFINE s == StartIndex(start)
<1>1. /\ phase = "listing" /\ PageDone /\ month = Len(listing) /\ items' = Reduced(items)
      /\ UNCHANGED <<scraper, listing, start, refetched, month, entry, again, csv>>
      /\ \/ phase' = "aborted" /\ frames' = frames
         \/ phase' = "detail" /\ frames' = <<s + 1>>
  BY DEF BeginDetails, settings
<1>2. TypeOK /\ s \in Nat /\ s' = s
  BY <1>1, StartType DEF IInv, StartIndex
<1>3. items' \in Seq(ItemOf(listing))
  BY <1>1, <1>2, ReducedKeeps
<1>4. PICK kept \in [DOMAIN items' -> DOMAIN items] :
        /\ \A i \in DOMAIN items' : items'[i] = items[kept[i]]
        /\ \A i, j \in DOMAIN items' : i # j => kept[i] # kept[j]
  BY <1>1, <1>2, ReducedKeeps
<1>5. TypeOK'
  <2>0. s + 1 \in Nat /\ frames \in Seq(Nat)
    BY <1>2 DEF TypeOK
  <2> HIDE DEF s
  <2>1. frames' \in Seq(Nat)
    <3>1. CASE frames' = frames
      BY <2>0, <3>1
    <3>2. CASE frames' = <<s + 1>>
      <4>1. \A n \in Nat : <<n>> \in Seq(Nat)
        OBVIOUS
      <4> QED
        BY <2>0, <3>2, <4>1
    <3> QED
      BY <1>1, <3>1, <3>2
  <2>2. Entries' = Entries
    BY <1>1 DEF Entries
  <2> QED
    BY <1>1, <1>2, <1>3, <2>1, <2>2 DEF TypeOK
<1>6. Untouched /\ frames = <<>> /\ csv = NoFile
  BY <1>1 DEF IInv, Ledger
<1>7. \A k \in DOMAIN items' : items'[k].copies = 0 /\ items'[k].fails = 0
  BY <1>4, <1>6 DEF Untouched
<1>8. phase' = "detail" => Balanced'
  <2> SUFFICES ASSUME phase' = "detail", NEW k \in DOMAIN items'
               PROVE  items'[k].copies + items'[k].fails + Cardinality(Due(k)')
                        = Owed(items', s, k)
    BY <1>1 DEF Balanced, StartIndex
  <2>0. items'[k].copies = 0 /\ items'[k].fails = 0
    BY <1>7
  <2>1. k \in Nat /\ DOMAIN items' = 1..Len(items')
    BY <1>3
  <2>2. frames' = <<s + 1>> /\ DOMAIN frames' = {1} /\ frames'[1] = s + 1
    BY <1>1
  <2>3. \A j \in (s + 1)..(k - 1) : {j} \X (1..items'[j].fails) = {}
    <3>1. (s + 1)..(k - 1) \subseteq DOMAIN items'
      BY <1>2, <2>1
    <3> QED
      BY <1>7, <3>1
  <2>4. Failures(items', s, k) = {}
    BY <2>3 DEF Failures
  <2>5. Cardinality(Failures(items', s, k)) = 0
    BY <2>4, FS_EmptySet
  <2>6. CASE k <= s
    <3>1. Due(k)' = {}
      BY <1>2, <2>1, <2>2, <2>6 DEF Due
    <3>2. Cardinality(Due(k)') = 0
      BY <3>1, FS_EmptySet
    <3>3. Owed(items', s, k) = 0
      BY <2>6 DEF Owed
    <3> QED
      BY <2>0, <3>2, <3>3
  <2>7. CASE ~(k <= s)
    <3>1. Due(k)' = {1}
      BY <1>2, <2>1, <2>2, <2>7 DEF Due
    <3>2. Cardinality(Due(k)') = 1
      BY <3>1, FS_Singleton
    <3>3. Owed(items', s, k) = 1
      BY <2>5, <2>7 DEF Owed
    <3> QED
      BY <2>0, <3>2, <3>3
  <2> QED
    BY <2>6, <2>7
<1>9. Ledger'
  <2>1. phase' = "detail" => \A f \in DOMAIN frames' : frames'[f] > s
    BY <1>1, <1>2
  <2> QED
    BY <1>1, <1>2, <1>6, <1>8, <2>1 DEF Ledger
<1>10. Distinct'
  <2>1. scraper \in MergesPages => PagesDiffer'
    BY <1>4 DEF IInv, Distinct, PagesDiffer
  <2>2. ~refetched => KeysDiffer'
    BY <1>1, <1>2, ReducedKeeps DEF KeysDiffer, Key
  <2> QED
    BY <1>1, <2>1, <2>2 DEF Distinct
<1>11. Seasonal'
  <2>1. \A p : At(p)' = At(p)
    BY <1>1 DEF At
  <2>2. Handled' = Handled
    BY <1>1 DEF Handled, EntriesAt
  <2>3. \A x, first : SeasonFrom(x, first) => SeasonFrom(x, first)'
    BY <1>1, <2>1, <2>2 DEF SeasonFrom
  <2>4. \A k \in DOMAIN items' : scraper \in MergesPages =>
          /\ items'[k].page # Missing
          /\ \E x : x = items'[k] /\ \E first \in Handled' : SeasonFrom(x, first)'
    BY <1>4, <2>2, <2>3 DEF IInv, Seasonal
  <2> QED
    BY <1>1, <2>4 DEF Seasonal
<1>12. AllHandled'
  BY <1>1 DEF AllHandled, PageDone, Entries
<1> QED
  BY <1>5, <1>9, <1>10, <1>11, <1>12 DEF IInv

-----------------------------------------------------------------------------
(* The item that is worked on.                                             *)
LEMMA WorkingOn ==
  ASSUME IInv, Working
  PROVE  /\ TypeOK /\ phase = "detail" /\ frames # <<>> /\ Current \in DOMAIN items
         /\ StartIndex(start) \in Nat /\ StartIndex(start) < Current
         /\ items[Current] \in ItemOf(listing)
<1>1. TypeOK /\ phase = "detail" /\ frames # <<>> /\ Current <= Len(items)
  BY DEF IInv, Working
<1>2. StartIndex(start) \in Nat /\ Current \in Nat /\ Current > StartIndex(start)
  BY <1>1, StartType, FramesType DEF IInv, Ledger
<1>3. Current \in DOMAIN items
  BY <1>1, <1>2, ItemsType
<1> QED
  BY <1>1, <1>2, <1>3, ItemsType

(* Types and the rest, for a step on the items that are in memory.         *)
LEMMA DetailKeeps ==
  ASSUME IInv, Working, NEW x \in ItemOf(listing), SameListing(x, items[Current]),
         items' = [items EXCEPT ![Current] = x], frames' \in Seq(Nat), again' \in BOOLEAN,
         phase' \in {"detail", "aborted"}, Ledger',
         UNCHANGED <<settings, refetched, month, entry>>
  PROVE  IInv'
<1>1. TypeOK /\ phase = "detail" /\ Current \in DOMAIN items
  BY WorkingOn
<1>2. UNCHANGED <<scraper, listing, start, refetched, month, entry>>
  BY DEF settings
<1>3. /\ items' \in Seq(ItemOf(listing)) /\ DOMAIN items' = DOMAIN items
      /\ \A k \in DOMAIN items : SameListing(items'[k], items[k])
  BY <1>1, DetailStep
<1>4. TypeOK'
  BY <1>1, <1>2, <1>3 DEF TypeOK, Entries
<1>5. Distinct' /\ Seasonal' /\ AllHandled'
  BY <1>1, <1>2, <1>3, ListingKept
<1> QED
  BY <1>4, <1>5 DEF IInv

LEMMA FetchDetailKeeps == IInv /\ FetchDetail => IInv'
<1> SUFFICES ASSUME IInv, FetchDetail PROVE IInv'
  OBVIOUS
<1> DEFINE c == Current
           x == Scraped(items[c])
           s == StartIndex(start)
<1>1. /\ Working /\ items' = [items EXCEPT ![c] = x] /\ frames' = NextItem /\ again' = FALSE
      /\ UNCHANGED <<settings, phase, refetched, month, entry, csv>>
  BY DEF FetchDetail
<1>2. /\ TypeOK /\ phase = "detail" /\ frames # <<>> /\ c \in DOMAIN items
      /\ s \in Nat /\ s < c /\ items[c] \in ItemOf(listing)
  BY <1>1, WorkingOn
<1>3. /\ x \in ItemOf(listing) /\ SameListing(x, items[c])
      /\ x.copies = items[c].copies + 1 /\ x.fails = items[c].fails
  <2>1. PICK y \in ItemOf(listing) : y = items[c]
    BY <1>2
  <2> DEFINE b == y.calendar \/ scraper \in ReadsCalendar
  <2>2. b \in BOOLEAN
    OBVIOUS
  <2>3. Scraped(y) = [y EXCEPT !.copies = y.copies + 1, !.calendar = b]
    BY DEF Scraped, ItemOf
  <2> HIDE DEF b
  <2>4. y.copies + 1 \in Nat
    BY DEF ItemOf
  <2>5. /\ Scraped(y) \in ItemOf(listing) /\ SameListing(Scraped(y), y)
        /\ Scraped(y).copies = y.copies + 1 /\ Scraped(y).fails = y.fails
    BY <2>2, <2>3, <2>4 DEF ItemOf, SameListing
  <2> QED
    BY <2>1, <2>5
<1> HIDE DEF x
<1>4. /\ DOMAIN items' = DOMAIN items /\ items'[c] = x
      /\ \A k \in DOMAIN items : k # c => items'[k] = items[k]
  BY <1>1, <1>2, <1>3, DetailStep
<1>5. frames' \in Seq(Nat) /\ DOMAIN frames' = DOMAIN frames /\ frames'[Len(frames)] = c + 1
      /\ \A f \in DOMAIN frames : f # Len(frames) => frames'[f] = frames[f]
  BY <1>1, <1>2, DueAfterNext
<1>6. Balanced'
  <2> SUFFICES ASSUME NEW k \in DOMAIN items
               PROVE  items'[k].copies + items'[k].fails + Cardinality(Due(k)') = Owed(items', s, k)
    BY <1>1, <1>4 DEF Balanced, StartIndex, settings
  <2>1. Owed(items', s, k) = Owed(items, s, k)
    BY <1>2, <1>3, <1>4, OwedStays
  <2>2. items[k].copies + items[k].fails + Cardinality(Due(k)) = Owed(items, s, k)
    BY <1>2 DEF IInv, Ledger, Balanced
  <2>3. k \in Nat /\ items[k].copies \in Nat /\ items[k].fails \in Nat /\ Cardinality(Due(k)) \in Nat
    BY <1>2, ItemsType, DueFinite
  <2>4. Cardinality(Due(k)) = Cardinality(Due(k)') + IF k = c THEN 1 ELSE 0
    BY <1>1, <1>2, <2>3, VisitDone
  <2>5. Cardinality(Due(k)') \in Int
    <3>1. DOMAIN frames' = 1..Len(frames') /\ Len(frames') \in Nat
      BY <1>5
    <3>2. IsFiniteSet(DOMAIN frames') /\ Due(k)' \in SUBSET DOMAIN frames'
      BY <3>1, FS_Interval DEF Due
    <3> QED
      BY <3>2, FS_Subset, FS_CardinalityType
  <2>6. CASE k = c
    <3>1. items'[k].copies = items[k].copies + 1 /\ items'[k].fails = items[k].fails
      BY <1>3, <1>4, <2>6
    <3> QED
      BY <2>1, <2>2, <2>3, <2>4, <2>5, <2>6, <3>1
  <2>7. CASE k # c
    <3>1. items'[k].copies = items[k].copies /\ items'[k].fails = items[k].fails
      BY <1>4, <2>7
    <3> QED
      BY <2>1, <2>2, <2>3, <2>4, <2>5, <2>7, <3>1
  <2> QED
    BY <2>6, <2>7
<1>7. Ledger'
  <2>1. \A f \in DOMAIN frames' : frames'[f] > s
    <3>1. \A f \in DOMAIN frames : frames[f] > s
      BY <1>2 DEF IInv, Ledger
    <3>2. c \in Nat /\ c + 1 > s
      BY <1>2, ItemsType
    <3> QED
      BY <1>5, <3>1, <3>2
  <2>2. csv' = NoFile
    BY <1>1, <1>2 DEF IInv, Ledger
  <2> QED
    BY <1>1, <1>2, <1>6, <2>1, <2>2 DEF Ledger, StartIndex, settings
<1> QED
  BY <1>1, <1>2, <1>3, <1>5, <1>7, DetailKeeps

(* What a failure may leave of an item.                                    *)
LEMMA DamagedType ==
  ASSUME NEW y \in ItemOf(listing), NEW x \in Damaged(y)
  PROVE  /\ x \in ItemOf(listing) /\ SameListing(x, y)
         /\ x.copies = y.copies /\ x.fails = y.fails
<1>1. x = y \/ x = [y EXCEPT !.calendar = TRUE]
  BY DEF Damaged
<1> QED
  BY <1>1 DEF ItemOf, SameListing

(* A failure that is not counted leaves the ledger as it was.              *)
LEMMA LedgerStays ==
  ASSUME IInv, phase \in {"detail", "done"}, DOMAIN items' = DOMAIN items,
         \A k \in DOMAIN items :
           items'[k].copies = items[k].copies /\ items'[k].fails = items[k].fails,
         \A k \in DOMAIN items : Cardinality(Due(k)') = Cardinality(Due(k)),
         UNCHANGED settings
  PROVE  Balanced'
<1> DEFINE s == StartIndex(start)
<1>1. TypeOK /\ s \in Nat /\ Balanced
  BY StartType DEF IInv, Ledger
<1> SUFFICES ASSUME NEW k \in DOMAIN items
             PROVE  items'[k].copies + items'[k].fails + Cardinality(Due(k)') = Owed(items', s, k)
  BY DEF Balanced, StartIndex, settings
<1>2. Owed(items', s, k) = Owed(items, s, k)
  BY <1>1, OwedStays
<1> QED
  BY <1>1, <1>2 DEF Balanced

LEMMA FailFirstKeeps == IInv /\ FailFirst => IInv'
<1> SUFFICES ASSUME IInv, FailFirst PROVE IInv'
  OBVIOUS
<1> DEFINE c == Current
<1>1. /\ Working /\ again' = TRUE
      /\ UNCHANGED <<settings, phase, refetched, month, entry, frames, csv>>
  BY DEF FailFirst
<1>2. PICK x \in Damaged(items[c]) : items' = [items EXCEPT ![c] = x]
  BY DEF FailFirst
<1>3. /\ TypeOK /\ phase = "detail" /\ c \in DOMAIN items /\ items[c] \in ItemOf(listing)
  BY <1>1, WorkingOn
<1>4. /\ x \in ItemOf(listing) /\ SameListing(x, items[c])
      /\ x.copies = items[c].copies /\ x.fails = items[c].fails
  BY <1>3, DamagedType
<1>5. /\ DOMAIN items' = DOMAIN items /\ items'[c] = x
      /\ \A k \in DOMAIN items : k # c => items'[k] = items[k]
  BY <1>2, <1>3, <1>4, DetailStep
<1>6. Balanced'
  <2>1. \A k \in DOMAIN items : Cardinality(Due(k)') = Cardinality(Due(k))
    BY <1>1 DEF Due
  <2>2. \A k \in DOMAIN items :
          items'[k].copies = items[k].copies /\ items'[k].fails = items[k].fails
    BY <1>4, <1>5
  <2> QED
    BY <1>1, <1>3, <1>5, <2>1, <2>2, LedgerStays
<1>7. Ledger'
  BY <1>1, <1>3, <1>6 DEF IInv, Ledger, StartIndex, settings
<1>8. frames' \in Seq(Nat)
  BY <1>1, <1>3 DEF TypeOK
<1> QED
  BY <1>1, <1>2, <1>3, <1>4, <1>7, <1>8, DetailKeeps

LEMMA FailAgainKeeps == IInv /\ FailAgain => IInv'
<1> SUFFICES ASSUME IInv, FailAgain PROVE IInv'
  OBVIOUS
<1> DEFINE c == Current
<1>1. /\ Working /\ phase' = "aborted"
      /\ UNCHANGED <<settings, refetched, month, entry, frames, again, csv>>
  BY DEF FailAgain
<1>2. PICK x \in Damaged(items[c]) : items' = [items EXCEPT ![c] = x]
  BY DEF FailAgain
<1>3. /\ TypeOK /\ phase = "detail" /\ c \in DOMAIN items /\ items[c] \in ItemOf(listing)
  BY <1>1, WorkingOn
<1>4. x \in ItemOf(listing) /\ SameListing(x, items[c])
  BY <1>3, DamagedType
<1>5. Ledger'
  BY <1>1, <1>3 DEF IInv, Ledger
<1>6. frames' \in Seq(Nat) /\ again' \in BOOLEAN
  BY <1>1, <1>3 DEF TypeOK
<1> QED
  BY <1>1, <1>2, <1>3, <1>4, <1>5, <1>6, DetailKeeps

LEMMA FailAndRecurseKeeps == IInv /\ FailAndRecurse => IInv'
<1> SUFFICES ASSUME IInv, FailAndRecurse PROVE IInv'
  OBVIOUS
<1> DEFINE c == Current
           s == StartIndex(start)
<1>1. /\ Working /\ frames' = Append(NextItem, c + 1)
      /\ UNCHANGED <<settings, phase, refetched, month, entry, again, csv>>
  BY DEF FailAndRecurse
<1>2. PICK y \in Damaged(items[c]) : items' = [items EXCEPT ![c] = [y EXCEPT !.fails = @ + 1]]
  BY DEF FailAndRecurse
<1>3. PICK x : x = [y EXCEPT !.fails = @ + 1]
  OBVIOUS
<1>4. /\ TypeOK /\ phase = "detail" /\ frames # <<>> /\ c \in DOMAIN items
      /\ s \in Nat /\ s < c /\ items[c] \in ItemOf(listing)
  BY <1>1, WorkingOn
<1>5. /\ x \in ItemOf(listing) /\ SameListing(x, items[c])
      /\ x.copies = items[c].copies /\ x.fails = items[c].fails + 1
  <2>1. /\ y \in ItemOf(listing) /\ SameListing(y, items[c])
        /\ y.copies = items[c].copies /\ y.fails = items[c].fails
    BY <1>4, DamagedType
  <2>2. /\ x \in ItemOf(listing) /\ SameListing(x, y)
        /\ x.copies = y.copies /\ x.fails = y.fails + 1
    BY <1>3, <2>1 DEF ItemOf, SameListing
  <2> QED
    BY <2>1, <2>2 DEF SameListing
<1>6. items' = [items EXCEPT ![c] = x]
  BY <1>2, <1>3
<1>7. /\ DOMAIN items' = DOMAIN items /\ items'[c] = x
      /\ \A k \in DOMAIN items : k # c => items'[k] = items[k]
  BY <1>4, <1>5, <1>6, DetailStep
<1>8. /\ frames' \in Seq(Nat) /\ \A f \in DOMAIN frames' : frames'[f] > s
  <2>1. \A f \in DOMAIN frames : frames[f] > s
    BY <1>4 DEF IInv, Ledger
  <2>2. /\ NextItem \in Seq(Nat) /\ DOMAIN NextItem = DOMAIN frames
        /\ NextItem[Len(frames)] = c + 1
        /\ \A f \in DOMAIN frames : f # Len(frames) => NextItem[f] = frames[f]
    BY <1>4, FramesType DEF NextItem
  <2>3. c \in Nat /\ c + 1 \in Nat /\ c + 1 > s
    BY <1>4, ItemsType
  <2>4. PICK next : next = NextItem
    OBVIOUS
  <2>5. \A f \in DOMAIN next : next[f] > s
    BY <2>1, <2>2, <2>3, <2>4
  <2>6. next \in Seq(Nat) /\ DOMAIN next = 1..Len(next) /\ Len(next) \in Nat
    BY <2>2, <2>4
  <2>7. /\ Append(next, c + 1) \in Seq(Nat)
        /\ \A f \in DOMAIN Append(next, c + 1) :
             Append(next, c + 1)[f] = IF f = Len(next) + 1 THEN c + 1 ELSE next[f]
        /\ DOMAIN Append(next, c + 1) = 1..(Len(next) + 1)
    BY <2>3, <2>6
  <2>8. frames' = Append(next, c + 1)
    BY <1>1, <2>4
  <2>9. ASSUME NEW f \in DOMAIN frames' PROVE frames'[f] > s
    <3>1. f = Len(next) + 1 \/ f \in DOMAIN next
      BY <2>6, <2>7, <2>8
    <3> HIDE DEF c, s
    <3> QED
      BY <2>3, <2>5, <2>6, <2>7, <2>8, <3>1
  <2> QED
    BY <2>7, <2>8, <2>9
<1>9. Balanced'
  <2> SUFFICES ASSUME NEW k \in DOMAIN items
               PROVE  items'[k].copies + items'[k].fails + Cardinality(Due(k)') = Owed(items', s, k)
    BY <1>1, <1>7 DEF Balanced, StartIndex, settings
  <2>1. Owed(items', s, k) = Owed(items, s, k) + IF c < k THEN 1 ELSE 0
    <3>1. items'[c].fails = items[c].fails + 1
      BY <1>5, <1>7
    <3> QED
      BY <1>4, <1>7, <3>1, OwedAfterFailure
  <2>2. items[k].copies + items[k].fails + Cardinality(Due(k)) = Owed(items, s, k)
    BY <1>4 DEF IInv, Ledger, Balanced
  <2>3. /\ k \in Nat /\ c \in Nat /\ items[k].copies \in Nat /\ items[k].fails \in Nat
        /\ Cardinality(Due(k)) \in Nat
    BY <1>4, ItemsType, DueFinite
  <2>4. Cardinality(Due(k)) = Cardinality(Due(k)') + (IF k = c THEN 1 ELSE 0)
                                - (IF c < k THEN 1 ELSE 0)
    BY <1>1, <1>4, <2>3, VisitDeferred
  <2>5. Cardinality(Due(k)') \in Nat
    <3>1. DOMAIN frames' = 1..Len(frames') /\ Len(frames') \in Nat
      BY <1>8
    <3>2. IsFiniteSet(DOMAIN frames') /\ Due(k)' \in SUBSET DOMAIN frames'
      BY <3>1, FS_Interval DEF Due
    <3> QED
      BY <3>2, FS_Subset, FS_CardinalityType
  <2>6. CASE k = c
    <3>1. items'[k].copies = items[k].copies /\ items'[k].fails = items[k].fails + 1
      BY <1>5, <1>7, <2>6
    <3>2. ~(c < k)
      BY <2>3, <2>6
    <3> QED
      BY <2>1, <2>2, <2>3, <2>4, <2>5, <2>6, <3>1, <3>2
  <2>7. CASE k # c
    <3>1. items'[k].copies = items[k].copies /\ items'[k].fails = items[k].fails
      BY <1>7, <2>7
    <3>2. CASE c < k
      BY <2>1, <2>2, <2>3, <2>4, <2>5, <2>7, <3>1, <3>2
    <3>3. CASE ~(c < k)
      BY <2>1, <2>2, <2>3, <2>4, <2>5, <2>7, <3>1, <3>3
    <3> QED
      BY <3>2, <3>3
  <2> QED
    BY <2>6, <2>7
<1>10. Ledger'
  <2>1. csv' = NoFile
    BY <1>1, <1>4 DEF IInv, Ledger
  <2> QED
    BY <1>1, <1>4, <1>8, <1>9, <2>1 DEF Ledger, StartIndex, settings
<1>11. again' \in BOOLEAN
  BY <1>1, <1>4 DEF TypeOK
<1> QED
  BY <1>1, <1>4, <1>5, <1>6, <1>8, <1>10, <1>11, DetailKeeps

-----------------------------------------------------------------------------
(* A loop that is past the last item was due at none.                      *)
LEMMA EndLoopKeeps == IInv /\ EndLoop => IInv'
<1> SUFFICES ASSUME IInv, EndLoop PROVE IInv'
  OBVIOUS
<1> DEFINE n == Len(frames)
<1>1. /\ phase = "detail" /\ frames # <<>> /\ Current > Len(items) /\ frames' = Front(frames)
      /\ UNCHANGED <<scraper, listing, start, phase, refetched, month, entry, items, again, csv>>
  BY DEF EndLoop, settings
<1>2. /\ TypeOK /\ frames \in Seq(Nat) /\ n \in Nat \ {0} /\ DOMAIN frames = 1..n
      /\ Current = frames[n] /\ Current \in Nat
  BY <1>1, FramesType DEF IInv
<1>3. /\ frames' \in Seq(Nat) /\ DOMAIN frames' = DOMAIN frames \ {n}
      /\ \A f \in DOMAIN frames' : frames'[f] = frames[f]
  <2>1. frames' = [f \in 1..(n - 1) |-> frames[f]]
    BY <1>1 DEF Front
  <2>2. n - 1 \in Nat /\ \A f \in 1..(n - 1) : frames[f] \in Nat
    BY <1>2
  <2>3. [f \in 1..(n - 1) |-> frames[f]] \in Seq(Nat)
    BY <2>2
  <2>4. DOMAIN frames' = 1..(n - 1) /\ 1..(n - 1) = (1..n) \ {n}
    BY <1>2, <2>1
  <2> QED
    BY <1>2, <2>1, <2>3, <2>4
<1>4. Balanced'
  <2>1. ASSUME NEW k \in DOMAIN items PROVE Due(k)' = Due(k)
    <3>1. k \in Nat /\ k <= Len(items) /\ Len(items) \in Nat
      BY <1>2, ItemsType
    <3>2. ~(frames[n] <= k)
      BY <1>1, <1>2, <3>1
    <3> QED
      BY <1>3, <3>2 DEF Due
  <2> QED
    BY <1>1, <2>1, LedgerStays DEF settings
<1>5. Ledger'
  <2>1. \A f \in DOMAIN frames' : frames'[f] > StartIndex(start)
    BY <1>1, <1>3 DEF IInv, Ledger
  <2> QED
    BY <1>1, <1>4, <2>1 DEF IInv, Ledger, StartIndex
<1>6. TypeOK'
  BY <1>1, <1>2, <1>3 DEF TypeOK, Entries
<1>7. Distinct' /\ Seasonal' /\ AllHandled'
  BY <1>1, ListingKept DEF SameListing
<1> QED
  BY <1>5, <1>6, <1>7 DEF IInv

LEMMA WriteCsvKeeps == IInv /\ WriteCsv => IInv'
<1> SUFFICES ASSUME IInv, WriteCsv PROVE IInv'
  OBVIOUS
<1>1. /\ phase = "detail" /\ frames = <<>> /\ phase' = "done"
      /\ csv' = [rows |-> items, start |-> StartIndex(start), refetched |-> refetched]
      /\ UNCHANGED <<scraper, listing, start, refetched, month, entry, items, frames, again>>
  BY DEF WriteCsv, settings
<1>2. Balanced'
  <2>1. \A k \in DOMAIN items : Due(k)' = Due(k)
    BY <1>1 DEF Due
  <2> QED
    BY <1>1, <2>1, LedgerStays DEF settings
<1>3. Ledger'
  BY <1>1, <1>2 DEF Ledger, StartIndex
<1>4. TypeOK'
  BY <1>1 DEF IInv, TypeOK, Entries
<1>5. Distinct' /\ Seasonal' /\ AllHandled'
  BY <1>1, ListingKept DEF SameListing
<1> QED
  BY <1>3, <1>4, <1>5 DEF IInv

LEMMA StutterKeeps == IInv /\ UNCHANGED vars => IInv'
<1> SUFFICES ASSUME IInv, UNCHANGED vars PROVE IInv'
  OBVIOUS
<1>1. UNCHANGED <<scraper, listing, start, phase, refetched, month, entry, items, frames,
                  again, csv>>
  BY DEF vars, settings
<1>2. TypeOK'
  BY <1>1 DEF IInv, TypeOK, Entries
<1>3. Ledger'
  BY <1>1 DEF IInv, Ledger, Untouched, Balanced, Due, StartIndex
<1>4. Distinct' /\ AllHandled'
  BY <1>1 DEF IInv, Distinct, KeysDiffer, PagesDiffer, Key, AllHandled, PageDone, Entries
<1>5. Seasonal'
  <2>1. Handled' = Handled /\ \A p : At(p)' = At(p)
    BY <1>1 DEF Handled, EntriesAt, At
  <2>2. \A x, first : SeasonFrom(x, first) => SeasonFrom(x, first)'
    BY <1>1, <2>1 DEF SeasonFrom
  <2> QED
    BY <1>1, <2>1, <2>2 DEF IInv, Seasonal, Whole
<1> QED
  BY <1>2, <1>3, <1>4, <1>5 DEF IInv

LEMMA NextHolds == IInv /\ [Next]_vars => IInv'
BY FetchIndexKeeps, ReadEntryKeeps, FetchIndexFailsKeeps, BeginDetailsKeeps, FetchDetailKeeps,
   FailFirstKeeps, FailAgainKeeps, FailAndRecurseKeeps, EndLoopKeeps, WriteCsvKeeps,
   StutterKeeps DEF Next

LEMMA Invariance == Spec => []IInv
BY InitHolds, NextHolds, PTL DEF Spec

-----------------------------------------------------------------------------
(* At every moment of the work on the detail pages, the visits an item has *)
(* had and those the loops under way will still pay it add up to one and   *)
(* one more per failure before it: the recursive rescue of the vegetable   *)
(* scraper loses no item and forgets none.                                 *)
THEOREM VisitsBalanced == Spec => []VisitLedger
<1>1. IInv => VisitLedger
  BY DEF IInv, Ledger, Balanced, Due, VisitLedger
<1> QED
  BY <1>1, Invariance, PTL

(* A CSV file is that of a run that came to its end: nothing is written    *)
(* while a loop is under way, nor after a run that was given up.           *)
THEOREM CsvComplete == Spec => []CsvIsComplete
<1>1. IInv => CsvIsComplete
  <2> SUFFICES ASSUME IInv, csv # NoFile, NEW k \in DOMAIN csv.rows
               PROVE  csv.rows[k].copies + csv.rows[k].fails = Owed(csv.rows, csv.start, k)
    BY DEF CsvIsComplete
  <2>1. /\ phase = "done" /\ frames = <<>> /\ Balanced /\ TypeOK
        /\ csv.rows = items /\ csv.start = StartIndex(start)
    BY DEF IInv, Ledger
  <2>2. Due(k) = {}
    BY <2>1 DEF Due
  <2>3. Cardinality(Due(k)) = 0
    BY <2>2, FS_EmptySet
  <2>4. items[k].copies \in Nat /\ items[k].fails \in Nat
    BY <2>1, ItemsType
  <2>5. items[k].copies + items[k].fails + Cardinality(Due(k)) = Owed(items, StartIndex(start), k)
    BY <2>1 DEF Balanced
  <2> QED
    BY <2>1, <2>3, <2>4, <2>5
<1> QED
  BY <1>1, Invariance, PTL

(* Unless the index pages were fetched twice, no two rows of a CSV file    *)
(* have one key; and no two rows of the fruits' have one page.             *)
THEOREM NoneTwice == Spec => []ListedOnce
<1>1. IInv => ListedOnce
  <2> SUFFICES ASSUME IInv, csv # NoFile PROVE ListedOnce
    BY DEF ListedOnce
  <2>1. phase = "done" /\ csv.rows = items /\ csv.refetched = refetched
    BY DEF IInv, Ledger
  <2> QED
    BY <2>1 DEF IInv, Distinct, KeysDiffer, PagesDiffer, ListedOnce
<1> QED
  BY <1>1, Invariance, PTL

(* The seasons of a fruit in the CSV file are the months whose index page  *)
(* lists its page from its first complete entry on: reading the entries    *)
(* one by one, merging and reducing them computes what the listing says.   *)
THEOREM SeasonsAreListed == Spec => []SeasonsFromListing
<1>1. IInv => SeasonsFromListing
  <2> SUFFICES ASSUME IInv, scraper \in MergesPages, csv # NoFile, NEW x \in ToSet(csv.rows)
               PROVE  \E first \in EntriesAt :
                        /\ At(first).page = x.page /\ At(first).image # Missing
                        /\ \A p \in EntriesAt : At(p).page = x.page /\ At(p).image # Missing
                                                  => Before(first, p)
                        /\ x.months = {m \in DOMAIN listing :
                                         \E p \in EntriesAt : p[1] = m /\ At(p).page = x.page
                                                                 /\ Before(first, p)}
    BY DEF SeasonsFromListing
  <2>1. phase = "done" /\ csv.rows = items /\ TypeOK
    BY DEF IInv, Ledger
  <2>2. Handled = EntriesAt
    BY <2>1, AllAreHandled DEF IInv, AllHandled
  <2>3. PICK k \in DOMAIN items : x = items[k]
    BY <2>1 DEF ToSet
  <2>4. PICK first \in Handled : SeasonFrom(x, first)
    BY <2>3 DEF IInv, Seasonal
  <2> QED
    BY <2>2, <2>4 DEF SeasonFrom
<1> QED
  BY <1>1, Invariance, PTL
=============================================================================
