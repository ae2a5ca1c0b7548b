------------------------- MODULE ArticlePagesProofs -------------------------
(***************************************************************************)
(* Proofs about ArticlePages, for any number of articles, sub-articles and *)
(* pages.  The three invariants are proved together: that an answer finds  *)
(* its article empty (ReadsMatchRows) is why it cannot put a sub-article   *)
(* there twice (SubsAtHome).                                               *)
(***************************************************************************)
EXTENDS ArticlePages, FiniteSetTheorems, TLAPS

ArticleObject == [doc : Articles, subs : Seq(Subs)]

TypeOK ==
  /\ published \in SUBSET Articles
  /\ stored \in [Articles -> SUBSET Subs]
  /\ \A a \in Articles : IsFiniteSet(stored[a])
  /\ page \in [Views -> {"new", "shown", "popped"}]
  /\ known \in [Views -> SUBSET Articles]
  /\ articles \in [Views -> Seq(ArticleObject)]
  /\ reads \in SUBSET [view : Views, row : Nat]
  /\ reload \in [Views -> BOOLEAN]
  /\ rows \in [Views -> Seq(Seq(Subs))]

-----------------------------------------------------------------------------
(* Any finite set of sub-documents can be put in the order of its keys:    *)
(* the rank of each, the number of keys up to its own, is a bijection.     *)
LEMMA SortedExists ==
  ASSUME NEW S \in SUBSET Subs, IsFiniteSet(S)
  PROVE  \E f \in [1..Cardinality(S) -> S] :
           \A i, j \in 1..Cardinality(S) : i < j => SubRank[f[i]] < SubRank[f[j]]
<1> DEFINE n == Cardinality(S)
           UpTo(s) == {t \in S : SubRank[t] <= SubRank[s]}
           rank == [s \in S |-> Cardinality(UpTo(s))]
<1>1. n \in Nat
  BY FS_CardinalityType
<1>2. \A s \in S : SubRank[s] \in Nat
  BY PagesOK
<1>3. ASSUME NEW s \in S PROVE rank[s] \in 1..n
  <2>1. UpTo(s) \in SUBSET S /\ s \in UpTo(s)
    BY <1>2
  <2>2. IsFiniteSet(UpTo(s)) /\ Cardinality(UpTo(s)) <= n
    BY <2>1, FS_Subset
  <2>3. Cardinality(UpTo(s)) \in Nat /\ Cardinality(UpTo(s)) # 0
    BY <2>1, <2>2, FS_CardinalityType, FS_EmptySet
  <2> QED
    BY <1>1, <2>2, <2>3
<1>4. ASSUME NEW s \in S, NEW t \in S, SubRank[s] < SubRank[t]
      PROVE  rank[s] < rank[t]
  <2>1. UpTo(s) \in SUBSET UpTo(t) /\ t \in UpTo(t) /\ t \notin UpTo(s)
    BY <1>2, <1>4
  <2>2. UpTo(t) \in SUBSET S
    OBVIOUS
  <2>3. IsFiniteSet(UpTo(t))
    BY <2>2, FS_Subset
  <2>4. Cardinality(UpTo(s)) <= Cardinality(UpTo(t)) /\ Cardinality(UpTo(s)) # Cardinality(UpTo(t))
    BY <2>1, <2>3, FS_Subset
  <2> QED
    BY <1>3, <2>4
<1>5. \A s, t \in S : rank[s] = rank[t] => s = t
  <2> SUFFICES ASSUME NEW s \in S, NEW t \in S, rank[s] = rank[t], s # t PROVE FALSE
    OBVIOUS
  <2>1. SubRank[s] < SubRank[t] \/ SubRank[t] < SubRank[s]
    BY <1>2, PagesOK
  <2> QED
    BY <1>3, <1>4, <2>1
<1>6. rank \in Injection(S, 1..n)
  BY <1>3, <1>5 DEF Injection, IsInjective
<1>7. IsFiniteSet(1..n) /\ Cardinality(1..n) = n
  BY <1>1, FS_Interval
<1>8. rank \in Surjection(S, 1..n)
  <2> HIDE DEF rank
  <2> QED
    BY <1>6, <1>7, FS_Injection
<1>9. \A i \in 1..n : \E s \in S : rank[s] = i
  BY <1>8 DEF Surjection
<1> DEFINE f == [i \in 1..n |-> CHOOSE s \in S : rank[s] = i]
<1>10. \A i \in 1..n : f[i] \in S /\ rank[f[i]] = i
  <2> HIDE DEF rank
  <2> QED
    BY <1>9
<1>11. ASSUME NEW i \in 1..n, NEW j \in 1..n, i < j PROVE SubRank[f[i]] < SubRank[f[j]]
  <2> HIDE DEF f, rank
  <2>1. f[i] \in S /\ f[j] \in S /\ rank[f[i]] = i /\ rank[f[j]] = j
    BY <1>10
  <2>2. ~(SubRank[f[j]] < SubRank[f[i]])
    BY <1>1, <1>4, <1>11, <2>1
  <2>3. f[i] # f[j]
    BY <1>1, <1>11, <2>1
  <2> QED
    BY <1>2, <2>1, <2>2, <2>3, PagesOK
<1>12. f \in [1..n -> S]
  BY <1>10
<1> QED
  BY <1>11, <1>12

(* What an answer appends: stored sub-documents, each once; and nothing    *)
(* when there are none.                                                    *)
LEMMA KeyOrder ==
  ASSUME NEW S \in SUBSET Subs, IsFiniteSet(S)
  PROVE  /\ InKeyOrder(S) \in Seq(S)
         /\ IsInjective(InKeyOrder(S))
         /\ S = {} => InKeyOrder(S) = <<>>
<1> DEFINE f == InKeyOrder(S)
           n == Cardinality(S)
<1>1. n \in Nat /\ (S = {} => n = 0)
  BY FS_CardinalityType, FS_EmptySet
<1>2. f \in [1..n -> S] /\ \A i, j \in 1..n : i < j => SubRank[f[i]] < SubRank[f[j]]
  BY SortedExists DEF InKeyOrder
<1>3. f \in Seq(S)
  BY <1>1, <1>2
<1>4. ASSUME NEW i \in 1..n, NEW j \in 1..n, f[i] = f[j] PROVE i = j
  <2>1. SubRank[f[i]] \in Nat
    BY <1>2, PagesOK
  <2> QED
    BY <1>1, <1>2, <1>4, <2>1
<1>5. S = {} => f = <<>>
  BY <1>1, <1>2
<1> QED
  BY <1>2, <1>3, <1>4, <1>5 DEF IsInjective

LEMMA ObjectParts ==
  ASSUME NEW q \in Seq(ArticleObject), NEW r \in DOMAIN q
  PROVE  /\ q[r] \in ArticleObject
         /\ q[r].doc \in Articles
         /\ q[r].subs \in Seq(Subs)
<1>1. q[r] \in ArticleObject
  OBVIOUS
<1> QED
  BY <1>1 DEF ArticleObject

-----------------------------------------------------------------------------
(* The inductive invariant: a page that is new has its first layout due.   *)
NewReloads == \A v \in Views : page[v] = "new" => reload[v]

IInv == NewReloads /\ RowsFresh /\ ReadsMatchRows /\ SubsAtHome

(* A new row, empty, is appended to one page and gets a read.              *)
LEMMA InsertKeeps ==
  ASSUME TypeOK, IInv, NEW v \in Views, NEW a \in Articles, ArticleAdded(v, a)
  PROVE  TypeOK' /\ IInv'
<1> DEFINE r == Len(articles[v]) + 1
<1> USE DEF TypeOK
<1>1. /\ known' = [known EXCEPT ![v] = @ \cup {a}]
      /\ reload' = [reload EXCEPT ![v] = TRUE]
      /\ UNCHANGED <<published, writes, stored, page, reader, rows>>
  BY DEF ArticleAdded, backendVars, pageVars
<1>2. RowsFresh' /\ NewReloads'
  <2>1. \A w \in Views : w # v => articles'[w] = articles[w]
    BY DEF ArticleAdded, insertNewArticle
  <2>2. \A w \in Views : w # v => Texts(w)' = Texts(w)
    BY <2>1 DEF Texts
  <2> QED
    BY <1>1, <2>2 DEF IInv, RowsFresh, NewReloads
<1>3. CASE a \in Untitled
  <2>1. UNCHANGED <<articles, reads>>
    BY <1>3 DEF ArticleAdded, insertNewArticle
  <2>2. ReadsMatchRows' /\ SubsAtHome'
    <3>1. \A w \in Views : known'[w] \ Untitled \subseteq known[w] \ Untitled
      BY <1>1, <1>3
    <3>2. stored' = stored
      BY <1>1
    <3> QED
      BY <2>1, <3>1, <3>2 DEF IInv, ReadsMatchRows, SubsAtHome
  <2> QED
    BY <1>1, <1>2, <2>1, <2>2 DEF IInv
<1>4. CASE a \notin Untitled
  <2> DEFINE new == [doc |-> a, subs |-> <<>>]
  <2>1. /\ articles' = [articles EXCEPT ![v] = Append(@, new)]
        /\ reads' = reads \cup {[view |-> v, row |-> r]}
    BY <1>4 DEF ArticleAdded, insertNewArticle
  <2>2. /\ articles'[v] = Append(articles[v], new)
        /\ \A w \in Views : w # v => articles'[w] = articles[w]
    BY <2>1
  <2>3. new \in ArticleObject
    BY DEF ArticleObject
  <2>4. /\ r \in Nat
        /\ DOMAIN articles'[v] = DOMAIN articles[v] \cup {r}
        /\ \A q \in DOMAIN articles[v] : articles'[v][q] = articles[v][q]
        /\ articles'[v][r] = new
    <3>1. Len(articles[v]) \in Nat /\ DOMAIN articles[v] = 1..Len(articles[v])
      OBVIOUS
    <3> HIDE DEF new
    <3> QED
      BY <3>1, <2>2, <2>3
  <2>5. TypeOK'
    <3>1. articles' \in [Views -> Seq(ArticleObject)]
      <4>1. Append(articles[v], new) \in Seq(ArticleObject)
        BY <2>3
      <4> HIDE DEF new
      <4> QED
        BY <2>1, <4>1
    <3>2. reads' \in SUBSET [view : Views, row : Nat]
      BY <2>1, <2>4
    <3> QED
      BY <1>1, <3>1, <3>2
  <2>6. ReadsMatchRows'
    <3>1. ASSUME NEW rd \in reads'
          PROVE  rd.row \in DOMAIN articles'[rd.view] /\ articles'[rd.view][rd.row].subs = <<>>
      <4>1. CASE rd \in reads
        <5>1. /\ rd.view \in Views /\ rd.row \in DOMAIN articles[rd.view]
              /\ articles[rd.view][rd.row].subs = <<>>
          BY <4>1 DEF IInv, ReadsMatchRows
        <5>2. CASE rd.view = v
          <6> HIDE DEF new, r
          <6> QED
            BY <5>1, <5>2, <2>4
        <5>3. CASE rd.view # v
          BY <5>1, <5>3, <2>2
        <5> QED
          BY <5>2, <5>3
      <4>2. CASE rd = [view |-> v, row |-> r]
        BY <4>2, <2>4
      <4> QED
        BY <2>1, <4>1, <4>2
    <3>2. ASSUME NEW w \in Views, NEW b \in known'[w] \ Untitled
          PROVE  \E q \in DOMAIN articles'[w] : articles'[w][q].doc = b
      <4>1. CASE b \in known[w]
        <5>1. PICK q \in DOMAIN articles[w] : articles[w][q].doc = b
          BY <4>1 DEF IInv, ReadsMatchRows
        <5>2. q \in DOMAIN articles'[w] /\ articles'[w][q] = articles[w][q]
          <6>1. CASE w = v
            BY <2>4, <5>1, <6>1
          <6>2. CASE w # v
            BY <2>2, <5>1, <6>2
          <6> QED
            BY <6>1, <6>2
        <5> QED
          BY <5>1, <5>2
      <4>2. CASE w = v /\ b = a
        <5>1. r \in DOMAIN articles'[w] /\ articles'[w][r].doc = b
          <6> HIDE DEF r
          <6> QED
            BY <4>2, <2>4
        <5> QED
          BY <5>1
      <4> QED
        BY <1>1, <4>1, <4>2
    <3> QED
      BY <3>1, <3>2 DEF ReadsMatchRows
  <2>7. SubsAtHome'
    <3> SUFFICES ASSUME NEW w \in Views, NEW q \in DOMAIN articles'[w]
                 PROVE  /\ ToSet(articles'[w][q].subs) \subseteq stored[articles'[w][q].doc]
                        /\ IsInjective(articles'[w][q].subs)
      BY <1>1 DEF SubsAtHome
    <3>1. CASE w = v /\ q = r
      BY <3>1, <2>4 DEF ToSet, IsInjective
    <3>2. CASE q \in DOMAIN articles[w] /\ articles'[w][q] = articles[w][q]
      BY <3>2 DEF IInv, SubsAtHome
    <3>3. CASE w # v
      BY <3>2, <3>3, <2>2
    <3>4. CASE w = v /\ q # r
      <4> HIDE DEF r, new
      <4> QED
        BY <3>2, <3>4, <2>4
    <3> QED
      BY <3>1, <3>3, <3>4
  <2> QED
    BY <1>2, <2>5, <2>6, <2>7 DEF IInv
<1> QED
  BY <1>3, <1>4

(* An answer fills the empty row it was asked for, and no other.           *)
LEMMA AnswerKeeps ==
  ASSUME TypeOK, IInv, NEW v \in Views, NEW r \in DOMAIN articles[v], AnswerRead(v, r)
  PROVE  TypeOK' /\ IInv'
<1> USE DEF TypeOK
<1> DEFINE d == articles[v][r].doc
<1>1. d \in Articles /\ articles[v][r] \in ArticleObject
  <2>1. articles[v] \in Seq(ArticleObject)
    OBVIOUS
  <2> QED
    BY <2>1, ObjectParts
<1>2. PICK S \in SUBSET stored[d] : SubsAnswer(v, r, S)
  BY DEF AnswerRead, Answers
<1>3. S \in SUBSET Subs /\ IsFiniteSet(S)
  BY <1>1, <1>2, FS_Subset
<1> DEFINE subs == InKeyOrder(S)
<1>4. subs \in Seq(S) /\ subs \in Seq(Subs) /\ IsInjective(subs) /\ (S = {} => subs = <<>>)
  BY <1>3, KeyOrder
<1>5. [view |-> v, row |-> r] \in reads /\ articles[v][r].subs = <<>>
  BY <1>2 DEF SubsAnswer, IInv, ReadsMatchRows
<1>6. /\ reads' = reads \ {[view |-> v, row |-> r]}
      /\ articles' = [articles EXCEPT ![v][r].subs = <<>> \o subs]
      /\ reload' = [reload EXCEPT ![v] = @ \/ S # {}]
      /\ UNCHANGED <<published, writes, stored, page, reader, known, rows>>
  BY <1>2, <1>5 DEF SubsAnswer, backendVars, pageVars
<1>7. <<>> \o subs = subs
  BY <1>4
<1>8. /\ articles'[v] = [articles[v] EXCEPT ![r].subs = subs]
      /\ \A w \in Views : w # v => articles'[w] = articles[w]
  <2> HIDE DEF subs
  <2> QED
    BY <1>6, <1>7
<1>9. /\ DOMAIN articles'[v] = DOMAIN articles[v]
      /\ \A q \in DOMAIN articles[v] : q # r => articles'[v][q] = articles[v][q]
      /\ articles'[v][r].doc = d
      /\ articles'[v][r].subs = subs
  <2> HIDE DEF subs
  <2> QED
    BY <1>1, <1>8
<1>10. TypeOK'
  <2>1. [articles[v][r] EXCEPT !.subs = subs] \in ArticleObject
    BY <1>1, <1>4 DEF ArticleObject
  <2>2. articles'[v] = [articles[v] EXCEPT ![r] = [articles[v][r] EXCEPT !.subs = subs]]
    <3> HIDE DEF subs
    <3> QED
      BY <1>8
  <2>4. articles'[v] \in Seq(ArticleObject)
    <3> DEFINE o == [articles[v][r] EXCEPT !.subs = subs]
    <3>1. /\ articles[v] \in [1..Len(articles[v]) -> ArticleObject]
          /\ Len(articles[v]) \in Nat
          /\ o \in ArticleObject /\ articles'[v] = [articles[v] EXCEPT ![r] = o]
      BY <2>1, <2>2
    <3> HIDE DEF o
    <3>2. articles'[v] \in [1..Len(articles[v]) -> ArticleObject]
      BY <3>1
    <3> QED
      BY <3>1, <3>2
  <2>3. articles' \in [Views -> Seq(ArticleObject)]
    <3> HIDE DEF subs
    <3> QED
      BY <1>6, <1>8, <2>4
  <2> QED
    BY <1>6, <2>3
<1>11. NewReloads' /\ RowsFresh'
  <2>1. \A w \in Views : w # v => Texts(w)' = Texts(w)
    BY <1>8 DEF Texts
  <2>2. S = {} => Texts(v)' = Texts(v)
    <3> SUFFICES ASSUME S = {} PROVE Texts(v)' = Texts(v)
      OBVIOUS
    <3>1. \A q \in DOMAIN articles[v] : articles'[v][q].subs = articles[v][q].subs
      <4> HIDE DEF subs
      <4> QED
        BY <1>4, <1>5, <1>9
    <3> QED
      BY <1>9, <3>1 DEF Texts
  <2> QED
    BY <1>6, <2>1, <2>2 DEF IInv, NewReloads, RowsFresh
<1>12. ReadsMatchRows'
  <2>1. ASSUME NEW rd \in reads'
        PROVE  rd.row \in DOMAIN articles'[rd.view] /\ articles'[rd.view][rd.row].subs = <<>>
    <3>1. rd \in reads /\ rd.view \in Views /\ ~(rd.view = v /\ rd.row = r)
      BY <1>6
    <3> QED
      BY <1>8, <1>9, <3>1 DEF IInv, ReadsMatchRows
  <2>2. ASSUME NEW w \in Views, NEW b \in known'[w] \ Untitled
        PROVE  \E q \in DOMAIN articles'[w] : articles'[w][q].doc = b
    <3>1. PICK q \in DOMAIN articles[w] : articles[w][q].doc = b
      BY <1>6 DEF IInv, ReadsMatchRows
    <3>2. q \in DOMAIN articles'[w] /\ articles'[w][q].doc = b
      BY <1>8, <1>9, <3>1
    <3> QED
      BY <3>2
  <2> QED
    BY <2>1, <2>2 DEF ReadsMatchRows
<1>13. SubsAtHome'
  <2> SUFFICES ASSUME NEW w \in Views, NEW q \in DOMAIN articles'[w]
               PROVE  /\ ToSet(articles'[w][q].subs) \subseteq stored[articles'[w][q].doc]
                      /\ IsInjective(articles'[w][q].subs)
    BY <1>6 DEF SubsAtHome
  <2>1. CASE w = v /\ q = r
    <3>1. ToSet(subs) \subseteq S
      BY <1>4 DEF ToSet
    <3> HIDE DEF subs
    <3> QED
      BY <2>1, <1>4, <1>9, <3>1
  <2>2. CASE q \in DOMAIN articles[w] /\ articles'[w][q] = articles[w][q]
    BY <2>2 DEF IInv, SubsAtHome
  <2> QED
    BY <1>8, <1>9, <2>1, <2>2
<1> QED
  BY <1>10, <1>11, <1>12, <1>13 DEF IInv

(* A sub-document stored later takes nothing away from what is listed.     *)
LEMMA StoreKeeps ==
  ASSUME TypeOK, IInv, NEW a \in Articles, NEW s \in Subs, StoreSub(a, s)
  PROVE  TypeOK' /\ IInv'
<1> USE DEF TypeOK
<1>1. /\ stored' = [stored EXCEPT ![a] = @ \cup {s}]
      /\ UNCHANGED <<published, writes, page, reader, known, articles, reads, reload, rows>>
  BY DEF StoreSub, pageVars
<1>2. /\ stored' \in [Articles -> SUBSET Subs]
      /\ \A b \in Articles : stored[b] \subseteq stored'[b]
  BY <1>1
<1>3. \A b \in Articles : IsFiniteSet(stored'[b])
  <2>1. IsFiniteSet(stored[a] \cup {s})
    BY FS_AddElement
  <2> QED
    BY <1>1, <2>1
<1>4. TypeOK'
  BY <1>1, <1>2, <1>3
<1>5. NewReloads' /\ RowsFresh' /\ ReadsMatchRows'
  BY <1>1 DEF IInv, NewReloads, RowsFresh, ReadsMatchRows, Texts
<1>6. SubsAtHome'
  <2> SUFFICES ASSUME NEW v \in Views, NEW r \in DOMAIN articles[v]
               PROVE  /\ ToSet(articles[v][r].subs) \subseteq stored'[articles[v][r].doc]
                      /\ IsInjective(articles[v][r].subs)
    BY <1>1 DEF SubsAtHome
  <2>1. articles[v] \in Seq(ArticleObject)
    OBVIOUS
  <2>2. articles[v][r].doc \in Articles
    BY <2>1, ObjectParts
  <2> QED
    BY <1>2, <2>2 DEF IInv, SubsAtHome
<1> QED
  BY <1>4, <1>5, <1>6 DEF IInv

(* The backend's other writes, and the changes the handler ignores.        *)
LEMMA WritesKeep ==
  ASSUME TypeOK, IInv, NEW a \in Articles,
         Publish(a) \/ Retract(a)
  PROVE  TypeOK' /\ IInv'
<1>1. /\ published' \in SUBSET Articles
      /\ UNCHANGED <<stored, page, reader, known, articles, reads, reload, rows>>
  BY DEF TypeOK, Publish, Retract, pageVars
<1>2. TypeOK'
  BY <1>1 DEF TypeOK
<1>3. IInv'
  BY <1>1 DEF IInv, NewReloads, RowsFresh, ReadsMatchRows, SubsAtHome, Texts
<1> QED
  BY <1>2, <1>3

LEMMA IgnoredChangesKeep ==
  ASSUME TypeOK, IInv, NEW v \in Views, NEW a \in Articles,
         ArticleRemoved(v, a) \/ ArticleModified(v, a)
  PROVE  TypeOK' /\ IInv'
<1>1. /\ known' \in [Views -> SUBSET Articles]
      /\ \A w \in Views : known'[w] \subseteq known[w]
      /\ reload' = [reload EXCEPT ![v] = TRUE]
      /\ UNCHANGED <<published, stored, page, articles, reads, rows>>
  BY DEF TypeOK, ArticleRemoved, ArticleModified, backendVars, pageVars
<1>2. TypeOK'
  BY <1>1 DEF TypeOK
<1>3. NewReloads' /\ RowsFresh'
  BY <1>1 DEF TypeOK, IInv, NewReloads, RowsFresh, Texts
<1>4. ReadsMatchRows' /\ SubsAtHome'
  BY <1>1 DEF IInv, ReadsMatchRows, SubsAtHome
<1> QED
  BY <1>2, <1>3, <1>4 DEF IInv

(* What leaves the pages' state alone keeps what is said of it.            *)
LEMMA QuietKeeps ==
  ASSUME TypeOK, IInv,
         UNCHANGED <<published, stored, page, known, articles, reads, reload, rows>>
  PROVE  TypeOK' /\ IInv'
<1>1. TypeOK'
  BY DEF TypeOK
<1>2. NewReloads' /\ RowsFresh'
  BY DEF IInv, NewReloads, RowsFresh, Texts
<1>3. ReadsMatchRows'
  BY DEF IInv, ReadsMatchRows
<1>4. SubsAtHome'
  BY DEF IInv, SubsAtHome
<1> QED
  BY <1>1, <1>2, <1>3, <1>4 DEF IInv

(* The steps of the pages themselves: a layout makes the rows fresh, and a *)
(* page that comes up has one ahead.                                       *)
LEMMA PageStepsKeep ==
  ASSUME TypeOK, IInv, NEW v \in Views,
         \/ Push(v) \/ LayOut(v) \/ Pop(v)
         \/ \E r \in DOMAIN rows[v] : readMoreButtonDidTapped(v, r)
         \/ CloseReader
  PROVE  TypeOK' /\ IInv'
<1> USE DEF TypeOK
<1>1. UNCHANGED <<published, stored, known, articles, reads>>
  BY DEF Push, LayOut, Pop, readMoreButtonDidTapped, CloseReader, backendVars, pageVars
<1>2. ReadsMatchRows' /\ SubsAtHome'
  BY <1>1 DEF IInv, ReadsMatchRows, SubsAtHome
<1>3. \A w \in Views : Texts(w)' = Texts(w)
  BY <1>1 DEF Texts
<1>4. CASE Push(v) \/ Pop(v)
  <2>1. \/ page' = [page EXCEPT ![v] = "shown"] /\ page[v] = "new"
        \/ page' = [page EXCEPT ![v] = "popped"]
    BY <1>4 DEF Push, Pop
  <2>2. UNCHANGED <<reload, rows>>
    BY <1>4 DEF Push, Pop
  <2>3. NewReloads' /\ RowsFresh'
    BY <1>3, <2>1, <2>2 DEF IInv, NewReloads, RowsFresh
  <2>4. page' \in [Views -> {"new", "shown", "popped"}]
    BY <2>1
  <2> QED
    BY <1>1, <1>2, <2>2, <2>3, <2>4 DEF IInv
<1>5. CASE LayOut(v)
  <2>1. /\ page[v] = "shown" /\ page' = page
        /\ reload' = [reload EXCEPT ![v] = FALSE]
        /\ rows' = [rows EXCEPT ![v] = Texts(v)]
    BY <1>5 DEF LayOut, pageVars
  <2>2. Texts(v) \in Seq(Seq(Subs))
    <3>1. /\ articles[v] \in Seq(ArticleObject)
          /\ Len(articles[v]) \in Nat /\ DOMAIN articles[v] = 1..Len(articles[v])
      OBVIOUS
    <3>2. \A r \in DOMAIN articles[v] : articles[v][r].subs \in Seq(Subs)
      BY <3>1, ObjectParts
    <3>3. Texts(v) \in [1..Len(articles[v]) -> Seq(Subs)]
      BY <3>1, <3>2 DEF Texts
    <3> HIDE DEF TypeOK
    <3> QED
      BY <3>1, <3>3
  <2>3. rows' \in [Views -> Seq(Seq(Subs))]
    BY <2>1, <2>2
  <2>4. NewReloads' /\ RowsFresh'
    BY <1>3, <2>1 DEF IInv, NewReloads, RowsFresh
  <2> QED
    BY <1>1, <1>2, <2>1, <2>3, <2>4 DEF IInv
<1>6. CASE CloseReader \/ \E r \in DOMAIN rows[v] : readMoreButtonDidTapped(v, r)
  <2>1. UNCHANGED <<page, reload, rows>>
    BY <1>6 DEF readMoreButtonDidTapped, CloseReader
  <2>2. NewReloads' /\ RowsFresh'
    BY <1>3, <2>1 DEF IInv, NewReloads, RowsFresh
  <2> QED
    BY <1>1, <1>2, <2>1, <2>2 DEF IInv
<1> QED
  BY <1>4, <1>5, <1>6

-----------------------------------------------------------------------------
(* The invariants hold at the start and are kept by every step.            *)
LEMMA InitHolds == Init => TypeOK /\ IInv
<1> SUFFICES ASSUME Init PROVE TypeOK /\ IInv
  OBVIOUS
<1>1. TypeOK
  BY FS_EmptySet DEF Init, TypeOK
<1>2. IInv
  BY DEF Init, IInv, NewReloads, RowsFresh, ReadsMatchRows, SubsAtHome
<1> QED
  BY <1>1, <1>2

LEMMA NextHolds == TypeOK /\ IInv /\ [Next]_vars => TypeOK' /\ IInv'
<1> SUFFICES ASSUME TypeOK, IInv, [Next]_vars PROVE TypeOK' /\ IInv'
  OBVIOUS
<1>1. ASSUME NEW a \in Articles, Publish(a) \/ Retract(a) PROVE TypeOK' /\ IInv'
  BY <1>1, WritesKeep
<1>2. ASSUME NEW a \in Articles, NEW s \in Subs, StoreSub(a, s) PROVE TypeOK' /\ IInv'
  BY <1>2, StoreKeeps
<1>3. ASSUME NEW v \in Views, Push(v) \/ LayOut(v) \/ Pop(v) PROVE TypeOK' /\ IInv'
  BY <1>3, PageStepsKeep
<1>4. ASSUME NEW v \in Views, NEW a \in Articles, ArticleAdded(v, a) PROVE TypeOK' /\ IInv'
  BY <1>4, InsertKeeps
<1>5. ASSUME NEW v \in Views, NEW a \in Articles, ArticleRemoved(v, a) \/ ArticleModified(v, a)
      PROVE  TypeOK' /\ IInv'
  BY <1>5, IgnoredChangesKeep
<1>6. ASSUME NEW v \in Views, NEW r \in DOMAIN articles[v], AnswerRead(v, r)
      PROVE  TypeOK' /\ IInv'
  BY <1>6, AnswerKeeps
<1>7. ASSUME NEW v \in Views, \E r \in DOMAIN rows[v] : readMoreButtonDidTapped(v, r)
      PROVE  TypeOK' /\ IInv'
  BY <1>7, PageStepsKeep
<1>8. CASE CloseReader
  <2>1. UNCHANGED <<published, stored, page, known, articles, reads, reload, rows>>
    BY <1>8 DEF CloseReader, backendVars
  <2> QED
    BY <2>1, QuietKeeps
<1>9. CASE UNCHANGED vars
  <2>1. UNCHANGED <<published, stored, page, known, articles, reads, reload, rows>>
    BY <1>9 DEF vars, backendVars, pageVars
  <2> QED
    BY <2>1, QuietKeeps
<1> QED
  BY <1>1, <1>2, <1>3, <1>4, <1>5, <1>6, <1>7, <1>8, <1>9 DEF Next

LEMMA AlwaysHolds == Spec => [](TypeOK /\ IInv)
BY InitHolds, NextHolds, PTL DEF Spec

(* A table of a page in front never shows a text its article does not have *)
(* (RowsFresh): reloadData after every change and every answer that brings *)
(* something, for any number of pages and answers.                         *)
THEOREM RowsStayFresh == Spec => []RowsFresh
<1>1. IInv => RowsFresh
  BY DEF IInv
<1> QED
  BY <1>1, AlwaysHolds, PTL

(* A read in flight is always for a row that is listed and still empty,    *)
(* and every titled article the listener knows is listed (ReadsMatchRows). *)
THEOREM ReadsMatch == Spec => []ReadsMatchRows
<1>1. IInv => ReadsMatchRows
  BY DEF IInv
<1> QED
  BY <1>1, AlwaysHolds, PTL

(* The answers of getDocuments come in any order, for overlapping pages:   *)
(* a sub-article stands under its own article, and once (SubsAtHome).      *)
THEOREM SubsStayHome == Spec => []SubsAtHome
<1>1. IInv => SubsAtHome
  BY DEF IInv
<1> QED
  BY <1>1, AlwaysHolds, PTL
=============================================================================
