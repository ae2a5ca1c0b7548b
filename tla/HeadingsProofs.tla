--------------------------- MODULE HeadingsProofs ---------------------------
(***************************************************************************)
(* Proofs about Headings, for pages of any length with any texts.  The     *)
(* code looks an article up by the text of the last h2 it read; that this  *)
(* is the nearest h2 above is so only because the loop cannot have been    *)
(* left, and headings passed over, once there is an article: then every    *)
(* paragraph has one (Findable).  Where no title repeats, the articles are *)
(* at every element those that lie above it on the page (ReadSoFar).       *)
(***************************************************************************)
EXTENDS Headings, FiniteSetTheorems, TLAPS

SubOn(p) == [title : {p[i].text : i \in DOMAIN p}, contents : Seq(Nat)]
ArticleOn(p) == [title : {p[i].text : i \in DOMAIN p}, subs : Seq(SubOn(p))]

TypeOK ==
  /\ loop \in AllLoops
  /\ page \in Pages
  /\ pos \in Nat \ {0}
  /\ articles \in Seq(ArticleOn(page))
  /\ left \in BOOLEAN

Findable == loop # "choose" /\ articles # <<>> => Targets # {}

NotLeft == loop = "choose" \/ articles # <<>> => ~left

H2IsNearest ==
  articles # <<>> => Nearest("h2", pos) # 0 /\ page[Nearest("h2", pos)].text = current_h2

H3IsNearest ==
  (\E k \in DOMAIN articles : articles[k].subs # <<>>)
    => Nearest("h3", pos) # 0 /\ page[Nearest("h3", pos)].text = current_h3

ContentsAbove ==
  \A k \in DOMAIN articles : \A j \in DOMAIN articles[k].subs :
    ToSet(articles[k].subs[j].contents) \subseteq 1..(pos - 1)

IInv ==
  /\ TypeOK /\ Findable /\ NotLeft /\ H2IsNearest /\ H3IsNearest
  /\ ContentsAbove /\ UnderItsTitles

-----------------------------------------------------------------------------
(* A finite set of numbers can be counted in its order: the rank of each   *)
(* is how many there are up to it.                                         *)
LEMMA RanksExist ==
  ASSUME NEW S \in SUBSET Nat, IsFiniteSet(S), S # {}
  PROVE  \E n \in Nat \ {0} : \E rank \in [S -> 1..n] :
           /\ \A s, t \in S : s < t => rank[s] < rank[t]
           /\ \A i \in 1..n : \E s \in S : rank[s] = i
<1> DEFINE n == Cardinality(S)
           UpTo(s) == {t \in S : t <= s}
           rank == [s \in S |-> Cardinality(UpTo(s))]
<1>1. n \in Nat /\ n # 0
  BY FS_CardinalityType, FS_EmptySet
<1>2. ASSUME NEW s \in S PROVE rank[s] \in 1..n
  <2>1. UpTo(s) \in SUBSET S /\ s \in UpTo(s)
    OBVIOUS
  <2>2. IsFiniteSet(UpTo(s)) /\ Cardinality(UpTo(s)) <= n
    BY <2>1, FS_Subset
  <2>3. Cardinality(UpTo(s)) \in Nat /\ Cardinality(UpTo(s)) # 0
    BY <2>1, <2>2, FS_CardinalityType, FS_EmptySet
  <2> QED
    BY <1>1, <2>2, <2>3
<1>3. ASSUME NEW s \in S, NEW t \in S, s < t PROVE rank[s] < rank[t]
  <2>1. UpTo(s) \in SUBSET UpTo(t) /\ t \in UpTo(t) /\ t \notin UpTo(s)
    <3>1. s \in Nat /\ t \in Nat /\ ~(t <= s) /\ t <= t
      BY <1>3
    <3>2. ASSUME NEW u \in S, u <= s PROVE u <= t
      BY <1>3, <3>1, <3>2
    <3> QED
      BY <3>1, <3>2
  <2>2. UpTo(t) \in SUBSET S
    OBVIOUS
  <2>3. IsFiniteSet(UpTo(t))
    BY <2>2, FS_Subset
  <2>4. Cardinality(UpTo(s)) <= Cardinality(UpTo(t)) /\ Cardinality(UpTo(s)) # Cardinality(UpTo(t))
    BY <2>1, <2>3, FS_Subset
  <2>5. rank[s] = Cardinality(UpTo(s)) /\ rank[t] = Cardinality(UpTo(t))
    OBVIOUS
  <2>6. rank[s] \in Nat /\ rank[t] \in Nat
    BY <1>1, <1>2
  <2> HIDE DEF rank, UpTo
  <2> QED
    BY <2>4, <2>5, <2>6
<1>4. \A s, t \in S : rank[s] = rank[t] => s = t
  <2> SUFFICES ASSUME NEW s \in S, NEW t \in S, rank[s] = rank[t], s # t PROVE FALSE
    OBVIOUS
  <2>1. s < t \/ t < s
    OBVIOUS
  <2> QED
    BY <1>2, <1>3, <2>1
<1>5. rank \in Injection(S, 1..n)
  BY <1>2, <1>4 DEF Injection, IsInjective
<1>6. IsFiniteSet(1..n) /\ Cardinality(1..n) = n
  BY <1>1, FS_Interval
<1>7. rank \in Surjection(S, 1..n)
  <2> HIDE DEF rank
  <2> QED
    BY <1>5, <1>6, FS_Injection
<1>8. rank \in [S -> 1..n] /\ \A i \in 1..n : \E s \in S : rank[s] = i
  <2> HIDE DEF rank
  <2> QED
    BY <1>7 DEF Surjection
<1>9. \A s, t \in S : s < t => rank[s] < rank[t]
  BY <1>3
<1> HIDE DEF rank, n
<1> QED
  BY <1>1, <1>8, <1>9

(* find takes the first that matches, which is one that matches: the one   *)
(* of rank 1 is preceded by none.                                          *)
LEMMA LeastExists ==
  ASSUME NEW S \in SUBSET Nat, IsFiniteSet(S), S # {}
  PROVE  Min(S) \in S
<1>0. PICK n \in Nat \ {0} : \E rank \in [S -> 1..n] :
        /\ \A s, t \in S : s < t => rank[s] < rank[t]
        /\ \A i \in 1..n : \E s \in S : rank[s] = i
  BY RanksExist
<1>1. PICK rank \in [S -> 1..n] :
        /\ \A s, t \in S : s < t => rank[s] < rank[t]
        /\ \A i \in 1..n : \E s \in S : rank[s] = i
  BY <1>0
<1>2. PICK s \in S : rank[s] = 1
  BY <1>1
<1>3. \A t \in S : s <= t
  <2> SUFFICES ASSUME NEW t \in S, t < s PROVE FALSE
    OBVIOUS
  <2>1. rank[t] < 1 /\ rank[t] \in 1..n
    BY <1>1, <1>2
  <2> QED
    BY <2>1
<1> QED
  BY <1>3 DEF Min

LEMMA GreatestExists ==
  ASSUME NEW S \in SUBSET Nat, IsFiniteSet(S), S # {}
  PROVE  Max(S) \in S
<1>0. PICK n \in Nat \ {0} : \E rank \in [S -> 1..n] :
        /\ \A s, t \in S : s < t => rank[s] < rank[t]
        /\ \A i \in 1..n : \E s \in S : rank[s] = i
  BY RanksExist
<1>1. PICK rank \in [S -> 1..n] :
        /\ \A s, t \in S : s < t => rank[s] < rank[t]
        /\ \A i \in 1..n : \E s \in S : rank[s] = i
  BY <1>0
<1>2. PICK s \in S : rank[s] = n
  BY <1>1
<1>3. \A t \in S : s >= t
  <2> SUFFICES ASSUME NEW t \in S, s < t PROVE FALSE
    OBVIOUS
  <2>1. n < rank[t] /\ rank[t] \in 1..n
    BY <1>1, <1>2
  <2> QED
    BY <2>1
<1> QED
  BY <1>3 DEF Max

LEMMA FirstMatches ==
  ASSUME NEW n \in Nat, NEW S \in SUBSET (1..n), S # {}
  PROVE  Min(S) \in S
<1>1. IsFiniteSet(1..n) /\ S \in SUBSET Nat
  BY FS_Interval
<1>2. IsFiniteSet(S)
  BY <1>1, FS_Subset
<1> QED
  BY <1>1, <1>2, LeastExists

LEMMA PageType ==
  ASSUME TypeOK
  PROVE  /\ Len(page) \in Nat /\ DOMAIN page = 1..Len(page)
         /\ Len(articles) \in Nat /\ DOMAIN articles = 1..Len(articles)
<1>1. page \in Seq(ToSet(page))
  BY PagesOK DEF TypeOK
<1> QED
  BY <1>1 DEF TypeOK

(* Reading on by one element, the nearest heading of a kind is the same or *)
(* the one that was read.                                                  *)
LEMMA NearestMoves ==
  ASSUME TypeOK, page' = page, pos' = pos + 1, pos <= Len(page), NEW kind
  PROVE  Nearest(kind, pos)' = IF page[pos].kind = kind THEN pos ELSE Nearest(kind, pos)
<1> DEFINE S == {i \in At(kind) : i < pos}
           T == {i \in At(kind)' : i < pos'}
<1>1. pos \in DOMAIN page /\ \A i \in DOMAIN page : i \in Nat
  BY PageType DEF TypeOK
<1>2. T = IF page[pos].kind = kind THEN S \cup {pos} ELSE S
  BY <1>1 DEF At, TypeOK
<1>3. Nearest(kind, pos)' = (IF T = {} THEN 0 ELSE Max(T)) /\ Nearest(kind, pos) = (IF S = {} THEN 0 ELSE Max(S))
  BY DEF Nearest
<1>4. \A x \in S \cup {pos} : (\A y \in S \cup {pos} : x >= y) <=> x = pos
  BY <1>1 DEF At, TypeOK
<1>5. Max(S \cup {pos}) = pos
  <2> HIDE DEF S
  <2> QED
    BY <1>4 DEF Max
<1> QED
  BY <1>2, <1>3, <1>5

-----------------------------------------------------------------------------
(* The element that is read is one of the page.                            *)
LEMMA ReadsOn ==
  ASSUME IInv, page' = page, pos' = pos + 1, pos <= Len(page)
  PROVE  /\ pos' \in Nat \ {0} /\ 1..(pos - 1) \subseteq 1..(pos' - 1) /\ pos \in 1..(pos' - 1)
         /\ pos \in DOMAIN page
<1>1. pos \in Nat \ {0} /\ Len(page) \in Nat /\ DOMAIN page = 1..Len(page)
  BY PageType DEF IInv, TypeOK
<1> QED
  BY <1>1

LEMMA NearestStays ==
  ASSUME page' = page, NEW kind, NEW q
  PROVE  Nearest(kind, q)' = Nearest(kind, q)
BY DEF Nearest, At

LEMMA NearestType ==
  ASSUME TypeOK, NEW kind, NEW q \in Nat, q <= Len(page) + 1
  PROVE  Nearest(kind, q) \in Nat
<1> DEFINE S == {i \in At(kind) : i < q}
<1>1. S \in SUBSET Nat /\ IsFiniteSet(S)
  <2>1. Len(page) \in Nat /\ S \in SUBSET (1..Len(page))
    BY PageType DEF At
  <2>2. IsFiniteSet(1..Len(page))
    BY <2>1, FS_Interval
  <2> QED
    BY <2>1, <2>2, FS_Subset
<1>2. S # {} => Max(S) \in S
  BY <1>1, GreatestExists
<1> QED
  BY <1>1, <1>2 DEF Nearest

LEMMA UnderStays ==
  ASSUME page' = page, NEW sub, NEW title, Under(sub, title)
  PROVE  Under(sub, title)'
<1>1. /\ \A kind, q : Nearest(kind, q)' = Nearest(kind, q)
      /\ At("h3")' = At("h3")
  BY NearestStays DEF At
<1> QED
  BY <1>1 DEF Under

LEMMA UnderKept ==
  ASSUME UnderItsTitles, UNCHANGED <<page, articles>>
  PROVE  UnderItsTitles'
BY UnderStays DEF UnderItsTitles

LEMMA H2Keeps == IInv /\ H2 => IInv'
<1> SUFFICES ASSUME IInv, H2 PROVE IInv'
  OBVIOUS
<1> USE DEF IInv
<1>1. /\ pos <= Len(page) /\ ~left /\ page[pos].kind = "h2"
      /\ pos' = pos + 1 /\ UNCHANGED <<loop, page, current_h3, left>>
      /\ current_h2' = page[pos].text
      /\ articles' = IF loop = "choose" /\ Text \notin Topics THEN articles
                     ELSE Append(articles, [title |-> page[pos].text, subs |-> <<>>])
  BY DEF H2, Read, Text
<1>2. /\ pos' \in Nat \ {0} /\ 1..(pos - 1) \subseteq 1..(pos' - 1) /\ pos \in DOMAIN page
      /\ Len(articles) \in Nat /\ DOMAIN articles = 1..Len(articles)
  BY <1>1, ReadsOn, PageType
<1>3. /\ Nearest("h2", pos)' = pos /\ Nearest("h3", pos)' = Nearest("h3", pos)
      /\ pos # 0
  BY <1>1, NearestMoves DEF TypeOK
<1>4. H2IsNearest'
  BY <1>1, <1>3 DEF H2IsNearest
<1>5. NotLeft'
  BY <1>1 DEF NotLeft
<1>6. CASE articles' = articles /\ loop = "choose"
  <2>1. TypeOK'
    BY <1>1, <1>2, <1>6 DEF TypeOK
  <2>2. Findable' /\ H3IsNearest'
    BY <1>1, <1>3, <1>6 DEF Findable, H3IsNearest
  <2>3. ContentsAbove'
    BY <1>2, <1>6 DEF ContentsAbove
  <2>4. UnderItsTitles'
    BY <1>1, <1>6, UnderKept
  <2> QED
    BY <1>4, <1>5, <2>1, <2>2, <2>3, <2>4
<1>7. CASE articles' = Append(articles, [title |-> page[pos].text, subs |-> <<>>])
  <2> DEFINE new == [title |-> page[pos].text, subs |-> <<>>]
             n == Len(articles) + 1
  <2>1. new \in ArticleOn(page) /\ new.title = page[pos].text /\ new.subs = <<>>
    BY <1>2 DEF ArticleOn
  <2>2. articles' = Append(articles, new)
    BY <1>7
  <2> HIDE DEF new
  <2>3. /\ articles' \in Seq(ArticleOn(page)) /\ n \in Nat
        /\ DOMAIN articles' = DOMAIN articles \cup {n} /\ articles'[n] = new
        /\ \A k \in DOMAIN articles : articles'[k] = articles[k]
    BY <1>2, <2>1, <2>2 DEF TypeOK
  <2> HIDE DEF n
  <2>4. TypeOK'
    BY <1>1, <1>2, <2>3 DEF TypeOK
  <2>5. Findable'
    BY <1>1, <2>1, <2>3 DEF Findable, Targets
  <2>6. \A k \in DOMAIN articles' : k \in DOMAIN articles \/ DOMAIN articles'[k].subs = {}
    BY <2>1, <2>3
  <2>7. H3IsNearest'
    <3>1. \A k \in DOMAIN articles' : articles'[k].subs # <<>> => k \in DOMAIN articles
      BY <2>1, <2>3
    <3> QED
      BY <1>1, <1>3, <2>3, <3>1 DEF H3IsNearest
  <2>8. ContentsAbove'
    BY <1>2, <2>3, <2>6 DEF ContentsAbove
  <2>9. UnderItsTitles'
    <3>1. ASSUME NEW k \in DOMAIN articles', NEW j \in DOMAIN articles'[k].subs
          PROVE  \E sub, title : /\ sub = articles'[k].subs[j] /\ title = articles'[k].title
                                /\ Under(sub, title)'
      <4>1. k \in DOMAIN articles /\ articles'[k] = articles[k]
        BY <2>3, <2>6
      <4>2. Under(articles[k].subs[j], articles[k].title)
        BY <4>1 DEF UnderItsTitles
      <4>3. PICK sub, title : sub = articles[k].subs[j] /\ title = articles[k].title
        OBVIOUS
      <4>4. Under(sub, title)'
        BY <1>1, <4>2, <4>3, UnderStays
      <4> QED
        BY <4>1, <4>3, <4>4
    <3> QED
      BY <3>1 DEF UnderItsTitles
  <2> QED
    BY <1>4, <1>5, <2>4, <2>5, <2>7, <2>8, <2>9
<1> QED
  BY <1>1, <1>6, <1>7

(* An article whose title stays is changed in its place.                   *)
LEMMA ArticleChanges ==
  ASSUME IInv, NEW t \in DOMAIN articles, NEW x \in ArticleOn(page),
         x.title = articles[t].title, articles' = [articles EXCEPT ![t] = x],
         UNCHANGED <<loop, page, current_h2>>
  PROVE  /\ articles' \in Seq(ArticleOn(page))
         /\ DOMAIN articles' = DOMAIN articles /\ articles # <<>> /\ articles' # <<>>
         /\ articles'[t] = x /\ \A k \in DOMAIN articles : k # t => articles'[k] = articles[k]
         /\ Findable'
<1>1. articles \in Seq(ArticleOn(page))
  BY DEF IInv, TypeOK
<1>2. /\ articles' \in Seq(ArticleOn(page))
      /\ DOMAIN articles' = DOMAIN articles
      /\ articles'[t] = x /\ \A k \in DOMAIN articles : k # t => articles'[k] = articles[k]
  BY <1>1
<1>3. articles # <<>> /\ articles' # <<>>
  BY <1>1, <1>2
<1>4. \A k \in DOMAIN articles : articles'[k].title = articles[k].title
  BY <1>2
<1>5. Findable'
  BY <1>2, <1>3, <1>4 DEF IInv, Findable, Targets
<1> QED
  BY <1>2, <1>3, <1>5

LEMMA TargetMatches ==
  ASSUME IInv, Targets # {}
  PROVE  Target \in DOMAIN articles /\ articles[Target].title = current_h2
<1>1. Len(articles) \in Nat /\ DOMAIN articles = 1..Len(articles)
  BY PageType DEF IInv
<1>2. Targets \in SUBSET (1..Len(articles))
  BY <1>1 DEF Targets
<1>3. Target \in Targets
  BY <1>1, <1>2, FirstMatches DEF Target
<1> QED
  BY <1>3 DEF Targets

LEMMA ArticleType ==
  ASSUME IInv, NEW k \in DOMAIN articles
  PROVE  /\ articles[k] \in ArticleOn(page) /\ articles[k].subs \in Seq(SubOn(page))
         /\ Len(articles[k].subs) \in Nat
         /\ DOMAIN articles[k].subs = 1..Len(articles[k].subs)
<1>1. articles \in Seq(ArticleOn(page))
  BY DEF IInv, TypeOK
<1>2. articles[k] \in ArticleOn(page)
  BY <1>1
<1>3. articles[k].subs \in Seq(SubOn(page))
  BY <1>2 DEF ArticleOn
<1> QED
  BY <1>2, <1>3

(* An h3 opens a sub-category of the article of the nearest h2.            *)
LEMMA H3Keeps == IInv /\ H3 => IInv'
<1> SUFFICES ASSUME IInv, H3 PROVE IInv'
  OBVIOUS
<1>1. /\ pos <= Len(page) /\ ~left /\ page[pos].kind = "h3"
      /\ pos' = pos + 1 /\ UNCHANGED <<loop, page, current_h2, left>>
      /\ current_h3' = page[pos].text
  BY DEF H3, Read, Text
<1>2. TypeOK /\ pos' \in Nat \ {0} /\ 1..(pos - 1) \subseteq 1..(pos' - 1) /\ pos \in DOMAIN page
  BY <1>1, ReadsOn DEF IInv
<1>3. /\ Nearest("h3", pos)' = pos /\ Nearest("h2", pos)' = Nearest("h2", pos)
      /\ pos # 0
  BY <1>1, <1>2, NearestMoves DEF TypeOK
<1>4. H3IsNearest'
  BY <1>1, <1>3 DEF H3IsNearest
<1>5. CASE Targets = {}
  <2>1. articles' = articles
    BY <1>5 DEF H3
  <2>2. TypeOK'
    BY <1>1, <1>2, <2>1 DEF TypeOK
  <2>3. Findable' /\ NotLeft'
    BY <1>1, <2>1 DEF IInv, Findable, NotLeft, Targets
  <2>4. H2IsNearest'
    BY <1>1, <1>3, <2>1 DEF IInv, H2IsNearest
  <2>5. ContentsAbove'
    BY <1>2, <2>1 DEF IInv, ContentsAbove
  <2>6. UnderItsTitles'
    BY <1>1, <2>1, UnderKept DEF IInv
  <2> QED
    BY <1>4, <2>2, <2>3, <2>4, <2>5, <2>6 DEF IInv
<1>6. CASE Targets # {}
  <2> DEFINE t == Target
             new == [title |-> page[pos].text, contents |-> <<>>]
             x == [articles[t] EXCEPT !.subs = Append(@, new)]
             n == Len(articles[t].subs) + 1
  <2>1. t \in DOMAIN articles /\ articles[t].title = current_h2
    BY <1>6, TargetMatches
  <2> HIDE DEF t
  <2>2. /\ articles[t] \in ArticleOn(page) /\ articles[t].subs \in Seq(SubOn(page))
        /\ Len(articles[t].subs) \in Nat /\ DOMAIN articles[t].subs = 1..Len(articles[t].subs)
    BY <2>1, ArticleType
  <2>3. new \in SubOn(page) /\ new.title = page[pos].text /\ new.contents = <<>>
    BY <1>2 DEF SubOn
  <2> HIDE DEF new
  <2>4. /\ Append(articles[t].subs, new) \in Seq(SubOn(page))
        /\ n \in Nat /\ DOMAIN Append(articles[t].subs, new) = DOMAIN articles[t].subs \cup {n}
        /\ Append(articles[t].subs, new)[n] = new
        /\ \A j \in DOMAIN articles[t].subs : Append(articles[t].subs, new)[j] = articles[t].subs[j]
    BY <2>2, <2>3
  <2>5. /\ x \in ArticleOn(page) /\ x.title = articles[t].title
        /\ x.subs = Append(articles[t].subs, new)
    BY <2>2, <2>4 DEF ArticleOn
  <2>6. articles' = [articles EXCEPT ![t] = x]
    BY <1>6 DEF H3, t, new, Text
  <2> HIDE DEF x, n
  <2>7. /\ articles' \in Seq(ArticleOn(page))
        /\ DOMAIN articles' = DOMAIN articles /\ articles # <<>> /\ articles' # <<>>
        /\ articles'[t] = x /\ \A k \in DOMAIN articles : k # t => articles'[k] = articles[k]
        /\ Findable'
    BY <1>1, <2>1, <2>5, <2>6, ArticleChanges
  <2>8. TypeOK'
    BY <1>1, <1>2, <2>7 DEF TypeOK
  <2>9. NotLeft'
    BY <1>1 DEF NotLeft
  <2>10. /\ Nearest("h2", pos) # 0 /\ page[Nearest("h2", pos)].text = current_h2
    BY <2>7 DEF IInv, H2IsNearest
  <2>11. H2IsNearest'
    BY <1>1, <1>3, <2>10 DEF H2IsNearest
  <2>12. ASSUME NEW k \in DOMAIN articles', NEW j \in DOMAIN articles'[k].subs
         PROVE  \/ /\ k \in DOMAIN articles /\ articles'[k].title = articles[k].title
                   /\ j \in DOMAIN articles[k].subs /\ articles'[k].subs[j] = articles[k].subs[j]
                \/ articles'[k].subs[j] = new /\ articles'[k].title = current_h2
    BY <2>1, <2>4, <2>5, <2>7
  <2>13. ContentsAbove'
    <3>1. ToSet(new.contents) = {}
      BY <2>3 DEF ToSet
    <3> QED
      BY <1>2, <2>12, <3>1 DEF IInv, ContentsAbove
  <2>14. Under(new, current_h2)
    <3>1. IsInjective(new.contents) /\ ToSet(new.contents) = {}
      BY <2>3 DEF IsInjective, ToSet
    <3>2. pos \in At("h3") /\ Nearest("h2", pos) > 0
      <4>1. Nearest("h2", pos) \in Nat
        BY <1>2, PageType, NearestType
      <4> QED
        BY <1>1, <1>2, <2>10, <4>1 DEF At
    <3> QED
      BY <2>3, <2>10, <3>1, <3>2 DEF Under
  <2>15. UnderItsTitles'
    <3>1. ASSUME NEW k \in DOMAIN articles', NEW j \in DOMAIN articles'[k].subs
          PROVE  \E sub, title : /\ sub = articles'[k].subs[j] /\ title = articles'[k].title
                                /\ Under(sub, title)'
      <4>1. PICK sub, title : sub = articles'[k].subs[j] /\ title = articles'[k].title
        OBVIOUS
      <4>2. Under(sub, title)
        BY <2>12, <2>14, <4>1 DEF IInv, UnderItsTitles
      <4> QED
        BY <1>1, <4>1, <4>2, UnderStays
    <3> QED
      BY <3>1 DEF UnderItsTitles
  <2> QED
    BY <1>4, <2>7, <2>8, <2>9, <2>11, <2>13, <2>15 DEF IInv
<1> QED
  BY <1>5, <1>6

-----------------------------------------------------------------------------
(* A paragraph goes below the headings whose texts were read last, which   *)
(* are those of the nearest headings above it.                             *)
LEMMA DocKeeps == IInv /\ Doc => IInv'
<1> SUFFICES ASSUME IInv, Doc PROVE IInv'
  OBVIOUS
<1>1. /\ pos <= Len(page) /\ ~left /\ page[pos].kind = "doc"
      /\ pos' = pos + 1 /\ UNCHANGED <<loop, page, current_h2, current_h3, left>>
      /\ Targets # {}
  BY DEF Doc, Read
<1>2. /\ TypeOK /\ pos' \in Nat \ {0} /\ 1..(pos - 1) \subseteq 1..(pos' - 1)
      /\ pos \in 1..(pos' - 1) /\ pos \in DOMAIN page
  BY <1>1, ReadsOn DEF IInv
<1>3. /\ Nearest("h3", pos)' = Nearest("h3", pos) /\ Nearest("h2", pos)' = Nearest("h2", pos)
  BY <1>1, <1>2, NearestMoves
<1>4. NotLeft'
  BY <1>1 DEF NotLeft
<1> DEFINE t == Target
<1>5. t \in DOMAIN articles /\ articles[t].title = current_h2
  BY <1>1, TargetMatches
<1> HIDE DEF t
<1>6. /\ articles[t] \in ArticleOn(page) /\ articles[t].subs \in Seq(SubOn(page))
      /\ Len(articles[t].subs) \in Nat /\ DOMAIN articles[t].subs = 1..Len(articles[t].subs)
  BY <1>5, ArticleType
<1>7. CASE SubTargets = {}
  <2>1. articles' = articles
    BY <1>7 DEF Doc
  <2>2. TypeOK'
    BY <1>1, <1>2, <2>1 DEF TypeOK
  <2>3. Findable'
    BY <1>1, <2>1 DEF IInv, Findable, Targets
  <2>4. H2IsNearest' /\ H3IsNearest'
    BY <1>1, <1>3, <2>1 DEF IInv, H2IsNearest, H3IsNearest
  <2>5. ContentsAbove'
    BY <1>2, <2>1 DEF IInv, ContentsAbove
  <2>6. UnderItsTitles'
    BY <1>1, <2>1, UnderKept DEF IInv
  <2> QED
    BY <1>4, <2>2, <2>3, <2>4, <2>5, <2>6 DEF IInv
<1>8. CASE SubTargets # {}
  <2> DEFINE u == Min(SubTargets)
             old == articles[t].subs[u]
             new == [old EXCEPT !.contents = Append(@, pos)]
             x == [articles[t] EXCEPT !.subs[u] = new]
  <2>1. u \in DOMAIN articles[t].subs /\ old.title = current_h3
    <3>1. SubTargets = {j \in DOMAIN articles[t].subs : articles[t].subs[j].title = current_h3}
      BY DEF SubTargets, t
    <3>2. SubTargets \in SUBSET (1..Len(articles[t].subs))
      BY <1>6, <3>1
    <3>3. u \in SubTargets
      BY <1>6, <1>8, <3>2, FirstMatches
    <3> QED
      BY <3>1, <3>3
  <2>2. articles' = [articles EXCEPT ![t] = x]
    BY <1>8 DEF Doc, t
  <2> HIDE DEF u
  <2>3. old \in SubOn(page) /\ old.contents \in Seq(Nat)
    <3>1. old \in SubOn(page)
      BY <1>6, <2>1
    <3> HIDE DEF old
    <3> QED
      BY <3>1 DEF SubOn
  <2>4. Under(old, current_h2)
    BY <1>5, <2>1 DEF IInv, UnderItsTitles
  <2>5. ToSet(old.contents) \subseteq 1..(pos - 1)
    BY <1>5, <2>1 DEF IInv, ContentsAbove
  <2> HIDE DEF old
  <2>6. pos \in Nat
    BY <1>2 DEF TypeOK
  <2>7. /\ new \in SubOn(page) /\ new.title = old.title
        /\ new.contents = Append(old.contents, pos)
    <3> DEFINE c == Append(old.contents, pos)
    <3>1. c \in Seq(Nat)
      BY <2>3, <2>6
    <3>2. new = [old EXCEPT !.contents = c]
      OBVIOUS
    <3> HIDE DEF c, new
    <3>3. new \in SubOn(page) /\ new.title = old.title /\ new.contents = c
      BY <2>3, <3>1, <3>2 DEF SubOn
    <3> QED
      BY <3>3 DEF c
  <2> HIDE DEF new
  <2>8. /\ x \in ArticleOn(page) /\ x.title = articles[t].title
        /\ DOMAIN x.subs = DOMAIN articles[t].subs /\ x.subs[u] = new
        /\ \A j \in DOMAIN articles[t].subs : j # u => x.subs[j] = articles[t].subs[j]
    BY <1>6, <2>1, <2>7 DEF ArticleOn
  <2> HIDE DEF x
  <2>9. /\ articles' \in Seq(ArticleOn(page))
        /\ DOMAIN articles' = DOMAIN articles /\ articles # <<>> /\ articles' # <<>>
        /\ articles'[t] = x /\ \A k \in DOMAIN articles : k # t => articles'[k] = articles[k]
        /\ Findable'
    BY <1>1, <1>5, <2>2, <2>8, ArticleChanges
  <2>10. TypeOK'
    BY <1>1, <1>2, <2>9 DEF TypeOK
  <2>11. /\ Nearest("h2", pos) # 0 /\ page[Nearest("h2", pos)].text = current_h2
         /\ page[Nearest("h3", pos)].text = current_h3 /\ Nearest("h3", pos) # 0
    <3>1. articles[t].subs # <<>>
      BY <1>6, <2>1
    <3> QED
      BY <1>5, <2>9, <3>1 DEF IInv, H2IsNearest, H3IsNearest
  <2>12. H2IsNearest' /\ H3IsNearest'
    BY <1>1, <1>3, <2>11 DEF H2IsNearest, H3IsNearest
  <2>13. ASSUME NEW k \in DOMAIN articles', NEW j \in DOMAIN articles'[k].subs
         PROVE  \/ /\ k \in DOMAIN articles /\ articles'[k].title = articles[k].title
                   /\ j \in DOMAIN articles[k].subs /\ articles'[k].subs[j] = articles[k].subs[j]
                \/ articles'[k].subs[j] = new /\ articles'[k].title = current_h2
    BY <1>5, <2>8, <2>9
  <2>14. /\ ToSet(new.contents) = ToSet(old.contents) \cup {pos}
         /\ IsInjective(new.contents)
    <3> DEFINE c == old.contents
    <3>1. c \in Seq(Nat) /\ Len(c) \in Nat /\ DOMAIN c = 1..Len(c) /\ IsInjective(c)
      BY <2>3, <2>4 DEF Under
    <3>2. \A i \in DOMAIN c : c[i] # pos
      BY <2>5, <2>6, <3>1 DEF ToSet
    <3> HIDE DEF c
    <3>3. /\ DOMAIN Append(c, pos) = DOMAIN c \cup {Len(c) + 1} /\ Append(c, pos)[Len(c) + 1] = pos
          /\ \A i \in DOMAIN c : Append(c, pos)[i] = c[i] /\ i # Len(c) + 1
      BY <2>6, <3>1
    <3>4. ToSet(Append(c, pos)) = ToSet(c) \cup {pos}
      BY <3>3 DEF ToSet
    <3>5. IsInjective(Append(c, pos))
      BY <3>1, <3>2, <3>3 DEF IsInjective
    <3> QED
      BY <2>7, <3>4, <3>5 DEF c
  <2>15. ContentsAbove'
    <3>1. ToSet(new.contents) \subseteq 1..(pos' - 1)
      BY <1>2, <2>5, <2>14
    <3> QED
      BY <1>2, <2>13, <3>1 DEF IInv, ContentsAbove
  <2>16. Under(new, current_h2)
    BY <1>1, <2>1, <2>4, <2>7, <2>11, <2>14 DEF Under, old
  <2>17. UnderItsTitles'
    <3>1. ASSUME NEW k \in DOMAIN articles', NEW j \in DOMAIN articles'[k].subs
          PROVE  \E sub, title : /\ sub = articles'[k].subs[j] /\ title = articles'[k].title
                                /\ Under(sub, title)'
      <4>1. PICK sub, title : sub = articles'[k].subs[j] /\ title = articles'[k].title
        OBVIOUS
      <4>2. Under(sub, title)
        BY <2>13, <2>16, <4>1 DEF IInv, UnderItsTitles
      <4> QED
        BY <1>1, <4>1, <4>2, UnderStays
    <3> QED
      BY <3>1 DEF UnderItsTitles
  <2> QED
    BY <1>4, <2>9, <2>10, <2>12, <2>15, <2>17 DEF IInv
<1> QED
  BY <1>7, <1>8

(* Passing an element by that is no heading changes nothing that is kept.  *)
LEMMA PassingKeeps ==
  ASSUME IInv, pos <= Len(page), pos' = pos + 1, left' \in BOOLEAN, NotLeft',
         page[pos].kind \notin {"h2", "h3"} \/ articles = <<>>,
         UNCHANGED <<loop, page, current_h2, current_h3, articles>>
  PROVE  IInv'
<1>1. TypeOK /\ pos' \in Nat \ {0} /\ 1..(pos - 1) \subseteq 1..(pos' - 1)
  BY ReadsOn DEF IInv
<1>2. TypeOK'
  BY <1>1 DEF TypeOK
<1>3. Findable'
  BY DEF IInv, Findable, Targets
<1>4. H2IsNearest' /\ H3IsNearest'
  <2>1. CASE page[pos].kind \notin {"h2", "h3"}
    <3>1. Nearest("h2", pos)' = Nearest("h2", pos) /\ Nearest("h3", pos)' = Nearest("h3", pos)
      BY <1>1, <2>1, NearestMoves
    <3> QED
      BY <3>1 DEF IInv, H2IsNearest, H3IsNearest
  <2>2. CASE articles = <<>>
    <3>1. DOMAIN articles = {} /\ articles' = articles
      BY <2>2
    <3> QED
      BY <2>2, <3>1 DEF H2IsNearest, H3IsNearest
  <2> QED
    BY <2>1, <2>2
<1>5. ContentsAbove'
  BY <1>1 DEF IInv, ContentsAbove
<1>6. UnderItsTitles'
  BY UnderKept DEF IInv
<1> QED
  BY <1>2, <1>3, <1>4, <1>5, <1>6 DEF IInv

LEMMA InitHolds == Init => IInv
<1> SUFFICES ASSUME Init PROVE IInv
  OBVIOUS
<1>1. /\ loop \in AllLoops /\ page \in Pages /\ pos = 1 /\ articles = <<>> /\ left = FALSE
  BY PagesOK DEF Init
<1>2. TypeOK /\ DOMAIN articles = {}
  <2>1. articles \in Seq(ArticleOn(page)) /\ DOMAIN articles = {}
    BY <1>1
  <2>2. pos \in Nat \ {0}
    BY <1>1
  <2>3. left \in BOOLEAN
    BY <1>1
  <2> QED
    BY <1>1, <2>1, <2>2, <2>3, Zenon DEF TypeOK
<1> QED
  BY <1>1, <1>2 DEF IInv, Findable, NotLeft, H2IsNearest, H3IsNearest, ContentsAbove, UnderItsTitles

LEMMA NextHolds == IInv /\ [Next]_vars => IInv'
<1> SUFFICES ASSUME IInv, [Next]_vars PROVE IInv'
  OBVIOUS
<1>1. CASE H2
  BY <1>1, H2Keeps
<1>2. CASE H3
  BY <1>2, H3Keeps
<1>3. CASE Doc
  BY <1>3, DocKeeps
<1>4. CASE OrphanDoc
  <2>1. /\ pos <= Len(page) /\ page[pos].kind = "doc" /\ pos' = pos + 1
        /\ Targets = {} /\ left' = (loop # "choose")
        /\ UNCHANGED <<loop, page, current_h2, current_h3, articles>>
    BY <1>4 DEF OrphanDoc, Read
  <2>2. left' \in BOOLEAN /\ NotLeft'
    BY <2>1 DEF IInv, Findable, NotLeft
  <2> QED
    BY <2>1, <2>2, PassingKeeps
<1>5. CASE PassOver
  <2>1. /\ left /\ pos <= Len(page) /\ pos' = pos + 1
        /\ UNCHANGED <<loop, page, current_h2, current_h3, articles, left>>
    BY <1>5 DEF PassOver
  <2>2. left' \in BOOLEAN /\ NotLeft' /\ articles = <<>>
    BY <2>1 DEF IInv, TypeOK, NotLeft
  <2> QED
    BY <2>1, <2>2, PassingKeeps
<1>6. CASE NextDiv
  <2>1. /\ pos <= Len(page) /\ page[pos].kind = "div" /\ pos' = pos + 1 /\ left' = FALSE
        /\ UNCHANGED <<loop, page, current_h2, current_h3, articles>>
    BY <1>6 DEF NextDiv
  <2>2. left' \in BOOLEAN /\ NotLeft'
    BY <2>1 DEF NotLeft
  <2> QED
    BY <2>1, <2>2, PassingKeeps
<1>7. CASE UNCHANGED vars
  <2>1. UNCHANGED <<loop, page, pos, current_h2, current_h3, articles, left>>
    BY <1>7 DEF vars
  <2>2. TypeOK' /\ Findable' /\ NotLeft'
    BY <2>1 DEF IInv, TypeOK, Findable, NotLeft, Targets
  <2>3. \A kind : Nearest(kind, pos)' = Nearest(kind, pos)
    BY <2>1 DEF Nearest, At
  <2>4. H2IsNearest' /\ H3IsNearest' /\ ContentsAbove'
    BY <2>1, <2>3 DEF IInv, H2IsNearest, H3IsNearest, ContentsAbove
  <2>5. UnderItsTitles'
    BY <2>1, UnderKept DEF IInv
  <2> QED
    BY <2>2, <2>4, <2>5 DEF IInv
<1> QED
  BY <1>1, <1>2, <1>3, <1>4, <1>5, <1>6, <1>7 DEF Next

(* In each of the three loops, on a page of any length that repeats any    *)
(* titles, a paragraph is kept at most once in a sub-category, and under   *)
(* the texts of the nearest h2 and h3 above it.                            *)
THEOREM KeptUnderTitles == Spec => []UnderItsTitles
<1>1. Init => IInv
  BY InitHolds
<1>2. IInv /\ [Next]_vars => IInv'
  BY NextHolds
<1>3. IInv => UnderItsTitles
  BY DEF IInv
<1> QED
  BY <1>1, <1>2, <1>3, PTL DEF Spec

-----------------------------------------------------------------------------
(* The elements of a set of numbers in order.                              *)
UpTo(S, s) == {t \in S : t <= s}

LEMMA UpToCounts ==
  ASSUME NEW S \in SUBSET Nat, IsFiniteSet(S)
  PROVE  /\ Cardinality(S) \in Nat
         /\ \A s \in S : Cardinality(UpTo(S, s)) \in 1..Cardinality(S)
         /\ \A s, t \in S : Cardinality(UpTo(S, s)) = Cardinality(UpTo(S, t)) => s = t
         /\ \A i \in 1..Cardinality(S) : \E s \in S : Cardinality(UpTo(S, s)) = i
         /\ \A s \in S : (\A t \in S : t <= s) => Cardinality(UpTo(S, s)) = Cardinality(S)
<1> DEFINE n == Cardinality(S)
           rank == [s \in S |-> Cardinality(UpTo(S, s))]
<1>1. n \in Nat
  BY FS_CardinalityType
<1>2. ASSUME NEW s \in S PROVE rank[s] \in 1..n
  <2>1. UpTo(S, s) \in SUBSET S /\ s \in UpTo(S, s)
    BY DEF UpTo
  <2>2. IsFiniteSet(UpTo(S, s)) /\ Cardinality(UpTo(S, s)) <= n
    BY <2>1, FS_Subset
  <2>3. Cardinality(UpTo(S, s)) \in Nat /\ Cardinality(UpTo(S, s)) # 0
    BY <2>1, <2>2, FS_CardinalityType, FS_EmptySet
  <2> QED
    BY <1>1, <2>2, <2>3
<1>3. ASSUME NEW s \in S, NEW t \in S, s < t PROVE rank[s] < rank[t]
  <2>1. UpTo(S, s) \in SUBSET UpTo(S, t) /\ t \in UpTo(S, t) /\ t \notin UpTo(S, s)
    <3>1. s \in Nat /\ t \in Nat /\ ~(t <= s) /\ t <= t
      BY <1>3
    <3>2. ASSUME NEW u \in S, u <= s PROVE u <= t
      BY <1>3, <3>1, <3>2
    <3> QED
      BY <3>1, <3>2 DEF UpTo
  <2>2. UpTo(S, t) \in SUBSET S
    BY DEF UpTo
  <2>3. IsFiniteSet(UpTo(S, t))
    BY <2>2, FS_Subset
  <2>4. Cardinality(UpTo(S, s)) <= Cardinality(UpTo(S, t)) /\ Cardinality(UpTo(S, s)) # Cardinality(UpTo(S, t))
    BY <2>1, <2>3, FS_Subset
  <2>5. rank[s] = Cardinality(UpTo(S, s)) /\ rank[t] = Cardinality(UpTo(S, t))
    OBVIOUS
  <2>6. rank[s] \in Nat /\ rank[t] \in Nat
    BY <1>1, <1>2
  <2> HIDE DEF rank
  <2> QED
    BY <2>4, <2>5, <2>6
<1>4. \A s, t \in S : rank[s] = rank[t] => s = t
  <2> SUFFICES ASSUME NEW s \in S, NEW t \in S, rank[s] = rank[t], s # t PROVE FALSE
    OBVIOUS
  <2>1. s < t \/ t < s
    OBVIOUS
  <2> QED
    BY <1>2, <1>3, <2>1
<1>5. rank \in Injection(S, 1..n)
  BY <1>2, <1>4 DEF Injection, IsInjective
<1>6. IsFiniteSet(1..n) /\ Cardinality(1..n) = n
  BY <1>1, FS_Interval
<1>7. rank \in Surjection(S, 1..n)
  <2> HIDE DEF rank
  <2> QED
    BY <1>5, <1>6, FS_Injection
<1>8. \A i \in 1..n : \E s \in S : rank[s] = i
  <2> HIDE DEF rank
  <2> QED
    BY <1>7 DEF Surjection
<1>9. ASSUME NEW s \in S, \A t \in S : t <= s PROVE UpTo(S, s) = S
  BY <1>9 DEF UpTo
<1>10. \A s \in S : rank[s] = Cardinality(UpTo(S, s))
  OBVIOUS
<1> HIDE DEF rank
<1> QED
  BY <1>1, <1>2, <1>4, <1>8, <1>9, <1>10

LEMMA InOrderIs ==
  ASSUME NEW S \in SUBSET Nat, IsFiniteSet(S), NEW n, n = Cardinality(S)
  PROVE  /\ n \in Nat /\ DOMAIN InOrder(S) = 1..n
         /\ \A i \in 1..n : InOrder(S)[i] \in S /\ Cardinality(UpTo(S, InOrder(S)[i])) = i
<1> DEFINE f == [i \in 1..n |-> CHOOSE s \in S : Cardinality(UpTo(S, s)) = i]
<1>1. InOrder(S) = f
  BY DEF InOrder, UpTo
<1>2. n \in Nat /\ \A i \in 1..n : \E s \in S : Cardinality(UpTo(S, s)) = i
  BY UpToCounts
<1>3. \A i \in 1..n : f[i] \in S /\ Cardinality(UpTo(S, f[i])) = i
  BY <1>2
<1> QED
  BY <1>1, <1>2, <1>3

LEMMA InOrderParts ==
  ASSUME NEW S \in SUBSET Nat, IsFiniteSet(S), NEW n, n = Cardinality(S)
  PROVE  /\ n \in Nat /\ DOMAIN InOrder(S) = 1..n
         /\ InOrder(S) \in Seq(Nat) /\ Len(InOrder(S)) = n
         /\ \A i \in 1..n : InOrder(S)[i] \in S
         /\ \A i, j \in 1..n : InOrder(S)[i] = InOrder(S)[j] => i = j
<1>1. /\ n \in Nat /\ DOMAIN InOrder(S) = 1..n
      /\ \A i \in 1..n : InOrder(S)[i] \in S /\ Cardinality(UpTo(S, InOrder(S)[i])) = i
  BY InOrderIs
<1>2. /\ \A s \in S : Cardinality(UpTo(S, s)) \in 1..n
      /\ \A s, t \in S : Cardinality(UpTo(S, s)) = Cardinality(UpTo(S, t)) => s = t
  BY UpToCounts
<1>3. InOrder(S) = [i \in 1..n |-> InOrder(S)[i]]
  <2> DEFINE F(i) == CHOOSE s \in S : Cardinality({t \in S : t <= s}) = i
  <2>1. InOrder(S) = [i \in 1..n |-> F(i)]
    BY DEF InOrder
  <2> HIDE DEF F
  <2> QED
    BY <2>1
<1>4. InOrder(S) \in Seq(Nat) /\ Len(InOrder(S)) = n
  <2>1. PICK f : f = InOrder(S)
    OBVIOUS
  <2>2. f = [i \in 1..n |-> f[i]] /\ n \in Nat /\ \A i \in 1..n : f[i] \in Nat
    BY <1>1, <1>3, <2>1
  <2>3. f \in [1..n -> Nat]
    BY <2>2
  <2>4. f \in Seq(Nat) /\ Len(f) = n
    BY <2>2, <2>3
  <2> QED
    BY <2>1, <2>4
<1> QED
  BY <1>1, <1>2, <1>4

(* The greatest is the last.                                               *)
LEMMA GreatestIsLast ==
  ASSUME NEW S \in SUBSET Nat, IsFiniteSet(S), NEW n, n = Cardinality(S), NEW m \in S, \A s \in S : s <= m
  PROVE  n \in 1..n /\ InOrder(S)[n] = m
<1>1. /\ n \in Nat /\ \A i \in 1..n : InOrder(S)[i] \in S /\ Cardinality(UpTo(S, InOrder(S)[i])) = i
  BY InOrderIs
<1>2. /\ \A s \in S : Cardinality(UpTo(S, s)) \in 1..n
      /\ \A s, t \in S : Cardinality(UpTo(S, s)) = Cardinality(UpTo(S, t)) => s = t
      /\ Cardinality(UpTo(S, m)) = n
  BY UpToCounts
<1>3. n \in 1..n
  BY <1>2
<1> QED
  BY <1>1, <1>2, <1>3

(* A greater element goes to the end.                                      *)
LEMMA OrderGrows ==
  ASSUME NEW S \in SUBSET Nat, IsFiniteSet(S), NEW m \in Nat, \A s \in S : s < m, NEW T, T = S \cup {m}
  PROVE  /\ T \in SUBSET Nat /\ IsFiniteSet(T) /\ Cardinality(T) = Cardinality(S) + 1
         /\ InOrder(T) = Append(InOrder(S), m)
<1>1. PICK n : n = Cardinality(S)
  OBVIOUS
<1>2. m \notin S
  OBVIOUS
<1>3. T \in SUBSET Nat /\ IsFiniteSet(T) /\ Cardinality(T) = n + 1
  BY <1>1, <1>2, FS_AddElement
<1>4. PICK l : l = Cardinality(T)
  OBVIOUS
<1>5. /\ n \in Nat /\ DOMAIN InOrder(S) = 1..n /\ InOrder(S) \in Seq(Nat) /\ Len(InOrder(S)) = n
      /\ \A i \in 1..n : InOrder(S)[i] \in S
  BY <1>1, InOrderParts
<1>6. DOMAIN InOrder(T) = 1..l /\ InOrder(T) \in Seq(Nat) /\ Len(InOrder(T)) = l
  BY <1>3, <1>4, InOrderParts
<1>7. InOrder(T)[l] = m
  <2>1. m \in T /\ \A t \in T : t <= m
    OBVIOUS
  <2> QED
    BY <1>3, <1>4, <2>1, GreatestIsLast
<1>8. ASSUME NEW i \in 1..n PROVE InOrder(T)[i] = InOrder(S)[i]
  <2>1. InOrder(S)[i] \in S /\ Cardinality(UpTo(S, InOrder(S)[i])) = i
    BY <1>1, InOrderIs
  <2>2. i \in 1..l
    BY <1>3, <1>4, <1>5
  <2>3. InOrder(T)[i] \in T /\ Cardinality(UpTo(T, InOrder(T)[i])) = i
    BY <1>3, <1>4, <2>2, InOrderIs
  <2>4. InOrder(S)[i] \in T
    BY <2>1
  <2>5. UpTo(T, InOrder(S)[i]) = UpTo(S, InOrder(S)[i])
    <3>1. PICK e \in S : e = InOrder(S)[i]
      BY <2>1
    <3>2. ~(m <= e)
      <4>1. e \in Nat /\ e < m
        OBVIOUS
      <4> QED
        BY <4>1
    <3>3. UpTo(T, e) = UpTo(S, e)
      BY <3>2 DEF UpTo
    <3> QED
      BY <3>1, <3>3
  <2>6. \A s, t \in T : Cardinality(UpTo(T, s)) = Cardinality(UpTo(T, t)) => s = t
    BY <1>3, UpToCounts
  <2> QED
    BY <2>1, <2>3, <2>4, <2>5, <2>6
<1>9. InOrder(T) = Append(InOrder(S), m)
  <2>1. PICK f \in Seq(Nat) : f = InOrder(S)
    BY <1>5
  <2>2. PICK g \in Seq(Nat) : g = InOrder(T)
    BY <1>3, <1>6
  <2>3. Len(f) = n /\ Len(g) = n + 1 /\ g[n + 1] = m /\ \A i \in 1..n : g[i] = f[i]
    BY <2>1, <2>2, <1>3, <1>4, <1>5, <1>6, <1>7, <1>8
  <2>4. g = Append(f, m)
    BY <2>3, <1>5
  <2> QED
    BY <2>1, <2>2, <2>4
<1> QED
  BY <1>1, <1>3, <1>9

-----------------------------------------------------------------------------
(* The articles by position, up to an element.                             *)
HeadsTo(q) == {a \in At("h2") : a < q /\ (loop = "choose" => page[a].text \in Topics)}
SubsTo(a, q) == {b \in At("h3") : b < q /\ b > a /\ Nearest("h2", b) = a}
DocsTo(a, b, q) ==
  {d \in At("doc") : d < q /\ d > a /\ Nearest("h2", d) = a /\ d > b /\ Nearest("h3", d) = b}
SubTo(a, b, q) == [title |-> page[b].text, contents |-> InOrder(DocsTo(a, b, q))]
ArticleTo(a, q) ==
  [title |-> page[a].text,
   subs |-> [j \in DOMAIN InOrder(SubsTo(a, q)) |-> SubTo(a, InOrder(SubsTo(a, q))[j], q)]]
PageTo(q) == [k \in DOMAIN InOrder(HeadsTo(q)) |-> ArticleTo(InOrder(HeadsTo(q))[k], q)]

Regular == Len(page) > 0 /\ page[1].kind = "h2" /\ DistinctTitles
ReadSoFar == Regular => articles = PageTo(pos) /\ ~left

LEMMA SetsTo ==
  ASSUME TypeOK, NEW q
  PROVE  /\ HeadsTo(q) \in SUBSET Nat /\ IsFiniteSet(HeadsTo(q))
         /\ \A a : SubsTo(a, q) \in SUBSET Nat /\ IsFiniteSet(SubsTo(a, q))
         /\ \A a, b : DocsTo(a, b, q) \in SUBSET Nat /\ IsFiniteSet(DocsTo(a, b, q))
<1>1. \A S \in SUBSET DOMAIN page : S \in SUBSET Nat /\ IsFiniteSet(S)
  <2>1. Len(page) \in Nat /\ DOMAIN page = 1..Len(page)
    BY PageType
  <2>2. IsFiniteSet(1..Len(page))
    BY <2>1, FS_Interval
  <2> QED
    BY <2>1, <2>2, FS_Subset
<1>2. /\ HeadsTo(q) \in SUBSET DOMAIN page
      /\ \A a : SubsTo(a, q) \in SUBSET DOMAIN page
      /\ \A a, b : DocsTo(a, b, q) \in SUBSET DOMAIN page
  BY DEF HeadsTo, SubsTo, DocsTo, At
<1> QED
  BY <1>1, <1>2

(* The nearest heading is the last one above.                              *)
LEMMA NearestIs ==
  ASSUME TypeOK, NEW kind, NEW q \in Nat, q <= Len(page) + 1, NEW h, h = Nearest(kind, q)
  PROVE  /\ h \in Nat
         /\ h # 0 => h \in At(kind) /\ h < q /\ \A i \in At(kind) : i < q => i <= h
         /\ h = 0 => \A i \in At(kind) : ~(i < q)
<1> DEFINE S == {i \in At(kind) : i < q}
<1>0. Len(page) \in Nat /\ DOMAIN page = 1..Len(page)
  BY PageType
<1>1. S \in SUBSET Nat /\ IsFiniteSet(S) /\ 0 \notin S
  <2>1. S \in SUBSET (1..Len(page))
    BY <1>0 DEF At
  <2>2. IsFiniteSet(1..Len(page))
    BY <1>0, FS_Interval
  <2> QED
    BY <1>0, <2>1, <2>2, FS_Subset
<1>2. h = IF S = {} THEN 0 ELSE Max(S)
  BY DEF Nearest
<1>3. S # {} => Max(S) \in S /\ \A s \in S : s <= Max(S)
  <2> SUFFICES ASSUME S # {} PROVE Max(S) \in S /\ \A s \in S : s <= Max(S)
    OBVIOUS
  <2>1. PICK n \in Nat \ {0} : \E rank \in [S -> 1..n] :
          /\ \A s, t \in S : s < t => rank[s] < rank[t]
          /\ \A i \in 1..n : \E s \in S : rank[s] = i
    <3> HIDE DEF S
    <3> QED
      BY <1>1, RanksExist
  <2>2. PICK rank \in [S -> 1..n] :
          /\ \A s, t \in S : s < t => rank[s] < rank[t]
          /\ \A i \in 1..n : \E s \in S : rank[s] = i
    BY <2>1
  <2> HIDE DEF S
  <2>3. PICK s \in S : rank[s] = n
    BY <2>2
  <2>4. \A t \in S : s >= t
    <3> SUFFICES ASSUME NEW t \in S, s < t PROVE FALSE
      BY <1>1
    <3>1. n < rank[t] /\ rank[t] \in 1..n
      BY <2>2, <2>3
    <3> QED
      BY <3>1
  <2>5. Max(S) \in S /\ \A t \in S : Max(S) >= t
    BY <2>4 DEF Max
  <2>6. ASSUME NEW t \in S PROVE t <= Max(S)
    <3>1. t \in Nat /\ Max(S) \in Nat /\ Max(S) >= t
      BY <1>1, <2>5
    <3> QED
      BY <3>1
  <2> QED
    BY <2>5, <2>6
<1>4. CASE S = {}
  BY <1>2, <1>4
<1>5. CASE S # {}
  <2>1. h \in S /\ \A s \in S : s <= h
    BY <1>2, <1>3, <1>5
  <2> QED
    BY <1>1, <2>1
<1> QED
  BY <1>4, <1>5

(* Reading one element adds it to at most one set of each kind.            *)
LEMMA SetsGrow ==
  ASSUME TypeOK, pos <= Len(page), NEW r, r = pos + 1
  PROVE  /\ pos \in Nat /\ pos \in DOMAIN page
         /\ HeadsTo(r) = IF page[pos].kind = "h2" /\ (loop = "choose" => page[pos].text \in Topics)
                         THEN HeadsTo(pos) \cup {pos} ELSE HeadsTo(pos)
         /\ \A a : SubsTo(a, r) = IF page[pos].kind = "h3" /\ pos > a /\ Nearest("h2", pos) = a
                                  THEN SubsTo(a, pos) \cup {pos} ELSE SubsTo(a, pos)
         /\ \A a, b : DocsTo(a, b, r) = IF /\ page[pos].kind = "doc" /\ pos > a /\ Nearest("h2", pos) = a
                                           /\ pos > b /\ Nearest("h3", pos) = b
                                        THEN DocsTo(a, b, pos) \cup {pos} ELSE DocsTo(a, b, pos)
         /\ \A h \in HeadsTo(pos) : h < pos
         /\ \A a : \A h \in SubsTo(a, pos) : h < pos
         /\ \A a, b : \A h \in DocsTo(a, b, pos) : h < pos
<1>1. pos \in Nat /\ pos # 0 /\ Len(page) \in Nat /\ DOMAIN page = 1..Len(page)
  BY PageType DEF TypeOK
<1>2. pos \in DOMAIN page /\ \A i \in DOMAIN page : i \in Nat /\ (i < r <=> i < pos \/ i = pos) /\ ~(pos < pos)
  BY <1>1
<1>3. HeadsTo(r) = IF page[pos].kind = "h2" /\ (loop = "choose" => page[pos].text \in Topics)
                   THEN HeadsTo(pos) \cup {pos} ELSE HeadsTo(pos)
  <2>1. \A a : a \in HeadsTo(r) <=> a \in HeadsTo(pos) \/ (a = pos /\ page[pos].kind = "h2"
                                                             /\ (loop = "choose" => page[pos].text \in Topics))
    BY <1>2 DEF HeadsTo, At
  <2> QED
    BY <2>1
<1>4. ASSUME NEW a
      PROVE  SubsTo(a, r) = IF page[pos].kind = "h3" /\ pos > a /\ Nearest("h2", pos) = a
                            THEN SubsTo(a, pos) \cup {pos} ELSE SubsTo(a, pos)
  <2>1. \A b : b \in SubsTo(a, r) <=>
          b \in SubsTo(a, pos) \/ (b = pos /\ page[pos].kind = "h3" /\ pos > a /\ Nearest("h2", pos) = a)
    BY <1>2 DEF SubsTo, At
  <2> QED
    BY <2>1
<1>5. ASSUME NEW a, NEW b
      PROVE  DocsTo(a, b, r) = IF /\ page[pos].kind = "doc" /\ pos > a /\ Nearest("h2", pos) = a
                                  /\ pos > b /\ Nearest("h3", pos) = b
                               THEN DocsTo(a, b, pos) \cup {pos} ELSE DocsTo(a, b, pos)
  <2>1. \A d : d \in DocsTo(a, b, r) <=>
          \/ d \in DocsTo(a, b, pos)
          \/ /\ d = pos /\ page[pos].kind = "doc" /\ pos > a /\ Nearest("h2", pos) = a
             /\ pos > b /\ Nearest("h3", pos) = b
    BY <1>2 DEF DocsTo, At
  <2> QED
    BY <2>1
<1>6. /\ \A h \in HeadsTo(pos) : h < pos
      /\ \A a : \A h \in SubsTo(a, pos) : h < pos
      /\ \A a, b : \A h \in DocsTo(a, b, pos) : h < pos
  BY DEF HeadsTo, SubsTo, DocsTo
<1> QED
  BY <1>1, <1>2, <1>3, <1>4, <1>5, <1>6

-----------------------------------------------------------------------------
(* What lies where does not change: the page is read, not written.         *)
LEMMA PositionsMove ==
  ASSUME page' = page, loop' = loop, NEW r, r = pos'
  PROVE  PageTo(pos)' = PageTo(r) /\ Regular' = Regular
<1>1. \A kind, i : Nearest(kind, i)' = Nearest(kind, i)
  BY NearestStays
<1>2. \A kind : At(kind)' = At(kind)
  BY DEF At
<1>3. HeadsTo(pos)' = HeadsTo(r)
  BY <1>2 DEF HeadsTo
<1>4. ASSUME NEW a PROVE SubsTo(a, pos)' = SubsTo(a, r)
  BY <1>1, <1>2 DEF SubsTo
<1>5. ASSUME NEW a, NEW b PROVE DocsTo(a, b, pos)' = DocsTo(a, b, r)
  BY <1>1, <1>2 DEF DocsTo
<1>6. ASSUME NEW a, NEW b PROVE SubTo(a, b, pos)' = SubTo(a, b, r)
  BY <1>5 DEF SubTo
<1>7. ASSUME NEW a PROVE ArticleTo(a, pos)' = ArticleTo(a, r)
  BY <1>4, <1>6 DEF ArticleTo
<1>8. PageTo(pos)' = PageTo(r)
  BY <1>3, <1>7 DEF PageTo
<1>9. DistinctTitles' = DistinctTitles
  BY <1>1, <1>2 DEF DistinctTitles
<1> QED
  BY <1>8, <1>9 DEF Regular

(* The articles and sub-categories by position are one for each heading.   *)
LEMMA PageParts ==
  ASSUME TypeOK, NEW q, NEW n, n = Cardinality(HeadsTo(q))
  PROVE  /\ n \in Nat
         /\ PageTo(q) = [k \in 1..n |-> ArticleTo(InOrder(HeadsTo(q))[k], q)]
         /\ \A k \in 1..n : InOrder(HeadsTo(q))[k] \in HeadsTo(q)
         /\ \A i, j \in 1..n : InOrder(HeadsTo(q))[i] = InOrder(HeadsTo(q))[j] => i = j
<1>1. HeadsTo(q) \in SUBSET Nat /\ IsFiniteSet(HeadsTo(q))
  BY SetsTo
<1>2. /\ n \in Nat /\ DOMAIN InOrder(HeadsTo(q)) = 1..n
      /\ \A k \in 1..n : InOrder(HeadsTo(q))[k] \in HeadsTo(q)
      /\ \A i, j \in 1..n : InOrder(HeadsTo(q))[i] = InOrder(HeadsTo(q))[j] => i = j
  BY <1>1, InOrderParts
<1> QED
  BY <1>2 DEF PageTo

LEMMA ArticleParts ==
  ASSUME TypeOK, NEW a, NEW q, NEW m, m = Cardinality(SubsTo(a, q))
  PROVE  /\ m \in Nat
         /\ ArticleTo(a, q) = [title |-> page[a].text,
                               subs |-> [j \in 1..m |-> SubTo(a, InOrder(SubsTo(a, q))[j], q)]]
         /\ \A j \in 1..m : InOrder(SubsTo(a, q))[j] \in SubsTo(a, q)
         /\ \A i, j \in 1..m : InOrder(SubsTo(a, q))[i] = InOrder(SubsTo(a, q))[j] => i = j
<1>1. SubsTo(a, q) \in SUBSET Nat /\ IsFiniteSet(SubsTo(a, q))
  BY SetsTo
<1>2. /\ m \in Nat /\ DOMAIN InOrder(SubsTo(a, q)) = 1..m
      /\ \A j \in 1..m : InOrder(SubsTo(a, q))[j] \in SubsTo(a, q)
      /\ \A i, j \in 1..m : InOrder(SubsTo(a, q))[i] = InOrder(SubsTo(a, q))[j] => i = j
  BY <1>1, InOrderParts
<1> QED
  BY <1>2 DEF ArticleTo

(* An article is what it was when nothing was added below its heading.     *)
LEMMA ArticleStays ==
  ASSUME NEW a, NEW q, NEW r, SubsTo(a, r) = SubsTo(a, q),
         \A b : DocsTo(a, b, r) = DocsTo(a, b, q)
  PROVE  ArticleTo(a, r) = ArticleTo(a, q)
<1>1. ASSUME NEW b PROVE SubTo(a, b, r) = SubTo(a, b, q)
  BY DEF SubTo
<1> QED
  BY <1>1 DEF ArticleTo

LEMMA PageStays ==
  ASSUME TypeOK, NEW q, NEW r, HeadsTo(r) = HeadsTo(q),
         \A a \in HeadsTo(q) : SubsTo(a, r) = SubsTo(a, q),
         \A a \in HeadsTo(q) : \A b : DocsTo(a, b, r) = DocsTo(a, b, q)
  PROVE  PageTo(r) = PageTo(q)
<1>1. PICK n : n = Cardinality(HeadsTo(q))
  OBVIOUS
<1>2. /\ PageTo(q) = [k \in 1..n |-> ArticleTo(InOrder(HeadsTo(q))[k], q)]
      /\ \A k \in 1..n : InOrder(HeadsTo(q))[k] \in HeadsTo(q)
  BY <1>1, PageParts
<1>3. PageTo(r) = [k \in 1..n |-> ArticleTo(InOrder(HeadsTo(r))[k], r)]
  BY <1>1, PageParts
<1>4. \A a \in HeadsTo(q) : ArticleTo(a, r) = ArticleTo(a, q)
  BY ArticleStays
<1> QED
  BY <1>2, <1>3, <1>4

(* An h2 that is accepted opens an article at the end.                     *)
LEMMA PageGrows ==
  ASSUME TypeOK, pos <= Len(page), page[pos].kind = "h2", NEW r, r = pos + 1,
         articles = PageTo(pos)
  PROVE  PageTo(r) = IF loop = "choose" /\ page[pos].text \notin Topics THEN articles
                     ELSE Append(articles, [title |-> page[pos].text, subs |-> <<>>])
<1>1. /\ pos \in Nat /\ pos \in DOMAIN page
      /\ HeadsTo(r) = IF loop = "choose" => page[pos].text \in Topics
                      THEN HeadsTo(pos) \cup {pos} ELSE HeadsTo(pos)
      /\ \A a : SubsTo(a, r) = SubsTo(a, pos)
      /\ \A a, b : DocsTo(a, b, r) = DocsTo(a, b, pos)
      /\ \A h \in HeadsTo(pos) : h < pos
  BY SetsGrow
<1>2. CASE loop = "choose" /\ page[pos].text \notin Topics
  BY <1>1, <1>2, PageStays
<1>3. CASE loop = "choose" => page[pos].text \in Topics
  <2>1. HeadsTo(r) = HeadsTo(pos) \cup {pos}
    BY <1>1, <1>3
  <2>2. HeadsTo(pos) \in SUBSET Nat /\ IsFiniteSet(HeadsTo(pos))
    BY SetsTo
  <2>3. PICK n : n = Cardinality(HeadsTo(pos))
    OBVIOUS
  <2>4. /\ n \in Nat /\ articles = [k \in 1..n |-> ArticleTo(InOrder(HeadsTo(pos))[k], pos)]
    BY <2>3, PageParts
  <2>5. InOrder(HeadsTo(pos)) \in Seq(Nat) /\ Len(InOrder(HeadsTo(pos))) = n
    BY <2>2, <2>3, InOrderParts
  <2>6. Cardinality(HeadsTo(r)) = n + 1 /\ InOrder(HeadsTo(r)) = Append(InOrder(HeadsTo(pos)), pos)
    BY <1>1, <2>1, <2>2, <2>3, OrderGrows
  <2>7. PageTo(r) = [k \in 1..(n + 1) |-> ArticleTo(InOrder(HeadsTo(r))[k], r)]
    <3>1. PICK l : l = n + 1
      OBVIOUS
    <3> QED
      BY <2>6, <3>1, PageParts
  <2>8. InOrder(HeadsTo(r))[n + 1] = pos /\ \A k \in 1..n : InOrder(HeadsTo(r))[k] = InOrder(HeadsTo(pos))[k]
    BY <1>1, <2>4, <2>5, <2>6
  <2>9. \A a : ArticleTo(a, r) = ArticleTo(a, pos)
    BY <1>1, ArticleStays
  <2> DEFINE new == [title |-> page[pos].text, subs |-> <<>>]
  <2>10. ArticleTo(pos, pos) = new
    <3>1. SubsTo(pos, pos) = {}
      BY <1>1, PageType DEF SubsTo, At
    <3>2. PICK m : m = Cardinality(SubsTo(pos, pos))
      OBVIOUS
    <3>3. m = 0
      BY <3>1, <3>2, FS_EmptySet
    <3>4. ArticleTo(pos, pos) = [title |-> page[pos].text,
                         subs |-> [j \in 1..m |-> SubTo(pos, InOrder(SubsTo(pos, pos))[j], pos)]]
      BY <3>2, ArticleParts
    <3>5. [j \in 1..m |-> SubTo(pos, InOrder(SubsTo(pos, pos))[j], pos)] = <<>>
      BY <3>3
    <3> QED
      BY <3>4, <3>5
  <2> HIDE DEF new
  <2>11. Len(articles) = n /\ articles \in Seq(ArticleOn(page))
    BY <2>4 DEF TypeOK
  <2>12. PageTo(r) = Append(articles, new)
    <3>1. PICK f : f = PageTo(r)
      OBVIOUS
    <3>2. f = [k \in 1..(n + 1) |-> f[k]]
      BY <2>7, <3>1
    <3>3. f[n + 1] = new
      BY <2>4, <2>7, <2>8, <2>9, <2>10, <3>1
    <3>4. \A k \in 1..n : f[k] = articles[k]
      <4>1. \A k \in 1..n : k \in 1..(n + 1)
        BY <2>4
      <4> QED
        BY <2>4, <2>7, <2>8, <2>9, <3>1, <4>1
    <3>5. f = Append(articles, new)
      <4>1. PICK g \in Seq(ArticleOn(page)) : g = articles
        BY <2>11
      <4>2. PICK h : h = Append(g, new)
        OBVIOUS
      <4>3. h = [k \in 1..(n + 1) |-> h[k]] /\ h[n + 1] = new /\ \A k \in 1..n : h[k] = g[k]
        BY <2>4, <2>11, <4>1, <4>2
      <4>4. \A k \in 1..(n + 1) : k \in 1..n \/ k = n + 1
        BY <2>4
      <4>5. \A k \in 1..(n + 1) : f[k] = h[k]
        BY <3>3, <3>4, <4>1, <4>3, <4>4
      <4>6. f = h
        BY <3>2, <4>3, <4>5
      <4> QED
        BY <4>1, <4>2, <4>6
    <3> QED
      BY <3>1, <3>5
  <2> QED
    BY <1>3, <2>12 DEF new
<1> QED
  BY <1>2, <1>3

-----------------------------------------------------------------------------
(* Where no title repeats, the article with the text that was read last is *)
(* the last one, if the nearest h2 opened an article, and else none.       *)
LEMMA TargetIsLast ==
  ASSUME IInv, Regular, articles = PageTo(pos), pos <= Len(page),
         NEW a, a = Nearest("h2", pos), NEW n, n = Cardinality(HeadsTo(pos))
  PROVE  /\ a \in HeadsTo(pos) => /\ n \in 1..n /\ InOrder(HeadsTo(pos))[n] = a
                                  /\ Targets = {n} /\ Target = n
                                  /\ n \in DOMAIN articles /\ articles[n] = ArticleTo(a, pos)
         /\ a \notin HeadsTo(pos) => Targets = {}
<1> DEFINE H == HeadsTo(pos)
           heads == InOrder(H)
<1>1. TypeOK /\ pos \in Nat /\ pos <= Len(page) + 1
  BY PageType DEF IInv, TypeOK
<1>2. /\ n \in Nat /\ articles = [k \in 1..n |-> ArticleTo(heads[k], pos)]
      /\ \A k \in 1..n : heads[k] \in H
      /\ \A i, j \in 1..n : heads[i] = heads[j] => i = j
  BY <1>1, PageParts
<1>3. \A x \in H : x \in At("h2") /\ x < pos
  BY DEF HeadsTo
<1>4. H \in SUBSET Nat /\ IsFiniteSet(H)
  BY <1>1, SetsTo
<1>5. \A x : ArticleTo(x, pos).title = page[x].text
  BY DEF ArticleTo
<1>6. /\ a \in Nat
      /\ a # 0 => a \in At("h2") /\ a < pos /\ \A i \in At("h2") : i < pos => i <= a
  BY <1>1, NearestIs
<1> HIDE DEF H, heads
<1>7. DOMAIN articles = 1..n /\ \A k \in 1..n : articles[k] = ArticleTo(heads[k], pos)
  BY <1>2
<1>8. \A k \in 1..n : articles[k].title = page[heads[k]].text
  BY <1>5, <1>7
<1>9. \A k \in 1..n : articles[k].title = current_h2 <=> heads[k] = a
  <2> SUFFICES ASSUME NEW k \in 1..n PROVE articles[k].title = current_h2 <=> heads[k] = a
    OBVIOUS
  <2>1. articles # <<>>
    <3>1. k \in DOMAIN articles
      BY <1>7
    <3> QED
      BY <3>1
  <2>2. a # 0 /\ page[a].text = current_h2
    BY <2>1 DEF IInv, H2IsNearest
  <2>3. a \in At("h2") /\ heads[k] \in At("h2")
    BY <1>2, <1>3, <1>6, <2>2
  <2>4. page[heads[k]].text = page[a].text => heads[k] = a
    BY <2>3 DEF Regular, DistinctTitles
  <2> QED
    BY <1>8, <2>2, <2>4
<1>10. Targets = {k \in 1..n : heads[k] = a}
  BY <1>7, <1>9 DEF Targets
<1>11. CASE a \in H
  <2>1. \A x \in H : x <= a
    <3>1. 0 \notin At("h2")
      BY <1>1, PageType DEF At
    <3>2. a # 0
      BY <1>3, <1>11, <3>1
    <3> QED
      BY <1>3, <1>6, <3>2
  <2>2. n \in 1..n /\ heads[n] = a
    BY <1>4, <1>11, <2>1, GreatestIsLast DEF H, heads
  <2>3. Targets = {n}
    BY <1>2, <1>10, <2>2
  <2>4. Target = n
    <3>1. \A x : x \in {n} /\ (\A y \in {n} : x <= y) <=> x = n
      BY <1>2
    <3>2. Min({n}) = n
      BY <3>1 DEF Min
    <3> QED
      BY <2>3, <3>2 DEF Target
  <2> QED
    BY <1>7, <1>11, <2>2, <2>3, <2>4 DEF H, heads
<1>12. CASE a \notin H
  BY <1>2, <1>10, <1>12 DEF H
<1> QED
  BY <1>11, <1>12 DEF H

(* So too with the sub-categories of that article.                         *)
LEMMA SubTargetIsLast ==
  ASSUME IInv, Regular, articles = PageTo(pos), pos <= Len(page),
         NEW a, a = Nearest("h2", pos), a \in HeadsTo(pos), NEW b, b = Nearest("h3", pos),
         NEW m, m = Cardinality(SubsTo(a, pos))
  PROVE  /\ b \in SubsTo(a, pos) => /\ m \in 1..m /\ InOrder(SubsTo(a, pos))[m] = b
                                    /\ SubTargets = {m} /\ Min(SubTargets) = m
         /\ b \notin SubsTo(a, pos) => SubTargets = {}
<1> DEFINE S == SubsTo(a, pos)
           subs == InOrder(S)
<1>1. TypeOK /\ pos \in Nat /\ pos <= Len(page) + 1 /\ Len(page) \in Nat
  BY PageType DEF IInv, TypeOK
<1>2. PICK n : n = Cardinality(HeadsTo(pos))
  OBVIOUS
<1>3. Target = n /\ n \in DOMAIN articles /\ articles[n] = ArticleTo(a, pos)
  BY <1>2, TargetIsLast
<1>4. /\ m \in Nat
      /\ ArticleTo(a, pos) = [title |-> page[a].text, subs |-> [j \in 1..m |-> SubTo(a, subs[j], pos)]]
      /\ \A j \in 1..m : subs[j] \in S
      /\ \A i, j \in 1..m : subs[i] = subs[j] => i = j
  BY <1>1, ArticleParts
<1>5. S \in SUBSET Nat /\ IsFiniteSet(S)
  BY <1>1, SetsTo
<1>6. \A s \in S : s \in At("h3") /\ s < pos /\ s > a /\ Nearest("h2", s) = a
  BY DEF SubsTo
<1>7. /\ a \in Nat
      /\ a # 0 => a \in At("h2") /\ a < pos /\ \A i \in At("h2") : i < pos => i <= a
  BY <1>1, NearestIs
<1>8. /\ b \in Nat
      /\ b # 0 => b \in At("h3") /\ b < pos /\ \A i \in At("h3") : i < pos => i <= b
      /\ b = 0 => \A i \in At("h3") : ~(i < pos)
  BY <1>1, NearestIs
<1>9. \A j : SubTo(a, subs[j], pos).title = page[subs[j]].text
  BY DEF SubTo
<1>10. a # 0
  <2>1. a \in At("h2")
    BY DEF HeadsTo
  <2>2. 0 \notin DOMAIN page
    BY <1>1, PageType
  <2> QED
    BY <2>1, <2>2 DEF At
<1> HIDE DEF S, subs
<1>11. \A x : x \in DOMAIN articles[Target].subs <=> x \in 1..m
  BY <1>3, <1>4
<1>12. \A j \in 1..m : articles[Target].subs[j].title = page[subs[j]].text
  BY <1>3, <1>4, <1>9
<1>13. ASSUME S # {} PROVE b \in S /\ b \in At("h3") /\ Nearest("h2", b) = a /\ \A s \in S : s <= b
  <2>1. PICK s \in S : TRUE
    BY <1>13
  <2>2. s \in At("h3") /\ s < pos /\ s > a /\ s \in Nat
    BY <1>5, <1>6
  <2>3. b # 0
    BY <1>8, <2>2
  <2>4. b \in At("h3") /\ b < pos /\ \A t \in S : t <= b
    BY <1>6, <1>8, <2>3
  <2>5. b > a
    BY <1>7, <1>8, <2>2, <2>4
  <2>6. PICK h : h = Nearest("h2", b)
    OBVIOUS
  <2>7. b <= Len(page) + 1
    BY <1>1, <1>8, <2>4
  <2>8. /\ h \in Nat
        /\ h # 0 => h \in At("h2") /\ h < b /\ \A i \in At("h2") : i < b => i <= h
        /\ h = 0 => \A i \in At("h2") : ~(i < b)
    BY <1>1, <1>8, <2>6, <2>7, NearestIs
  <2>9. a \in At("h2") /\ a < b
    BY <1>7, <1>8, <1>10, <2>5
  <2>10. h \in At("h2") /\ h < b /\ a <= h
    BY <2>8, <2>9
  <2>11. h <= a
    <3>1. h < pos
      BY <1>1, <1>8, <2>4, <2>8, <2>10
    <3> QED
      BY <1>7, <1>10, <2>10, <3>1
  <2>12. h = a
    BY <1>7, <2>8, <2>10, <2>11
  <2> QED
    BY <2>4, <2>5, <2>6, <2>12 DEF SubsTo, S
<1>14. \A j \in 1..m : articles[Target].subs[j].title = current_h3 <=> subs[j] = b
  <2> SUFFICES ASSUME NEW j \in 1..m PROVE articles[Target].subs[j].title = current_h3 <=> subs[j] = b
    OBVIOUS
  <2>1. subs[j] \in S /\ S # {}
    BY <1>4
  <2>2. articles[n].subs # <<>>
    BY <1>3, <1>11
  <2>3. page[b].text = current_h3
    BY <1>3, <2>2 DEF IInv, H3IsNearest
  <2>4. subs[j] \in At("h3") /\ Nearest("h2", subs[j]) = Nearest("h2", b) /\ b \in At("h3")
    BY <1>6, <1>13, <2>1
  <2>5. page[subs[j]].text = page[b].text => subs[j] = b
    BY <2>4 DEF Regular, DistinctTitles
  <2> QED
    BY <1>12, <2>3, <2>5
<1>15. SubTargets = {j \in 1..m : subs[j] = b}
  BY <1>11, <1>14 DEF SubTargets
<1>16. CASE b \in S
  <2>1. m \in 1..m /\ subs[m] = b
    BY <1>5, <1>13, <1>16, GreatestIsLast DEF S, subs
  <2>2. SubTargets = {m}
    BY <1>4, <1>15, <2>1
  <2>3. Min(SubTargets) = m
    <3>1. \A x : x \in {m} /\ (\A y \in {m} : x <= y) <=> x = m
      BY <1>4
    <3>2. Min({m}) = m
      BY <3>1 DEF Min
    <3> QED
      BY <2>2, <3>2
  <2> QED
    BY <1>16, <2>1, <2>2, <2>3 DEF S, subs
<1>17. CASE b \notin S
  BY <1>4, <1>15, <1>17 DEF S
<1> QED
  BY <1>16, <1>17 DEF S

-----------------------------------------------------------------------------
(* A change below one heading is a change of its article.                  *)
LEMMA PageChanges ==
  ASSUME TypeOK, NEW r, articles = PageTo(pos), HeadsTo(r) = HeadsTo(pos),
         NEW n, n = Cardinality(HeadsTo(pos)), n \in 1..n,
         NEW a, a = InOrder(HeadsTo(pos))[n], NEW x, x = ArticleTo(a, r),
         \A h \in HeadsTo(pos) : h # a => ArticleTo(h, r) = ArticleTo(h, pos)
  PROVE  PageTo(r) = [articles EXCEPT ![n] = x]
<1> DEFINE heads == InOrder(HeadsTo(pos))
<1>1. /\ n \in Nat /\ articles = [k \in 1..n |-> ArticleTo(heads[k], pos)]
      /\ \A k \in 1..n : heads[k] \in HeadsTo(pos)
      /\ \A i, j \in 1..n : heads[i] = heads[j] => i = j
  BY PageParts
<1>2. PageTo(r) = [k \in 1..n |-> ArticleTo(heads[k], r)]
  BY PageParts
<1>3. heads[n] = a
  OBVIOUS
<1> HIDE DEF heads
<1>4. \A k \in 1..n : ArticleTo(heads[k], r) = IF k = n THEN x ELSE articles[k]
  <2> SUFFICES ASSUME NEW k \in 1..n
               PROVE  ArticleTo(heads[k], r) = IF k = n THEN x ELSE articles[k]
    OBVIOUS
  <2>1. articles[k] = ArticleTo(heads[k], pos) /\ heads[k] \in HeadsTo(pos)
    BY <1>1
  <2>2. CASE k = n
    BY <1>3, <2>2
  <2>3. CASE k # n
    <3>1. heads[k] # a
      BY <1>1, <1>3, <2>3
    <3> QED
      BY <2>1, <2>3, <3>1
  <2> QED
    BY <2>2, <2>3
<1>5. DOMAIN articles = 1..n
  BY <1>1
<1>6. PageTo(r) = [k \in 1..n |-> IF k = n THEN x ELSE articles[k]]
  BY <1>2, <1>4
<1> QED
  BY <1>5, <1>6

(* An h3 below an article is its last sub-category, with no contents yet.  *)
LEMMA ArticleGrows ==
  ASSUME TypeOK, pos <= Len(page), NEW a, NEW r, r = pos + 1,
         SubsTo(a, r) = SubsTo(a, pos) \cup {pos}, \A b : DocsTo(a, b, r) = DocsTo(a, b, pos),
         NEW t, t = ArticleTo(a, pos), t \in ArticleOn(page)
  PROVE  ArticleTo(a, r) = [t EXCEPT !.subs = Append(@, [title |-> page[pos].text, contents |-> <<>>])]
<1> DEFINE new == [title |-> page[pos].text, contents |-> <<>>]
<1>1. /\ pos \in Nat
      /\ \A h \in SubsTo(a, pos) : h < pos
  BY SetsGrow
<1>2. SubsTo(a, pos) \in SUBSET Nat /\ IsFiniteSet(SubsTo(a, pos))
  BY SetsTo
<1>3. PICK m : m = Cardinality(SubsTo(a, pos))
  OBVIOUS
<1>4. /\ m \in Nat
      /\ t = [title |-> page[a].text,
              subs |-> [j \in 1..m |-> SubTo(a, InOrder(SubsTo(a, pos))[j], pos)]]
  BY <1>3, ArticleParts
<1>5. InOrder(SubsTo(a, pos)) \in Seq(Nat) /\ Len(InOrder(SubsTo(a, pos))) = m
  BY <1>2, <1>3, InOrderParts
<1>6. Cardinality(SubsTo(a, r)) = m + 1 /\ InOrder(SubsTo(a, r)) = Append(InOrder(SubsTo(a, pos)), pos)
  BY <1>1, <1>2, <1>3, OrderGrows
<1>7. ArticleTo(a, r) = [title |-> page[a].text,
                         subs |-> [j \in 1..(m + 1) |-> SubTo(a, InOrder(SubsTo(a, r))[j], r)]]
  <2>1. PICK l : l = m + 1
    OBVIOUS
  <2> QED
    BY <1>6, <2>1, ArticleParts
<1>8. InOrder(SubsTo(a, r))[m + 1] = pos /\ \A j \in 1..m : InOrder(SubsTo(a, r))[j] = InOrder(SubsTo(a, pos))[j]
  BY <1>1, <1>4, <1>5, <1>6
<1>9. \A b : SubTo(a, b, r) = SubTo(a, b, pos)
  BY DEF SubTo
<1>10. SubTo(a, pos, pos) = new
  <2>1. DocsTo(a, pos, pos) = {}
    BY <1>1, PageType DEF DocsTo, At
  <2>2. PICK l : l = Cardinality(DocsTo(a, pos, pos))
    OBVIOUS
  <2>3. l = 0
    BY <2>1, <2>2, FS_EmptySet
  <2>4. DocsTo(a, pos, pos) \in SUBSET Nat /\ IsFiniteSet(DocsTo(a, pos, pos))
    BY SetsTo
  <2>5. InOrder(DocsTo(a, pos, pos)) \in Seq(Nat) /\ Len(InOrder(DocsTo(a, pos, pos))) = l
    BY <2>2, <2>4, InOrderParts
  <2>6. InOrder(DocsTo(a, pos, pos)) = <<>>
    <3>1. PICK f \in Seq(Nat) : f = InOrder(DocsTo(a, pos, pos))
      BY <2>5
    <3>2. Len(f) = 0
      BY <2>3, <2>5, <3>1
    <3>3. f = <<>>
      BY <3>2
    <3> QED
      BY <3>1, <3>3
  <2> QED
    BY <2>6 DEF SubTo
<1> HIDE DEF new
<1>11. t.subs \in Seq(SubOn(page)) /\ Len(t.subs) = m
  <2>1. t.subs \in Seq(SubOn(page))
    BY DEF ArticleOn
  <2>2. DOMAIN t.subs = 1..m
    BY <1>4
  <2>3. PICK g \in Seq(SubOn(page)) : g = t.subs
    BY <2>1
  <2>4. DOMAIN g = 1..m /\ Len(g) \in Nat
    BY <2>2, <2>3
  <2>5. Len(g) = m
    BY <1>4, <2>4
  <2> QED
    BY <2>1, <2>3, <2>5
<1>12. \A j \in 1..m : t.subs[j] = SubTo(a, InOrder(SubsTo(a, pos))[j], pos)
  BY <1>4
<1>13. PICK f : f = [j \in 1..(m + 1) |-> SubTo(a, InOrder(SubsTo(a, r))[j], r)]
  OBVIOUS
<1>14. f = Append(t.subs, new)
  <2>1. PICK g \in Seq(SubOn(page)) : g = t.subs
    BY <1>11
  <2>2. PICK h : h = Append(g, new)
    OBVIOUS
  <2>3. h = [j \in 1..(m + 1) |-> h[j]] /\ h[m + 1] = new /\ \A j \in 1..m : h[j] = g[j]
    BY <1>4, <1>11, <2>1, <2>2
  <2>4. \A j \in 1..(m + 1) : j \in 1..m \/ j = m + 1
    BY <1>4
  <2>5. m + 1 \in 1..(m + 1) /\ \A j \in 1..m : j \in 1..(m + 1)
    BY <1>4
  <2>6. f[m + 1] = new
    BY <1>8, <1>9, <1>10, <1>13, <2>5
  <2>7. \A j \in 1..m : f[j] = g[j]
    BY <1>8, <1>9, <1>12, <1>13, <2>1, <2>5
  <2>8. f = [j \in 1..(m + 1) |-> f[j]]
    BY <1>13
  <2>9. \A j \in 1..(m + 1) : f[j] = h[j]
    BY <2>3, <2>4, <2>6, <2>7
  <2>10. f = h
    BY <2>3, <2>8, <2>9
  <2> QED
    BY <2>1, <2>2, <2>10
<1>15. ArticleTo(a, r) = [title |-> page[a].text, subs |-> f]
  BY <1>7, <1>13
<1>16. PICK s : s = t.subs
  OBVIOUS
<1>17. t = [title |-> page[a].text, subs |-> s]
  BY <1>4, <1>16
<1>18. ArticleTo(a, r) = [t EXCEPT !.subs = f]
  BY <1>15, <1>17
<1> QED
  BY <1>14, <1>18 DEF new

(* A paragraph is the last below its sub-category.                         *)
LEMMA ContentsGrow ==
  ASSUME TypeOK, pos <= Len(page), NEW a, NEW b \in SubsTo(a, pos), NEW r, r = pos + 1,
         SubsTo(a, r) = SubsTo(a, pos),
         \A c : DocsTo(a, c, r) = IF c = b THEN DocsTo(a, c, pos) \cup {pos} ELSE DocsTo(a, c, pos),
         NEW m, m = Cardinality(SubsTo(a, pos)), m \in 1..m, InOrder(SubsTo(a, pos))[m] = b,
         NEW t, t = ArticleTo(a, pos)
  PROVE  \A x : x = [t EXCEPT !.subs[m].contents = Append(@, pos)] => ArticleTo(a, r) = x
<1> DEFINE subs == InOrder(SubsTo(a, pos))
<1>1. /\ pos \in Nat
      /\ \A h \in DocsTo(a, b, pos) : h < pos
  BY SetsGrow
<1>2. /\ m \in Nat /\ t = [title |-> page[a].text, subs |-> [j \in 1..m |-> SubTo(a, subs[j], pos)]]
      /\ \A i, j \in 1..m : subs[i] = subs[j] => i = j
  BY ArticleParts
<1>3. ArticleTo(a, r) = [title |-> page[a].text, subs |-> [j \in 1..m |-> SubTo(a, subs[j], r)]]
  BY ArticleParts
<1>4. subs[m] = b
  OBVIOUS
<1>5. PICK old : old = SubTo(a, b, pos)
  OBVIOUS
<1>6. PICK new : new = SubTo(a, b, r)
  OBVIOUS
<1>7. new = [old EXCEPT !.contents = Append(@, pos)]
  <2>1. DocsTo(a, b, pos) \in SUBSET Nat /\ IsFiniteSet(DocsTo(a, b, pos))
    BY SetsTo
  <2>2. DocsTo(a, b, r) = DocsTo(a, b, pos) \cup {pos}
    OBVIOUS
  <2>3. InOrder(DocsTo(a, b, r)) = Append(InOrder(DocsTo(a, b, pos)), pos)
    BY <1>1, <2>1, <2>2, OrderGrows
  <2>4. /\ old = [title |-> page[b].text, contents |-> InOrder(DocsTo(a, b, pos))]
        /\ new = [title |-> page[b].text, contents |-> InOrder(DocsTo(a, b, r))]
    BY <1>5, <1>6 DEF SubTo
  <2>5. PICK c : c = InOrder(DocsTo(a, b, pos))
    OBVIOUS
  <2>6. PICK d : d = Append(c, pos)
    OBVIOUS
  <2>7. old = [title |-> page[b].text, contents |-> c] /\ new = [title |-> page[b].text, contents |-> d]
    BY <2>3, <2>4, <2>5, <2>6
  <2>8. new = [old EXCEPT !.contents = d] /\ old.contents = c
    BY <2>7
  <2> QED
    BY <2>6, <2>8
<1> HIDE DEF subs
<1>8. PICK f : f = [j \in 1..m |-> SubTo(a, subs[j], pos)]
  OBVIOUS
<1>9. PICK g : g = [j \in 1..m |-> SubTo(a, subs[j], r)]
  OBVIOUS
<1>10. \A c : c # b => SubTo(a, c, r) = SubTo(a, c, pos)
  BY DEF SubTo
<1>11. f[m] = old /\ g[m] = new /\ \A j \in 1..m : j # m => g[j] = f[j]
  BY <1>2, <1>4, <1>5, <1>6, <1>8, <1>9, <1>10
<1>12. DOMAIN f = 1..m /\ f = [j \in 1..m |-> f[j]] /\ g = [j \in 1..m |-> g[j]]
  BY <1>8, <1>9
<1>13. g = [f EXCEPT ![m] = new]
  BY <1>11, <1>12
<1>14. t = [title |-> page[a].text, subs |-> f] /\ ArticleTo(a, r) = [title |-> page[a].text, subs |-> g]
  BY <1>2, <1>3, <1>8, <1>9
<1>15. [t EXCEPT !.subs[m].contents = Append(@, pos)] = [t EXCEPT !.subs = [f EXCEPT ![m] = new]]
  BY <1>7, <1>11, <1>14
<1>16. [t EXCEPT !.subs = [f EXCEPT ![m] = new]] = [title |-> page[a].text, subs |-> g]
  BY <1>13, <1>14
<1>17. ArticleTo(a, r) = [t EXCEPT !.subs[m].contents = Append(@, pos)]
  BY <1>14, <1>15, <1>16
<1> QED
  BY <1>17

-----------------------------------------------------------------------------
(* Looking up by text finds what position says: an h3 ...                  *)
LEMMA H3Reads ==
  ASSUME IInv, Regular, articles = PageTo(pos), H3, NEW r, r = pos + 1
  PROVE  articles' = PageTo(r)
<1>1. pos <= Len(page) /\ page[pos].kind = "h3" /\ TypeOK
  BY DEF H3, Read, IInv
<1>2. PICK a : a = Nearest("h2", pos)
  OBVIOUS
<1>3. PICK n : n = Cardinality(HeadsTo(pos))
  OBVIOUS
<1>4. /\ a \in HeadsTo(pos) => /\ n \in 1..n /\ InOrder(HeadsTo(pos))[n] = a
                               /\ Targets = {n} /\ Target = n
                               /\ n \in DOMAIN articles /\ articles[n] = ArticleTo(a, pos)
      /\ a \notin HeadsTo(pos) => Targets = {}
  BY <1>1, <1>2, <1>3, TargetIsLast
<1>5. /\ HeadsTo(r) = HeadsTo(pos)
      /\ \A h : SubsTo(h, r) = IF pos > h /\ h = a THEN SubsTo(h, pos) \cup {pos} ELSE SubsTo(h, pos)
      /\ \A h, b : DocsTo(h, b, r) = DocsTo(h, b, pos)
      /\ \A h \in HeadsTo(pos) : h < pos
  BY <1>1, <1>2, SetsGrow
<1>6. CASE a \notin HeadsTo(pos)
  <2>1. articles' = articles
    BY <1>4, <1>6 DEF H3
  <2>2. PageTo(r) = PageTo(pos)
    <3>1. \A h \in HeadsTo(pos) : SubsTo(h, r) = SubsTo(h, pos)
      BY <1>5, <1>6
    <3> QED
      BY <1>1, <1>5, <3>1, PageStays
  <2> QED
    BY <2>1, <2>2
<1>7. CASE a \in HeadsTo(pos)
  <2> DEFINE new == [title |-> page[pos].text, contents |-> <<>>]
  <2>1. /\ n \in 1..n /\ InOrder(HeadsTo(pos))[n] = a /\ n \in DOMAIN articles
        /\ articles[n] = ArticleTo(a, pos)
    BY <1>4, <1>7
  <2>2. articles' = [articles EXCEPT ![n].subs = Append(@, new)]
    BY <1>4, <1>7 DEF H3, Text
  <2>3. articles[n] \in ArticleOn(page)
    BY <2>1, ArticleType
  <2>4. SubsTo(a, r) = SubsTo(a, pos) \cup {pos}
    <3>1. pos > a
      <4>1. a < pos /\ a \in Nat /\ pos \in Nat
        BY <1>1, <1>5, <1>7, SetsTo DEF TypeOK
      <4> QED
        BY <4>1
    <3> QED
      BY <1>5, <3>1
  <2>5. PICK t : t = articles[n]
    OBVIOUS
  <2>6. PICK x : x = ArticleTo(a, r)
    OBVIOUS
  <2>7. x = [t EXCEPT !.subs = Append(@, new)]
    BY <1>1, <1>5, <2>1, <2>3, <2>4, <2>5, <2>6, ArticleGrows
  <2>8. \A h \in HeadsTo(pos) : h # a => ArticleTo(h, r) = ArticleTo(h, pos)
    <3> SUFFICES ASSUME NEW h \in HeadsTo(pos), h # a PROVE ArticleTo(h, r) = ArticleTo(h, pos)
      OBVIOUS
    <3>1. SubsTo(h, r) = SubsTo(h, pos) /\ \A b : DocsTo(h, b, r) = DocsTo(h, b, pos)
      BY <1>5
    <3> QED
      BY <3>1, ArticleStays
  <2>9. PageTo(r) = [articles EXCEPT ![n] = x]
    BY <1>1, <1>3, <1>5, <2>1, <2>6, <2>8, PageChanges
  <2> HIDE DEF new
  <2> QED
    BY <2>2, <2>5, <2>7, <2>9
<1> QED
  BY <1>6, <1>7

(* ... and a paragraph.                                                    *)
LEMMA DocReads ==
  ASSUME IInv, Regular, articles = PageTo(pos), Doc, NEW r, r = pos + 1
  PROVE  articles' = PageTo(r)
<1>1. pos <= Len(page) /\ page[pos].kind = "doc" /\ TypeOK /\ Targets # {}
  BY DEF Doc, Read, IInv
<1>2. PICK a : a = Nearest("h2", pos)
  OBVIOUS
<1>3. PICK n : n = Cardinality(HeadsTo(pos))
  OBVIOUS
<1>4. /\ a \in HeadsTo(pos) /\ n \in 1..n /\ InOrder(HeadsTo(pos))[n] = a
      /\ Target = n
      /\ n \in DOMAIN articles /\ articles[n] = ArticleTo(a, pos)
  BY <1>1, <1>2, <1>3, TargetIsLast
<1>5. PICK b : b = Nearest("h3", pos)
  OBVIOUS
<1>6. PICK m : m = Cardinality(SubsTo(a, pos))
  OBVIOUS
<1>7. /\ b \in SubsTo(a, pos) => /\ m \in 1..m /\ InOrder(SubsTo(a, pos))[m] = b
                                 /\ SubTargets = {m} /\ Min(SubTargets) = m
      /\ b \notin SubsTo(a, pos) => SubTargets = {}
  BY <1>1, <1>2, <1>4, <1>5, <1>6, SubTargetIsLast
<1>8. /\ HeadsTo(r) = HeadsTo(pos)
      /\ \A h : SubsTo(h, r) = SubsTo(h, pos)
      /\ \A h, c : DocsTo(h, c, r) = IF pos > h /\ h = a /\ pos > c /\ c = b
                                     THEN DocsTo(h, c, pos) \cup {pos} ELSE DocsTo(h, c, pos)
      /\ \A h \in HeadsTo(pos) : h < pos
      /\ \A h : \A c \in SubsTo(h, pos) : c < pos
  BY <1>1, <1>2, <1>5, SetsGrow
<1>9. CASE b \notin SubsTo(a, pos)
  <2>1. articles' = articles
    BY <1>7, <1>9 DEF Doc
  <2>2. ArticleTo(a, r) = ArticleTo(a, pos)
    <3>1. \A c \in SubsTo(a, pos) : DocsTo(a, c, r) = DocsTo(a, c, pos)
      BY <1>8, <1>9
    <3>2. \A c \in SubsTo(a, pos) : SubTo(a, c, r) = SubTo(a, c, pos)
      BY <3>1 DEF SubTo
    <3>3. \A j \in 1..m : InOrder(SubsTo(a, pos))[j] \in SubsTo(a, pos)
      BY <1>1, <1>6, ArticleParts
    <3>4. ArticleTo(a, pos) = [title |-> page[a].text,
                     subs |-> [j \in 1..m |-> SubTo(a, InOrder(SubsTo(a, pos))[j], pos)]]
      BY <1>1, <1>6, ArticleParts
    <3>5. ArticleTo(a, r) = [title |-> page[a].text,
                     subs |-> [j \in 1..m |-> SubTo(a, InOrder(SubsTo(a, r))[j], r)]]
      <4>1. m = Cardinality(SubsTo(a, r))
        BY <1>6, <1>8
      <4> QED
        BY <1>1, <4>1, ArticleParts
    <3>6. SubsTo(a, r) = SubsTo(a, pos)
      BY <1>8
    <3> QED
      BY <3>2, <3>3, <3>4, <3>5, <3>6
  <2>3. \A h \in HeadsTo(pos) : h # a => ArticleTo(h, r) = ArticleTo(h, pos)
    <3> SUFFICES ASSUME NEW h \in HeadsTo(pos), h # a PROVE ArticleTo(h, r) = ArticleTo(h, pos)
      OBVIOUS
    <3>1. SubsTo(h, r) = SubsTo(h, pos) /\ \A c : DocsTo(h, c, r) = DocsTo(h, c, pos)
      BY <1>8
    <3> QED
      BY <3>1, ArticleStays
  <2>4. PageTo(r) = [articles EXCEPT ![n] = articles[n]]
    <3>1. PICK x : x = articles[n]
      OBVIOUS
    <3>2. x = ArticleTo(a, r)
      BY <1>4, <2>2, <3>1
    <3> QED
      BY <1>1, <1>3, <1>4, <1>8, <2>3, <3>1, <3>2, PageChanges
  <2>5. articles \in Seq(ArticleOn(page))
    BY <1>1 DEF TypeOK
  <2> QED
    BY <2>1, <2>4, <2>5
<1>10. CASE b \in SubsTo(a, pos)
  <2>1. m \in 1..m /\ InOrder(SubsTo(a, pos))[m] = b /\ SubTargets # {} /\ Min(SubTargets) = m
    BY <1>7, <1>10
  <2>2. articles' = [articles EXCEPT ![n].subs[m].contents = Append(@, pos)]
    BY <1>4, <2>1 DEF Doc
  <2>3. pos > a /\ pos > b
    <3>1. a < pos /\ b < pos
      BY <1>4, <1>8, <1>10
    <3>2. a \in Nat /\ b \in Nat /\ pos \in Nat
      BY <1>1, <1>4, <1>10, SetsTo DEF TypeOK
    <3> QED
      BY <3>1, <3>2
  <2>4. /\ SubsTo(a, r) = SubsTo(a, pos)
        /\ \A c : DocsTo(a, c, r) = IF c = b THEN DocsTo(a, c, pos) \cup {pos} ELSE DocsTo(a, c, pos)
    BY <1>8, <2>3
  <2>5. PICK t : t = articles[n]
    OBVIOUS
  <2>6. PICK x : x = [t EXCEPT !.subs[m].contents = Append(@, pos)]
    OBVIOUS
  <2>7. t = ArticleTo(a, pos)
    BY <1>4, <2>5
  <2>8. ArticleTo(a, r) = x
    BY <1>1, <1>6, <1>10, <2>1, <2>4, <2>6, <2>7, ContentsGrow
  <2>9. \A h \in HeadsTo(pos) : h # a => ArticleTo(h, r) = ArticleTo(h, pos)
    <3> SUFFICES ASSUME NEW h \in HeadsTo(pos), h # a PROVE ArticleTo(h, r) = ArticleTo(h, pos)
      OBVIOUS
    <3>1. SubsTo(h, r) = SubsTo(h, pos) /\ \A c : DocsTo(h, c, r) = DocsTo(h, c, pos)
      BY <1>8
    <3> QED
      BY <3>1, ArticleStays
  <2>10. PageTo(r) = [articles EXCEPT ![n] = x]
    BY <1>1, <1>3, <1>4, <1>8, <2>8, <2>9, PageChanges
  <2> QED
    BY <2>2, <2>5, <2>6, <2>10
<1> QED
  BY <1>9, <1>10

(* A paragraph without an article is met only where h2 are passed over.    *)
LEMMA OrphansOnlyWhenChoosing ==
  ASSUME IInv, Regular, articles = PageTo(pos), OrphanDoc, NEW r, r = pos + 1
  PROVE  PageTo(r) = articles /\ loop = "choose"
<1>1. pos <= Len(page) /\ page[pos].kind = "doc" /\ TypeOK /\ Targets = {}
  BY DEF OrphanDoc, Read, IInv
<1>2. PICK a : a = Nearest("h2", pos)
  OBVIOUS
<1>3. PICK n : n = Cardinality(HeadsTo(pos))
  OBVIOUS
<1>4. a \notin HeadsTo(pos)
  <2> SUFFICES ASSUME a \in HeadsTo(pos) PROVE FALSE
    OBVIOUS
  <2>1. Targets = {n}
    BY <1>1, <1>2, <1>3, TargetIsLast
  <2> QED
    BY <1>1, <2>1
<1>5. /\ HeadsTo(r) = HeadsTo(pos)
      /\ \A h : SubsTo(h, r) = SubsTo(h, pos)
      /\ \A h, c : h # a => DocsTo(h, c, r) = DocsTo(h, c, pos)
  BY <1>1, <1>2, SetsGrow
<1>6. PageTo(r) = PageTo(pos)
  <2>1. \A h \in HeadsTo(pos) : \A c : DocsTo(h, c, r) = DocsTo(h, c, pos)
    BY <1>4, <1>5
  <2> QED
    BY <1>1, <1>5, <2>1, PageStays
<1>7. ASSUME loop # "choose" PROVE FALSE
  <2>1. pos \in Nat \ {0} /\ Len(page) \in Nat /\ DOMAIN page = 1..Len(page)
    BY <1>1, PageType DEF TypeOK
  <2>2. pos # 1
    BY <1>1 DEF Regular
  <2>3. 1 \in At("h2") /\ 1 < pos
    BY <1>1, <2>1, <2>2 DEF Regular, At
  <2>4. /\ a \in Nat
        /\ a # 0 => a \in At("h2") /\ a < pos /\ \A i \in At("h2") : i < pos => i <= a
        /\ a = 0 => \A i \in At("h2") : ~(i < pos)
    <3>1. pos \in Nat /\ pos <= Len(page) + 1
      BY <1>1, <2>1
    <3> QED
      BY <1>1, <1>2, <3>1, NearestIs
  <2>5. a \in At("h2") /\ a < pos
    BY <2>3, <2>4
  <2> QED
    BY <1>4, <1>7, <2>5 DEF HeadsTo
<1> QED
  BY <1>6, <1>7

-----------------------------------------------------------------------------
(* ReadSoFar is inductive with IInv.                                       *)
LEMMA FirstReads == Init => ReadSoFar
<1> SUFFICES ASSUME Init, Regular PROVE articles = PageTo(pos) /\ ~left
  BY DEF ReadSoFar
<1>1. TypeOK
  BY InitHolds DEF IInv
<1>2. pos = 1 /\ articles = <<>> /\ left = FALSE
  BY DEF Init
<1>3. HeadsTo(pos) = {}
  <2>1. \A i \in DOMAIN page : i \in Nat /\ i # 0
    BY <1>1, PageType
  <2>2. \A i \in DOMAIN page : ~(i < pos)
    BY <1>2, <2>1
  <2> QED
    BY <2>2 DEF HeadsTo, At
<1>4. PICK n : n = Cardinality(HeadsTo(pos))
  OBVIOUS
<1>5. n = 0
  BY <1>3, <1>4, FS_EmptySet
<1>6. PageTo(pos) = [k \in 1..n |-> ArticleTo(InOrder(HeadsTo(pos))[k], pos)]
  BY <1>1, <1>4, PageParts
<1>7. PageTo(pos) = <<>>
  BY <1>5, <1>6
<1> QED
  BY <1>2, <1>7

LEMMA NextReads == IInv /\ ReadSoFar /\ [Next]_vars => ReadSoFar'
<1> SUFFICES ASSUME IInv, ReadSoFar, [Next]_vars, Regular' PROVE (articles = PageTo(pos))' /\ ~left'
  BY DEF ReadSoFar
<1>1. page' = page /\ loop' = loop
  BY DEF Next, H2, H3, Doc, OrphanDoc, PassOver, NextDiv, Read, vars
<1>2. PICK r : r = pos'
  OBVIOUS
<1>3. PageTo(pos)' = PageTo(r) /\ Regular
  BY <1>1, <1>2, PositionsMove
<1>4. articles = PageTo(pos) /\ ~left /\ TypeOK
  BY <1>3 DEF ReadSoFar, IInv
<1> SUFFICES articles' = PageTo(r) /\ ~left'
  BY <1>3
<1>5. CASE H2
  <2>1. /\ pos <= Len(page) /\ page[pos].kind = "h2" /\ r = pos + 1 /\ left' = left
        /\ articles' = IF loop = "choose" /\ page[pos].text \notin Topics THEN articles
                       ELSE Append(articles, [title |-> page[pos].text, subs |-> <<>>])
    BY <1>2, <1>5 DEF H2, Read, Text
  <2>2. PageTo(r) = IF loop = "choose" /\ page[pos].text \notin Topics THEN articles
                    ELSE Append(articles, [title |-> page[pos].text, subs |-> <<>>])
    BY <1>4, <2>1, PageGrows
  <2> QED
    BY <1>4, <2>1, <2>2
<1>6. CASE H3
  <2>1. r = pos + 1 /\ left' = left
    BY <1>2, <1>6 DEF H3, Read
  <2>2. articles' = PageTo(r)
    BY <1>3, <1>4, <1>6, <2>1, H3Reads
  <2> QED
    BY <1>4, <2>1, <2>2
<1>7. CASE Doc
  <2>1. r = pos + 1 /\ left' = left
    BY <1>2, <1>7 DEF Doc, Read
  <2>2. articles' = PageTo(r)
    BY <1>3, <1>4, <1>7, <2>1, DocReads
  <2> QED
    BY <1>4, <2>1, <2>2
<1>8. CASE OrphanDoc
  <2>1. r = pos + 1 /\ left' = (loop # "choose") /\ articles' = articles
    BY <1>2, <1>8 DEF OrphanDoc, Read
  <2>2. PageTo(r) = articles /\ loop = "choose"
    BY <1>3, <1>4, <1>8, <2>1, OrphansOnlyWhenChoosing
  <2> QED
    BY <2>1, <2>2
<1>9. CASE PassOver
  BY <1>4, <1>9 DEF PassOver
<1>10. CASE NextDiv
  <2>1. pos <= Len(page) /\ page[pos].kind = "div" /\ r = pos + 1 /\ left' = FALSE /\ articles' = articles
    BY <1>2, <1>10 DEF NextDiv
  <2>2. /\ HeadsTo(r) = HeadsTo(pos)
        /\ \A h : SubsTo(h, r) = SubsTo(h, pos)
        /\ \A h, c : DocsTo(h, c, r) = DocsTo(h, c, pos)
    BY <1>4, <2>1, SetsGrow
  <2>3. PageTo(r) = PageTo(pos)
    BY <1>4, <2>2, PageStays
  <2> QED
    BY <1>4, <2>1, <2>3
<1>11. CASE UNCHANGED vars
  <2>1. r = pos /\ articles' = articles /\ left' = left
    BY <1>2, <1>11 DEF vars
  <2> QED
    BY <1>4, <2>1
<1> QED
  BY <1>5, <1>6, <1>7, <1>8, <1>9, <1>10, <1>11 DEF Next

(* Read to the end, what stands up to here is what stands on the page.     *)
LEMMA ReadToTheEnd == TypeOK /\ ReadSoFar => ReadsWellFormed
<1> SUFFICES ASSUME TypeOK, ReadSoFar, Done, Len(page) > 0, page[1].kind = "h2", DistinctTitles
             PROVE  articles = ByPosition
  BY DEF ReadsWellFormed
<1>1. articles = PageTo(pos)
  BY DEF ReadSoFar, Regular
<1>2. \A i \in DOMAIN page : i < pos
  <2>1. Len(page) \in Nat /\ DOMAIN page = 1..Len(page) /\ pos \in Nat /\ pos > Len(page)
    BY PageType DEF TypeOK, Done
  <2> QED
    BY <2>1
<1>3. HeadsTo(pos) = {a \in At("h2") : loop = "choose" => page[a].text \in Topics}
  BY <1>2 DEF HeadsTo, At
<1>4. ASSUME NEW a PROVE SubsTo(a, pos) = Below("h2", a, "h3")
  BY <1>2 DEF SubsTo, Below, At
<1>5. ASSUME NEW a, NEW b PROVE DocsTo(a, b, pos) = Below("h3", b, "doc") \cap Below("h2", a, "doc")
  BY <1>2 DEF DocsTo, Below, At
<1>6. ASSUME NEW a PROVE ArticleTo(a, pos) = ArticleAt(a)
  <2> DEFINE subs == InOrder(Below("h2", a, "h3"))
             S(b) == [title |-> page[b].text,
                      contents |-> InOrder(Below("h3", b, "doc") \cap Below("h2", a, "doc"))]
  <2>1. \A b : SubTo(a, b, pos) = S(b)
    BY <1>5 DEF SubTo
  <2>2. ArticleAt(a) = [title |-> page[a].text, subs |-> [j \in DOMAIN subs |-> S(subs[j])]]
    BY DEF ArticleAt
  <2>3. InOrder(SubsTo(a, pos)) = subs
    BY <1>4
  <2>4. ArticleTo(a, pos) = [title |-> page[a].text, subs |-> [j \in DOMAIN subs |-> SubTo(a, subs[j], pos)]]
    BY <2>3 DEF ArticleTo
  <2> HIDE DEF subs, S
  <2> QED
    BY <2>1, <2>2, <2>4
<1>7. PageTo(pos) = ByPosition
  BY <1>3, <1>6 DEF PageTo, ByPosition
<1> QED
  BY <1>1, <1>7

(* A page of any length that begins with an h2 and repeats no title is     *)
(* read to its end, and then the articles found by text are those found by *)
(* position: every sub-category in its article, every paragraph in its     *)
(* place, in the order of the page.                                        *)
THEOREM ReadInOrder == Spec => []ReadsWellFormed
<1>1. Init => IInv /\ ReadSoFar
  BY InitHolds, FirstReads
<1>2. IInv /\ ReadSoFar /\ [Next]_vars => (IInv /\ ReadSoFar)'
  BY NextHolds, NextReads
<1>3. IInv /\ ReadSoFar => ReadsWellFormed
  BY ReadToTheEnd DEF IInv
<1> QED
  BY <1>1, <1>2, <1>3, PTL DEF Spec

=============================================================================
