--------------------------- MODULE CatalogProofs ---------------------------
(***************************************************************************)
(* Proofs about Catalog, for any file, any number of processes and any     *)
(* number of imports and jobs.  The invariant has a half for the import,   *)
(* which no job disturbs, and a half for the jobs, which says what the     *)
(* copy of a job that runs still has in common with the collection.        *)
(***************************************************************************)
EXTENDS Catalog, FiniteSetTheorems, TLAPS

Doc == [row : DOMAIN Rows, articlesIds : (SUBSET Nat) \cup {unset},
        subCategory : BOOLEAN, subCategoryId : Ids \cup {nil, unset},
        localName : BOOLEAN, locations : {"tokyo", nil, unset},
        japaneseName : BOOLEAN, placed : BOOLEAN, names : Nat]
Article == [of : Nat, subs : Nat]
Import == [job : {"import"}, row : Nat \ {0}, doc : Nat, added : Nat, arts : SUBSET Nat]
Run == [job : Jobs, seen : Seq(Doc), left : SUBSET Nat, doc : Nat]

TypeOK ==
  /\ ingredients \in Seq(Doc)
  /\ articles \in Seq(Article)
  /\ importer \in Import \cup {Off}
  /\ runs \in [Procs -> Run \cup {Off}]
  /\ overlapped \in BOOLEAN

-----------------------------------------------------------------------------
(* The import has added exactly the articles of its document, and has not  *)
(* linked them.                                                            *)
ImportOK ==
  Importing /\ importer.doc # 0 =>
    /\ importer.doc \in DocIds
    /\ ingredients[importer.doc].row = importer.row
    /\ ingredients[importer.doc].articlesIds = unset
    /\ importer.arts = ArticlesOf(importer.doc)
    /\ IsFiniteSet(importer.arts)
    /\ Cardinality(importer.arts) = importer.added

NothingAddedYet ==
  Importing /\ importer.doc = 0 => importer.arts = {} /\ importer.added = 0

ArticlesHaveDoc == \A a \in DOMAIN articles : articles[a].of \in DocIds

ImportHalf == ImportOK /\ NothingAddedYet /\ ArticlesHaveDoc /\ LinkedIsWhole

(* What a document says of the jobs that wrote it.                         *)
DocsOK ==
  \A d \in DocIds :
    /\ ingredients[d].names = 0 /\ ingredients[d].placed => ingredients[d].localName
    /\ ingredients[d].locations # unset => ingredients[d].names >= 1

(* A copy is one of documents that are still there; a deleted name is not  *)
(* written again.                                                          *)
CopiesOK ==
  \A p \in Procs : Running(p) =>
    /\ runs[p].left \subseteq DOMAIN runs[p].seen
    /\ DOMAIN runs[p].seen \subseteq DocIds
    /\ \A d \in DOMAIN runs[p].seen :
         /\ Seen(p, d).row = ingredients[d].row
         /\ ingredients[d].subCategory => Seen(p, d).subCategory

(* The first "names" run on a document has the place in its copy, and the  *)
(* locations it will write are the first.                                  *)
NamesOK ==
  \A p \in Procs : runs[p].job = "names" => \A d \in DOMAIN runs[p].seen :
    \/ ingredients[d].names >= 2
    \/ /\ ingredients[d].names = 1
       /\ ingredients[d].placed => Seen(p, d).localName
       /\ d \in runs[p].left => ingredients[d].locations = unset

NamesTwice ==
  \A p, q \in Procs : p # q /\ runs[p].job = "names" /\ runs[q].job = "names" =>
    \A d \in DOMAIN runs[p].seen \cap DOMAIN runs[q].seen : ingredients[d].names >= 2

(* The only "replace" run finds every ID as in its copy.                   *)
ReplaceOK ==
  ~overlapped =>
    /\ \A p, q \in Procs : runs[p].job = "replace" /\ runs[q].job = "replace" => p = q
    /\ \A p \in Procs : runs[p].job = "replace" =>
         \A d \in runs[p].left : ingredients[d].subCategoryId = Seen(p, d).subCategoryId

JobHalf ==
  /\ DocsOK /\ CopiesOK /\ NamesOK /\ NamesTwice /\ ReplaceOK
  /\ PlaceLostByRerunOnly /\ NullIdOnlyWithoutName

IInv == TypeOK /\ ImportHalf /\ JobHalf

-----------------------------------------------------------------------------
(* What the import leaves alone: the fields the jobs go by.                *)
SameForJobs(x, y) ==
  /\ x.row = y.row
  /\ x.subCategory = y.subCategory /\ x.subCategoryId = y.subCategoryId
  /\ x.localName = y.localName /\ x.locations = y.locations
  /\ x.placed = y.placed /\ x.names = y.names

Fresh(x) ==
  /\ x.subCategoryId = unset /\ x.locations = unset
  /\ ~x.placed /\ x.names = 0

LEMMA ImportLeavesJobs ==
  ASSUME IInv, TypeOK', UNCHANGED <<runs, overlapped>>, DocIds \subseteq DocIds',
         \A d \in DocIds : SameForJobs(ingredients'[d], ingredients[d]),
         \A d \in DocIds' \ DocIds : Fresh(ingredients'[d])
  PROVE  JobHalf'
<1> USE DEF SameForJobs, Fresh
<1>1. DocsOK'
  BY DEF IInv, JobHalf, DocsOK
<1>2. CopiesOK'
  BY DEF IInv, JobHalf, CopiesOK, Running, Seen
<1>3. \A p \in Procs : runs[p].job \in Jobs =>
        /\ Running(p)
        /\ DOMAIN runs[p].seen \subseteq DocIds
        /\ runs[p].left \subseteq DOMAIN runs[p].seen
  BY DEF IInv, JobHalf, CopiesOK, Running, Off, Jobs
<1>4. NamesOK'
  BY <1>3 DEF IInv, JobHalf, NamesOK, Seen, Jobs
<1>5. NamesTwice'
  BY <1>3 DEF IInv, JobHalf, NamesTwice, Jobs
<1>6. ReplaceOK'
  BY <1>3 DEF IInv, JobHalf, ReplaceOK, Seen, Jobs
<1>7. PlaceLostByRerunOnly'
  BY RowsOK DEF IInv, JobHalf, PlaceLostByRerunOnly
<1>8. NullIdOnlyWithoutName'
  BY RowsOK DEF IInv, JobHalf, NullIdOnlyWithoutName
<1> QED
  BY <1>1, <1>2, <1>4, <1>5, <1>6, <1>7, <1>8 DEF JobHalf

LEMMA ImporterType ==
  ASSUME TypeOK, Importing
  PROVE  /\ importer \in Import
         /\ importer.row \in Nat \ {0} /\ importer.doc \in Nat
         /\ importer.added \in Nat /\ importer.arts \in SUBSET Nat
BY DEF TypeOK, Importing, Import

(* Steps of the import that write no document and no article.              *)
LEMMA ImporterMovesOn ==
  ASSUME IInv, UNCHANGED <<ingredients, articles, runs, overlapped>>,
         \/ importer' = Off
         \/ /\ importer' \in Import
            /\ importer'.doc = 0 /\ importer'.arts = {} /\ importer'.added = 0
  PROVE  IInv'
<1>1. TypeOK'
  BY DEF IInv, TypeOK
<1>2. ImportHalf'
  <2>1. ImportOK' /\ NothingAddedYet'
    BY DEF ImportOK, NothingAddedYet, Importing
  <2>2. ArticlesHaveDoc'
    BY DEF IInv, ImportHalf, ArticlesHaveDoc, DocIds
  <2>3. LinkedIsWhole'
    BY DEF IInv, ImportHalf, LinkedIsWhole, DocIds, ArticlesOf
  <2> QED
    BY <2>1, <2>2, <2>3 DEF ImportHalf
<1>3. JobHalf'
  BY <1>1, ImportLeavesJobs DEF SameForJobs, DocIds
<1> QED
  BY <1>1, <1>2, <1>3 DEF IInv

LEMMA NextRowType ==
  ASSUME TypeOK, Importing, NextRow
  PROVE  /\ importer' \in Import
         /\ importer'.doc = 0 /\ importer'.arts = {} /\ importer'.added = 0
<1>1. importer \in Import
  BY ImporterType
<1> DEFINE m == importer.row + 1
<1>2. m \in Nat \ {0}
  BY <1>1 DEF Import
<1>3. importer' = [importer EXCEPT !.row = m, !.doc = 0, !.added = 0, !.arts = {}]
  BY DEF NextRow
<1> HIDE DEF m
<1>4. importer' = [job |-> "import", row |-> m, doc |-> 0, added |-> 0, arts |-> {}]
  BY <1>1, <1>3 DEF Import
<1> QED
  BY <1>2, <1>4 DEF Import

LEMMA NextRowMovesOn ==
  ASSUME IInv, Importing, NextRow, UNCHANGED <<ingredients, articles, runs, overlapped>>
  PROVE  IInv'
BY NextRowType, ImporterMovesOn DEF IInv

(* A new document: no article is of it, no job has it in its copy.         *)
LEMMA AddIngredientKeeps == IInv /\ AddIngredient => IInv'
<1> SUFFICES ASSUME IInv, AddIngredient PROVE IInv'
  OBVIOUS
<1> DEFINE n == Len(ingredients) + 1
           x == NewDoc(importer.row)
<1>1. Importing /\ importer.row <= Len(Rows) /\ importer.doc = 0
  BY DEF AddIngredient, BeforeAdd, InRow
<1>2. /\ importer \in Import /\ importer.row \in Nat \ {0}
      /\ importer.arts = {} /\ importer.added = 0
  BY <1>1, ImporterType DEF IInv, ImportHalf, NothingAddedYet
<1>3. importer.row \in DOMAIN Rows
  BY <1>1, <1>2, RowsOK
<1>4. /\ x \in Doc /\ Fresh(x)
      /\ x.row = importer.row /\ x.articlesIds = unset
  BY <1>3 DEF NewDoc, Doc, Fresh
<1>5. /\ ingredients' = Append(ingredients, x)
      /\ importer' = [importer EXCEPT !.doc = n]
      /\ UNCHANGED <<articles, imports, jobs, runs, overlapped>>
  BY DEF AddIngredient, jobVars
<1> HIDE DEF x
<1>6. /\ n \in Nat \ {0} /\ n \notin DocIds /\ DocIds' = DocIds \cup {n}
      /\ \A d \in DocIds : ingredients'[d] = ingredients[d]
      /\ ingredients'[n] = x
  <2>1. ingredients \in Seq(Doc) /\ Len(ingredients) \in Nat /\ DOMAIN ingredients = 1..Len(ingredients)
    BY DEF IInv, TypeOK
  <2>2. x \in Doc
    BY <1>4
  <2> QED
    BY <2>1, <2>2, <1>5 DEF DocIds
<1>7. /\ importer' \in Import /\ importer'.doc = n /\ importer'.row = importer.row
      /\ importer'.arts = {} /\ importer'.added = 0
  <2> HIDE DEF n
  <2> QED
    BY <1>2, <1>5, <1>6 DEF Import
<1>8. TypeOK'
  <2>1. ingredients' \in Seq(Doc)
    BY <1>4, <1>5 DEF IInv, TypeOK
  <2> QED
    BY <2>1, <1>5, <1>7 DEF IInv, TypeOK
<1> HIDE DEF n
<1>9. \A d : ArticlesOf(d)' = ArticlesOf(d)
  BY <1>5 DEF ArticlesOf
<1>10. ArticlesOf(n) = {}
  BY <1>6 DEF IInv, ImportHalf, ArticlesHaveDoc, ArticlesOf
<1>11. ImportOK'
  BY <1>4, <1>6, <1>7, <1>9, <1>10, FS_EmptySet DEF ImportOK, Importing
<1>12. NothingAddedYet'
  BY <1>6, <1>7 DEF NothingAddedYet
<1>13. ArticlesHaveDoc'
  BY <1>5, <1>6 DEF IInv, ImportHalf, ArticlesHaveDoc
<1>14. LinkedIsWhole'
  BY <1>4, <1>5, <1>6, <1>9 DEF IInv, ImportHalf, LinkedIsWhole
<1>15. JobHalf'
  BY <1>4, <1>5, <1>6, <1>8, ImportLeavesJobs DEF SameForJobs
<1> QED
  BY <1>8, <1>11, <1>12, <1>13, <1>14, <1>15 DEF IInv, ImportHalf

(* One more article of the document that is being imported.                *)
LEMMA AddArticleKeeps == IInv /\ AddArticle => IInv'
<1> SUFFICES ASSUME IInv, AddArticle PROVE IInv'
  OBVIOUS
<1> DEFINE n == Len(articles) + 1
           x == [of |-> importer.doc, subs |-> 0]
           d == importer.doc
<1>1. Importing /\ importer.doc # 0
  BY DEF AddArticle, AfterAdd, InRow
<1>2. /\ importer \in Import /\ d \in Nat /\ importer.added \in Nat
      /\ importer.arts \in SUBSET Nat
  BY <1>1, ImporterType DEF IInv
<1>3. /\ d \in DocIds /\ ingredients[d].row = importer.row
      /\ ingredients[d].articlesIds = unset
      /\ importer.arts = ArticlesOf(d)
      /\ IsFiniteSet(importer.arts) /\ Cardinality(importer.arts) = importer.added
  BY <1>1 DEF IInv, ImportHalf, ImportOK
<1>4. /\ articles' = Append(articles, x)
      /\ importer' = [importer EXCEPT !.added = @ + 1, !.arts = @ \cup {n}]
      /\ UNCHANGED <<ingredients, imports, jobs, runs, overlapped>>
  BY DEF AddArticle, jobVars
<1>5. x \in Article /\ x.of = d
  BY <1>2 DEF Article
<1> HIDE DEF x
<1>6. /\ n \in Nat /\ n \notin DOMAIN articles
      /\ DOMAIN articles' = DOMAIN articles \cup {n}
      /\ \A a \in DOMAIN articles : articles'[a] = articles[a]
      /\ articles'[n] = x
  <2>1. articles \in Seq(Article) /\ Len(articles) \in Nat /\ DOMAIN articles = 1..Len(articles)
    BY DEF IInv, TypeOK
  <2> QED
    BY <2>1, <1>4, <1>5
<1>7. /\ importer' \in Import /\ importer'.doc = d /\ importer'.row = importer.row
      /\ importer'.arts = importer.arts \cup {n} /\ importer'.added = importer.added + 1
  <2> HIDE DEF n
  <2> QED
    <3>1. importer' = [job |-> "import", row |-> importer.row, doc |-> d,
                       added |-> importer.added + 1, arts |-> importer.arts \cup {n}]
      BY <1>2, <1>4 DEF Import
    <3>2. importer.added + 1 \in Nat /\ importer.row \in Nat \ {0}
      BY <1>2 DEF Import
    <3>3. importer.arts \cup {n} \in SUBSET Nat
      BY <1>2, <1>6
    <3> QED
      BY <3>1, <3>2, <3>3, <1>2 DEF Import
<1>8. TypeOK'
  <2>1. articles' \in Seq(Article)
    BY <1>4, <1>5 DEF IInv, TypeOK
  <2> QED
    BY <2>1, <1>4, <1>7 DEF IInv, TypeOK
<1> HIDE DEF n
<1>9. ASSUME NEW e PROVE ArticlesOf(e)' = IF e = d THEN ArticlesOf(e) \cup {n} ELSE ArticlesOf(e)
  <2> SUFFICES {a \in DOMAIN articles' : articles'[a].of = e}
                 = IF e = d THEN {a \in DOMAIN articles : articles[a].of = e} \cup {n}
                            ELSE {a \in DOMAIN articles : articles[a].of = e}
    BY DEF ArticlesOf
  <2>1. articles'[n].of = d
    BY <1>5, <1>6
  <2> QED
    BY <1>6, <2>1
<1>10. n \notin importer.arts
  BY <1>3, <1>6 DEF ArticlesOf
<1>11. IsFiniteSet(importer.arts \cup {n}) /\ Cardinality(importer.arts \cup {n}) = importer.added + 1
  BY <1>3, <1>10, FS_AddElement
<1>12. DocIds' = DocIds
  BY <1>4 DEF DocIds
<1>13. ImportOK'
  <2>1. ArticlesOf(importer.doc)' = importer.arts \cup {n}
    BY <1>3, <1>7, <1>9
  <2> QED
    BY <1>3, <1>4, <1>7, <1>11, <1>12, <2>1 DEF ImportOK
<1>14. NothingAddedYet'
  BY <1>1, <1>7 DEF NothingAddedYet
<1>15. ArticlesHaveDoc'
  BY <1>3, <1>5, <1>6, <1>12 DEF IInv, ImportHalf, ArticlesHaveDoc
<1>16. LinkedIsWhole'
  <2> SUFFICES ASSUME NEW e \in DocIds, ingredients[e].articlesIds # unset
               PROVE  /\ ingredients[e].articlesIds = ArticlesOf(e)'
                      /\ Cardinality(ArticlesOf(e)') = Rows[ingredients[e].row].articles
                      /\ \A a \in ArticlesOf(e)' : articles'[a].subs = SubsPer
    BY <1>4, <1>12 DEF LinkedIsWhole
  <2>1. ArticlesOf(e)' = ArticlesOf(e)
    BY <1>3, <1>9
  <2>2. \A a \in ArticlesOf(e) : articles'[a] = articles[a]
    BY <1>6 DEF ArticlesOf
  <2> QED
    BY <2>1, <2>2 DEF IInv, ImportHalf, LinkedIsWhole
<1>17. JobHalf'
  BY <1>4, <1>8, <1>12, ImportLeavesJobs DEF SameForJobs
<1> QED
  BY <1>8, <1>13, <1>14, <1>15, <1>16, <1>17 DEF IInv, ImportHalf

(* A sub-category more changes no article of a linked document.            *)
LEMMA AddSubCategoryKeeps == IInv /\ AddSubCategory => IInv'
<1> SUFFICES ASSUME IInv, AddSubCategory PROVE IInv'
  OBVIOUS
<1>1. Importing /\ importer.doc # 0
  BY DEF AddSubCategory, AfterAdd, InRow
<1>2. PICK a \in importer.arts : articles' = [articles EXCEPT ![a].subs = @ + 1]
  BY DEF AddSubCategory
<1>3. UNCHANGED <<ingredients, imports, importer, jobs, runs, overlapped>>
  BY DEF AddSubCategory, jobVars
<1>4. a \in DOMAIN articles /\ articles[a].of = importer.doc
  BY <1>1 DEF IInv, ImportHalf, ImportOK, ArticlesOf
<1>5. articles[a] \in Article /\ articles[a].subs \in Nat
  <2>1. articles[a] \in Article
    BY <1>4 DEF IInv, TypeOK
  <2> QED
    BY <2>1 DEF Article
<1> DEFINE x == [articles[a] EXCEPT !.subs = @ + 1]
<1>6. x \in Article /\ x.of = articles[a].of
  BY <1>5 DEF Article
<1>7. articles' = [articles EXCEPT ![a] = x]
  BY <1>2
<1> HIDE DEF x
<1>8. /\ articles' \in Seq(Article) /\ DOMAIN articles' = DOMAIN articles
      /\ \A b \in DOMAIN articles : articles'[b].of = articles[b].of
      /\ \A b \in DOMAIN articles : b # a => articles'[b] = articles[b]
  <2>1. articles \in Seq(Article)
    BY DEF IInv, TypeOK
  <2> QED
    BY <2>1, <1>4, <1>6, <1>7
<1>9. TypeOK'
  BY <1>3, <1>8 DEF IInv, TypeOK
<1>10. \A d : ArticlesOf(d)' = ArticlesOf(d)
  BY <1>8 DEF ArticlesOf
<1>11. DocIds' = DocIds
  BY <1>3 DEF DocIds
<1>12. ImportOK' /\ NothingAddedYet' /\ ArticlesHaveDoc'
  BY <1>3, <1>8, <1>10, <1>11
     DEF IInv, ImportHalf, ImportOK, NothingAddedYet, ArticlesHaveDoc, Importing
<1>13. LinkedIsWhole'
  <2> SUFFICES ASSUME NEW e \in DocIds, ingredients[e].articlesIds # unset
               PROVE  /\ ingredients[e].articlesIds = ArticlesOf(e)
                      /\ Cardinality(ArticlesOf(e)) = Rows[ingredients[e].row].articles
                      /\ \A b \in ArticlesOf(e) : articles'[b].subs = SubsPer
    BY <1>3, <1>10, <1>11 DEF LinkedIsWhole
  <2>1. a \notin ArticlesOf(e)
    BY <1>1, <1>4 DEF IInv, ImportHalf, ImportOK, ArticlesOf
  <2>2. \A b \in ArticlesOf(e) : articles'[b] = articles[b]
    BY <1>8, <2>1 DEF ArticlesOf
  <2> QED
    BY <2>2 DEF IInv, ImportHalf, LinkedIsWhole
<1>14. JobHalf'
  BY <1>3, <1>9, <1>11, ImportLeavesJobs DEF SameForJobs
<1> QED
  BY <1>9, <1>12, <1>13, <1>14 DEF IInv, ImportHalf

(* The articles are linked when all of them are there and complete.        *)
LEMMA LinkArticlesKeeps == IInv /\ LinkArticles => IInv'
<1> SUFFICES ASSUME IInv, LinkArticles PROVE IInv'
  OBVIOUS
<1> DEFINE d == importer.doc
           x == [ingredients[d] EXCEPT !.articlesIds = importer.arts]
<1>1. Importing /\ d # 0 /\ importer.added = Row.articles /\ ArticlesDone
  BY DEF LinkArticles, AfterAdd, InRow
<1>2. importer \in Import /\ importer.arts \in SUBSET Nat
  BY <1>1, ImporterType DEF IInv
<1>3. /\ d \in DocIds /\ ingredients[d].row = importer.row
      /\ importer.arts = ArticlesOf(d) /\ Cardinality(importer.arts) = importer.added
  BY <1>1 DEF IInv, ImportHalf, ImportOK
<1>4. ingredients \in Seq(Doc) /\ ingredients[d] \in Doc
  BY <1>3 DEF IInv, TypeOK, DocIds
<1>5. x \in Doc /\ SameForJobs(x, ingredients[d]) /\ x.articlesIds = importer.arts
  BY <1>2, <1>4 DEF Doc, SameForJobs
<1>6. /\ ingredients' = [ingredients EXCEPT ![d] = x]
      /\ NextRow /\ UNCHANGED <<articles, imports, jobs, runs, overlapped>>
  BY DEF LinkArticles, jobVars
<1> HIDE DEF x
<1>7. /\ ingredients' \in Seq(Doc) /\ DocIds' = DocIds
      /\ ingredients'[d] = x
      /\ \A e \in DocIds : e # d => ingredients'[e] = ingredients[e]
  BY <1>3, <1>4, <1>5, <1>6 DEF DocIds
<1>8. /\ importer' \in Import
      /\ importer'.doc = 0 /\ importer'.arts = {} /\ importer'.added = 0
  BY <1>1, <1>6, NextRowType DEF IInv
<1>9. TypeOK'
  BY <1>6, <1>7, <1>8 DEF IInv, TypeOK
<1>10. ImportOK' /\ NothingAddedYet'
  BY <1>8 DEF ImportOK, NothingAddedYet
<1>11. ArticlesHaveDoc'
  BY <1>6, <1>7 DEF IInv, ImportHalf, ArticlesHaveDoc
<1>12. LinkedIsWhole'
  <2> SUFFICES ASSUME NEW e \in DocIds, ingredients'[e].articlesIds # unset
               PROVE  /\ ingredients'[e].articlesIds = ArticlesOf(e)
                      /\ Cardinality(ArticlesOf(e)) = Rows[ingredients'[e].row].articles
                      /\ \A b \in ArticlesOf(e) : articles[b].subs = SubsPer
    <3>1. \A e : ArticlesOf(e)' = ArticlesOf(e)
      BY <1>6 DEF ArticlesOf
    <3> QED
      BY <1>6, <1>7, <3>1 DEF LinkedIsWhole
  <2>1. CASE e = d
    BY <2>1, <1>1, <1>3, <1>5, <1>7 DEF Row, ArticlesDone, SameForJobs
  <2>2. CASE e # d
    BY <2>2, <1>7 DEF IInv, ImportHalf, LinkedIsWhole
  <2> QED
    BY <2>1, <2>2
<1>13. JobHalf'
  BY <1>5, <1>6, <1>7, <1>9, ImportLeavesJobs DEF SameForJobs
<1> QED
  BY <1>9, <1>10, <1>11, <1>12, <1>13 DEF IInv, ImportHalf

LEMMA ImportStepsKeep ==
  ASSUME IInv,
         \/ StartImport \/ SkipRow \/ AddIngredient \/ AddArticle \/ AddSubCategory
         \/ LinkArticles \/ CallFails \/ EndImport
  PROVE  IInv'
<1>1. CASE StartImport
  <2>1. importer' \in Import /\ importer'.doc = 0 /\ importer'.arts = {} /\ importer'.added = 0
    BY <1>1 DEF StartImport, Import
  <2> QED
    BY <1>1, <2>1, ImporterMovesOn DEF StartImport, jobVars
<1>2. CASE SkipRow \/ CallFails
  BY <1>2, NextRowMovesOn DEF SkipRow, CallFails, BeforeAdd, InRow, jobVars
<1>3. CASE EndImport
  BY <1>3, ImporterMovesOn DEF EndImport, jobVars
<1> QED
  BY <1>1, <1>2, <1>3, AddIngredientKeeps, AddArticleKeeps, AddSubCategoryKeeps, LinkArticlesKeeps

-----------------------------------------------------------------------------
LEMMA JobsLeaveImport ==
  ASSUME IInv, UNCHANGED <<articles, importer>>, DocIds' = DocIds,
         \A d \in DocIds : /\ ingredients'[d].row = ingredients[d].row
                           /\ ingredients'[d].articlesIds = ingredients[d].articlesIds
  PROVE  ImportHalf'
<1>1. \A d : ArticlesOf(d)' = ArticlesOf(d)
  BY DEF ArticlesOf
<1>2. ImportOK' /\ NothingAddedYet' /\ ArticlesHaveDoc'
  BY <1>1 DEF IInv, ImportHalf, ImportOK, NothingAddedYet, ArticlesHaveDoc, Importing
<1>3. LinkedIsWhole'
  BY <1>1 DEF IInv, ImportHalf, LinkedIsWhole
<1> QED
  BY <1>2, <1>3 DEF ImportHalf

LEMMA RunType ==
  ASSUME IInv, NEW p \in Procs, runs[p].job \in Jobs
  PROVE  /\ runs[p] \in Run /\ Running(p)
         /\ runs[p].seen \in Seq(Doc) /\ runs[p].left \in SUBSET Nat
         /\ runs[p].left \subseteq DOMAIN runs[p].seen
         /\ DOMAIN runs[p].seen \subseteq DocIds
<1>1. runs[p] \in Run /\ Running(p)
  BY DEF IInv, TypeOK, Off, Running, Jobs
<1> QED
  BY <1>1 DEF IInv, JobHalf, CopiesOK, Run

(* The runs go on, with the same copies and no more left than before.      *)
GoesOn ==
  /\ runs' \in [Procs -> Run \cup {Off}]
  /\ \A q \in Procs : /\ runs'[q].job = runs[q].job
                      /\ runs'[q].seen = runs[q].seen
                      /\ runs'[q].left \subseteq runs[q].left
                      /\ runs'[q] = Off <=> runs[q] = Off

LEMMA RunGoesOn ==
  ASSUME IInv, NEW p \in Procs, runs[p].job \in Jobs, NEW d \in Nat,
         Finishes(p, d) \/ runs' = [runs EXCEPT ![p].doc = d]
  PROVE  /\ GoesOn
         /\ Finishes(p, d) => d \notin runs'[p].left
<1>1. runs[p] \in Run /\ Running(p) /\ runs \in [Procs -> Run \cup {Off}]
  BY RunType DEF IInv, TypeOK
<1>2. PICK r \in Run : /\ runs' = [runs EXCEPT ![p] = r]
                       /\ r.job = runs[p].job /\ r.seen = runs[p].seen
                       /\ r.left \subseteq runs[p].left
                       /\ Finishes(p, d) => d \notin r.left
  <2>1. CASE Finishes(p, d)
    <3> DEFINE r == [runs[p] EXCEPT !.left = @ \ {d}, !.doc = 0]
    <3>1. r \in Run /\ r.job = runs[p].job /\ r.seen = runs[p].seen /\ r.left = runs[p].left \ {d}
      BY <1>1 DEF Run
    <3>2. runs' = [runs EXCEPT ![p] = r]
      BY <2>1, <1>1 DEF Finishes
    <3> QED
      BY <3>1, <3>2
  <2>2. CASE runs' = [runs EXCEPT ![p].doc = d] /\ ~Finishes(p, d)
    <3> DEFINE r == [runs[p] EXCEPT !.doc = d]
    <3>1. r \in Run /\ r.job = runs[p].job /\ r.seen = runs[p].seen /\ r.left = runs[p].left
      BY <1>1 DEF Run
    <3>2. runs' = [runs EXCEPT ![p] = r]
      BY <2>2, <1>1
    <3> QED
      BY <2>2, <3>1, <3>2
  <2> QED
    BY <2>1, <2>2
<1>3. r # Off
  BY <1>2, RunType DEF Off, Jobs
<1> QED
  BY <1>1, <1>2, <1>3 DEF GoesOn, Running

(* What an update of a document with x in place of y may change, and what  *)
(* it has to do with the copy of the run p that makes it.                  *)
UpdateOf(p, d, y, x) ==
  /\ x.row = y.row /\ x.articlesIds = y.articlesIds /\ x.names = y.names
  /\ x.subCategory => y.subCategory
  /\ y.japaneseName => x.japaneseName
  /\ x.placed => y.placed \/ y.names = 0
  /\ x.placed /\ x.names = 0 => x.localName
  /\ x.locations # y.locations =>
       /\ runs[p].job = "names" /\ d \notin runs'[p].left
       /\ x.locations = IF Seen(p, d).localName THEN "tokyo" ELSE nil
  /\ x.subCategoryId # y.subCategoryId =>
       /\ runs[p].job = "replace" /\ d \notin runs'[p].left
       /\ ~present(Seen(p, d).subCategoryId)
       /\ x.subCategoryId = ListedId(Seen(p, d))

LEMMA UpdateKeeps ==
  ASSUME IInv, NEW p \in Procs, runs[p].job \in Jobs, NEW d \in runs[p].left,
         NEW x \in Doc, Update(p, d, x), GoesOn, UpdateOf(p, d, ingredients[d], x)
  PROVE  /\ IInv'
         /\ \A e \in DocIds : StaysVisible(ingredients[e], ingredients'[e])
<1> DEFINE y == ingredients[d]
<1>1. d \in DOMAIN runs[p].seen /\ d \in DocIds
  BY RunType
<1>2. /\ ingredients' = [ingredients EXCEPT ![d] = x]
      /\ UNCHANGED <<articles, imports, importer, jobs, overlapped>>
  BY DEF Update, importVars
<1>3. /\ ingredients' \in Seq(Doc) /\ DocIds' = DocIds /\ ingredients'[d] = x
      /\ \A e \in DocIds : e # d => ingredients'[e] = ingredients[e]
  BY <1>1, <1>2 DEF IInv, TypeOK, DocIds
<1>4. y \in Doc /\ y.names \in Nat
  <2>1. y \in Doc
    BY <1>1 DEF IInv, TypeOK, DocIds
  <2> QED
    BY <2>1 DEF Doc
<1>5. TypeOK'
  BY <1>2, <1>3 DEF IInv, TypeOK, GoesOn
<1>6. ImportHalf'
  BY <1>2, <1>3, JobsLeaveImport DEF UpdateOf
<1>7. /\ ~(y.names = 0 /\ y.placed /\ ~y.localName)
      /\ y.locations # unset => y.names >= 1
      /\ y.locations = nil => y.names >= 2 \/ ~y.placed
      /\ y.subCategoryId = nil /\ IdOf[Rows[y.row].category] # nil => ~y.subCategory
  BY <1>1 DEF IInv, JobHalf, DocsOK, PlaceLostByRerunOnly, NullIdOnlyWithoutName
<1>8. runs[p].job = "names" =>
        \/ y.names >= 2
        \/ /\ y.names = 1
           /\ y.placed => Seen(p, d).localName
           /\ y.locations = unset
  BY <1>1 DEF IInv, JobHalf, NamesOK
<1>9. /\ Seen(p, d).row = y.row
      /\ y.subCategory => Seen(p, d).subCategory
  BY <1>1, RunType DEF IInv, JobHalf, CopiesOK
<1>10. \A q \in Procs : runs[q].job \in Jobs =>
         /\ DOMAIN runs[q].seen \subseteq DocIds
         /\ runs[q].left \subseteq DOMAIN runs[q].seen
  BY RunType
<1>10a. \A q \in Procs :
          /\ runs'[q].job = runs[q].job /\ runs'[q].seen = runs[q].seen
          /\ \A e \in runs'[q].left : e \in runs[q].left
          /\ Running(q)' => Running(q)
  BY DEF GoesOn, Running
<1>11. /\ x.names = 0 /\ x.placed => x.localName
       /\ x.locations # unset => x.names >= 1
  BY <1>4, <1>7, <1>8 DEF UpdateOf
<1>12. DocsOK'
  BY <1>3, <1>11 DEF IInv, JobHalf, DocsOK
<1>13. CopiesOK'
  <2> SUFFICES ASSUME NEW q \in Procs, Running(q)'
               PROVE  /\ runs'[q].left \subseteq DOMAIN runs[q].seen
                      /\ DOMAIN runs[q].seen \subseteq DocIds
                      /\ \A e \in DOMAIN runs[q].seen :
                           /\ runs[q].seen[e].row = ingredients'[e].row
                           /\ ingredients'[e].subCategory => runs[q].seen[e].subCategory
    BY <1>3, <1>10a DEF CopiesOK, Seen
  <2>1. /\ runs[q].left \subseteq DOMAIN runs[q].seen
        /\ DOMAIN runs[q].seen \subseteq DocIds
        /\ \A e \in DOMAIN runs[q].seen :
             /\ runs[q].seen[e].row = ingredients[e].row
             /\ ingredients[e].subCategory => runs[q].seen[e].subCategory
    BY <1>10a DEF IInv, JobHalf, CopiesOK, Seen
  <2> QED
    BY <1>3, <1>10a, <2>1 DEF UpdateOf
<1>14. NamesOK'
  <2> SUFFICES ASSUME NEW q \in Procs, runs[q].job = "names", NEW e \in DOMAIN runs[q].seen
               PROVE  \/ ingredients'[e].names >= 2
                      \/ /\ ingredients'[e].names = 1
                         /\ ingredients'[e].placed => runs[q].seen[e].localName
                         /\ e \in runs'[q].left => ingredients'[e].locations = unset
    BY <1>10a DEF NamesOK, Seen
  <2>1. /\ e \in DocIds
        /\ \/ ingredients[e].names >= 2
           \/ /\ ingredients[e].names = 1
              /\ ingredients[e].placed => runs[q].seen[e].localName
              /\ e \in runs[q].left => ingredients[e].locations = unset
    BY <1>10 DEF IInv, JobHalf, NamesOK, Seen, Jobs
  <2>2. CASE e # d
    BY <1>3, <1>10a, <2>1, <2>2
  <2>3. CASE e = d /\ x.locations = y.locations
    BY <1>3, <1>4, <1>10a, <2>1, <2>3 DEF UpdateOf
  <2>4. CASE e = d /\ x.locations # y.locations /\ q = p
    BY <1>3, <1>4, <2>1, <2>4 DEF UpdateOf
  <2>5. CASE e = d /\ x.locations # y.locations /\ q # p
    <3>1. y.names >= 2
      BY <1>1, <2>5 DEF IInv, JobHalf, NamesTwice, UpdateOf
    <3> QED
      BY <1>3, <2>5, <3>1 DEF UpdateOf
  <2> QED
    BY <2>2, <2>3, <2>4, <2>5
<1>15. NamesTwice'
  <2> SUFFICES ASSUME NEW q \in Procs, NEW r \in Procs, q # r,
                      runs[q].job = "names", runs[r].job = "names",
                      NEW e \in DOMAIN runs[q].seen \cap DOMAIN runs[r].seen
               PROVE  ingredients'[e].names >= 2
    BY <1>10a DEF NamesTwice
  <2>1. e \in DocIds /\ ingredients[e].names >= 2
    BY <1>10 DEF IInv, JobHalf, NamesTwice, Jobs
  <2> QED
    BY <1>3, <2>1 DEF UpdateOf
<1>16. ReplaceOK'
  <2> SUFFICES ASSUME ~overlapped
               PROVE  /\ \A q, r \in Procs : runs[q].job = "replace" /\ runs[r].job = "replace" => q = r
                      /\ \A q \in Procs : runs[q].job = "replace" =>
                           \A e \in runs'[q].left : ingredients'[e].subCategoryId = runs[q].seen[e].subCategoryId
    BY <1>2, <1>10a DEF ReplaceOK, Seen
  <2>1. \A q, r \in Procs : runs[q].job = "replace" /\ runs[r].job = "replace" => q = r
    BY DEF IInv, JobHalf, ReplaceOK
  <2>2. ASSUME NEW q \in Procs, runs[q].job = "replace", NEW e \in runs'[q].left
        PROVE  ingredients'[e].subCategoryId = runs[q].seen[e].subCategoryId
    <3>1. /\ e \in runs[q].left /\ e \in DocIds
          /\ ingredients[e].subCategoryId = runs[q].seen[e].subCategoryId
      BY <1>10, <1>10a, <2>2 DEF IInv, JobHalf, ReplaceOK, Seen, Jobs
    <3>2. CASE e = d /\ x.subCategoryId # y.subCategoryId
      BY <2>1, <2>2, <3>2 DEF UpdateOf
    <3> QED
      BY <1>3, <3>1, <3>2
  <2> QED
    BY <2>1, <2>2
<1>17. PlaceLostByRerunOnly'
  <2>1. x.locations = nil => x.names >= 2 \/ ~x.placed
    <3>1. CASE x.locations = y.locations
      BY <3>1, <1>4, <1>7, RowsOK DEF UpdateOf
    <3>2. CASE x.locations # y.locations
      BY <3>2, <1>4, <1>8, RowsOK DEF UpdateOf
    <3> QED
      BY <3>1, <3>2
  <2> QED
    BY <1>3, <2>1 DEF IInv, JobHalf, PlaceLostByRerunOnly
<1>18. NullIdOnlyWithoutName'
  <2>1. x.subCategoryId = nil /\ IdOf[Rows[x.row].category] # nil => ~x.subCategory
    BY <1>7, <1>9 DEF UpdateOf, ListedId
  <2> QED
    BY <1>3, <2>1 DEF IInv, JobHalf, NullIdOnlyWithoutName
<1>19. \A e \in DocIds : StaysVisible(ingredients[e], ingredients'[e])
  <2>1. StaysVisible(y, x)
    <3>1. y.locations = "tokyo" /\ x.locations # "tokyo" => y.names >= 2
      BY <1>8, RowsOK DEF UpdateOf
    <3>2. present(y.subCategoryId) /\ ~present(x.subCategoryId) => overlapped
      BY DEF IInv, JobHalf, ReplaceOK, UpdateOf
    <3> QED
      BY <3>1, <3>2 DEF StaysVisible, UpdateOf
  <2> QED
    BY <1>3, <2>1 DEF StaysVisible
<1> QED
  BY <1>5, <1>6, <1>12, <1>13, <1>14, <1>15, <1>16, <1>17, <1>18, <1>19 DEF IInv, JobHalf

(* Every update of every job is such an update.                            *)
LEMMA JobStepKeeps ==
  ASSUME IInv, NEW p \in Procs, Running(p), NEW d \in runs[p].left, UpdateOne(p, d)
  PROVE  /\ IInv'
         /\ \A e \in DocIds : StaysVisible(ingredients[e], ingredients'[e])
<1> DEFINE y == ingredients[d]
           keeps == /\ IInv'
                    /\ \A e \in DocIds : StaysVisible(ingredients[e], ingredients'[e])
<1>1. runs[p].job \in Jobs
  BY DEF IInv, TypeOK, Running, Run
<1>2. d \in Nat /\ d \in DocIds
  BY <1>1, RunType
<1>3. y \in Doc
  BY <1>2 DEF IInv, TypeOK, DocIds
<1>4. ~(y.names = 0 /\ y.placed /\ ~y.localName)
  BY <1>2 DEF IInv, JobHalf, DocsOK
<1>5. runs[p].job = "names" => y.names >= 1 /\ y.names # 0
  <2>1. y.names \in Nat
    BY <1>3 DEF Doc
  <2> QED
    BY <1>1, <1>2, <2>1, RunType DEF IInv, JobHalf, NamesOK
<1>6. Finishes(p, d) => GoesOn /\ d \notin runs'[p].left
  BY <1>1, <1>2, RunGoesOn
<1>7. runs' = [runs EXCEPT ![p].doc = d] => GoesOn
  BY <1>1, <1>2, RunGoesOn
<1>8. ASSUME NEW x \in Doc, Update(p, d, x), GoesOn, UpdateOf(p, d, y, x) PROVE keeps
  BY <1>1, <1>8, UpdateKeeps
<1> HIDE DEF keeps
<1>9. ASSUME Place(p, d) PROVE keeps
  <2> DEFINE x == [y EXCEPT !.localName = TRUE, !.placed = @ \/ y.names = 0]
  <2>1. x \in Doc /\ UpdateOf(p, d, y, x)
    BY <1>3 DEF Doc, UpdateOf
  <2>2. Update(p, d, x) /\ Finishes(p, d)
    BY <1>9 DEF Place
  <2> HIDE DEF x
  <2> QED
    BY <1>6, <1>8, <2>1, <2>2
<1>10. ASSUME DeleteLocalName(p, d) PROVE keeps
  <2> DEFINE x == [y EXCEPT !.localName = FALSE]
  <2>1. x \in Doc /\ UpdateOf(p, d, y, x)
    BY <1>3, <1>5, <1>10 DEF Doc, UpdateOf, DeleteLocalName, On
  <2>2. Update(p, d, x) /\ runs' = [runs EXCEPT ![p].doc = d]
    BY <1>10 DEF DeleteLocalName
  <2> HIDE DEF x
  <2> QED
    BY <1>7, <1>8, <2>1, <2>2
<1>11. ASSUME SetLocations(p, d) PROVE keeps
  <2> DEFINE x == [y EXCEPT !.locations = IF Seen(p, d).localName THEN "tokyo" ELSE nil]
  <2>1. x \in Doc /\ UpdateOf(p, d, y, x)
    BY <1>3, <1>5, <1>6, <1>11 DEF Doc, UpdateOf, SetLocations, On
  <2>2. Update(p, d, x) /\ Finishes(p, d)
    BY <1>11 DEF SetLocations
  <2> HIDE DEF x
  <2> QED
    BY <1>6, <1>8, <2>1, <2>2
<1>12. ASSUME SetLanguage(p, d) PROVE keeps
  <2> DEFINE x == [y EXCEPT !.japaneseName = TRUE]
  <2>1. x \in Doc /\ UpdateOf(p, d, y, x)
    BY <1>3, <1>4 DEF Doc, UpdateOf
  <2>2. Update(p, d, x) /\ Finishes(p, d)
    BY <1>12 DEF SetLanguage
  <2> HIDE DEF x
  <2> QED
    BY <1>6, <1>8, <2>1, <2>2
<1>13. ASSUME Replace(p, d) PROVE keeps
  <2> DEFINE id == ListedId(Seen(p, d))
             x == IF present(Seen(p, d).subCategoryId) THEN y ELSE [y EXCEPT !.subCategoryId = id]
  <2>1. id \in Ids \cup {nil, unset}
    <3>1. Seen(p, d) \in Doc
      BY <1>1, RunType DEF Seen
    <3>2. Seen(p, d).row \in DOMAIN Rows
      BY <3>1 DEF Doc
    <3>3. Rows[Seen(p, d).row] \in [json : {"blank", "broken", "null", "fine"}, articles : Nat,
                                   category : DOMAIN IdOf]
      <4> DEFINE R == [json : {"blank", "broken", "null", "fine"}, articles : Nat,
                       category : DOMAIN IdOf]
      <4>1. Rows \in Seq(R)
        BY RowsOK
      <4>2. Seen(p, d).row \in DOMAIN Rows
        BY <3>2
      <4> HIDE DEF R
      <4>3. Rows[Seen(p, d).row] \in R
        BY <4>1, <4>2
      <4> QED
        BY <4>3 DEF R
    <3> QED
      BY <3>3, RowsOK DEF ListedId
  <2> HIDE DEF id
  <2>2. x \in Doc
    BY <1>3, <2>1 DEF Doc
  <2>3. UpdateOf(p, d, y, x)
    <3>1. x.subCategoryId # y.subCategoryId =>
            ~present(Seen(p, d).subCategoryId) /\ x.subCategoryId = ListedId(Seen(p, d))
      <4>1. CASE present(Seen(p, d).subCategoryId)
        BY <4>1
      <4>2. CASE ~present(Seen(p, d).subCategoryId)
        <5>1. x = [y EXCEPT !.subCategoryId = id]
          BY <4>2
        <5>2. [y EXCEPT !.subCategoryId = id].subCategoryId = id
          BY <1>3 DEF Doc
        <5> HIDE DEF x
        <5> QED
          BY <4>2, <5>1, <5>2 DEF id
      <4> QED
        BY <4>1, <4>2
    <3> QED
      <4>1. /\ x.row = y.row /\ x.articlesIds = y.articlesIds /\ x.names = y.names
            /\ x.subCategory = y.subCategory /\ x.japaneseName = y.japaneseName
            /\ x.placed = y.placed /\ x.localName = y.localName /\ x.locations = y.locations
        BY <1>3 DEF Doc
      <4>2. runs[p].job = "replace" /\ d \notin runs'[p].left
        BY <1>6, <1>13 DEF Replace, On
      <4> HIDE DEF x
      <4> QED
        BY <1>4, <3>1, <4>1, <4>2 DEF UpdateOf
  <2>4. Update(p, d, x) /\ Finishes(p, d)
    BY <1>13 DEF Replace, id
  <2> HIDE DEF x
  <2> QED
    BY <1>6, <1>8, <2>2, <2>3, <2>4
<1>14. ASSUME Delete(p, d) PROVE keeps
  <2> DEFINE x == [y EXCEPT !.subCategory = FALSE]
  <2>1. x \in Doc /\ UpdateOf(p, d, y, x)
    BY <1>3, <1>4 DEF Doc, UpdateOf
  <2>2. Update(p, d, x) /\ Finishes(p, d)
    BY <1>14 DEF Delete
  <2> HIDE DEF x
  <2> QED
    BY <1>6, <1>8, <2>1, <2>2
<1>15. keeps
  BY <1>9, <1>10, <1>11, <1>12, <1>13, <1>14 DEF UpdateOne
<1> QED
  BY <1>15 DEF keeps

(* What "names" leaves alone when it takes its copy.                       *)
SameButNames(x, y) ==
  /\ x.row = y.row /\ x.articlesIds = y.articlesIds
  /\ x.subCategory = y.subCategory /\ x.subCategoryId = y.subCategoryId
  /\ x.localName = y.localName /\ x.locations = y.locations
  /\ x.japaneseName = y.japaneseName /\ x.placed = y.placed

(* A job takes its copy; "names" is counted in every document it copies.   *)
LEMMA StartJobKeeps ==
  ASSUME IInv, NEW p \in Procs, NEW job \in Jobs, StartJob(p, job)
  PROVE  /\ IInv'
         /\ \A e \in DocIds : StaysVisible(ingredients[e], ingredients'[e])
<1> DEFINE r == [job |-> job, seen |-> ingredients, left |-> DOMAIN ingredients, doc |-> 0]
           more(y) == [y EXCEPT !.names = @ + 1]
<1>1. /\ runs[p] = Off /\ runs' = [runs EXCEPT ![p] = r]
      /\ UNCHANGED <<articles, imports, importer>>
  BY DEF StartJob, Running, importVars
<1>2. /\ ingredients \in Seq(Doc) /\ DocIds = DOMAIN ingredients
      /\ Len(ingredients) \in Nat /\ DOMAIN ingredients = 1..Len(ingredients)
  BY DEF IInv, TypeOK, DocIds
<1>3. \A d \in DocIds : /\ ingredients[d] \in Doc /\ more(ingredients[d]) \in Doc
                        /\ SameButNames(more(ingredients[d]), ingredients[d])
                        /\ ingredients[d].names \in Nat
                        /\ more(ingredients[d]).names = ingredients[d].names + 1
  <2> SUFFICES ASSUME NEW d \in DocIds
               PROVE  /\ ingredients[d] \in Doc /\ more(ingredients[d]) \in Doc
                      /\ SameButNames(more(ingredients[d]), ingredients[d])
                      /\ ingredients[d].names \in Nat
                      /\ more(ingredients[d]).names = ingredients[d].names + 1
    OBVIOUS
  <2>1. ingredients[d] \in Doc
    BY <1>2
  <2> QED
    BY <2>1 DEF Doc, SameButNames
<1> HIDE DEF more
<1>4. ingredients' = IF job # "names" THEN ingredients
                     ELSE [d \in DOMAIN ingredients |-> more(ingredients[d])]
  BY DEF StartJob, more
<1>5. /\ ingredients' \in Seq(Doc) /\ DocIds' = DocIds
      /\ \A d \in DocIds : SameButNames(ingredients'[d], ingredients[d])
      /\ \A d \in DocIds : ingredients'[d].names = IF job = "names" THEN ingredients[d].names + 1
                                                                   ELSE ingredients[d].names
  <2>1. CASE job # "names"
    BY <2>1, <1>2, <1>4 DEF DocIds, SameButNames
  <2>2. CASE job = "names"
    <3>1. ingredients' = [d \in 1..Len(ingredients) |-> more(ingredients[d])]
      BY <2>2, <1>2, <1>4
    <3>2. ingredients' \in [1..Len(ingredients) -> Doc]
      BY <3>1, <1>2, <1>3
    <3>3. ingredients' \in Seq(Doc) /\ DocIds' = DocIds
      BY <3>2, <1>2 DEF DocIds
    <3> QED
      BY <2>2, <3>1, <3>3, <1>2, <1>3
  <2> QED
    BY <2>1, <2>2
<1>6. /\ r \in Run /\ r.job = job /\ r.seen = ingredients /\ r.left = DocIds
      /\ runs'[p] = r /\ \A q \in Procs : q # p => runs'[q] = runs[q]
  BY <1>1, <1>2 DEF Run, IInv, TypeOK
<1>7. TypeOK'
  BY <1>1, <1>5, <1>6 DEF IInv, TypeOK, StartJob
<1>8. ImportHalf'
  BY <1>1, <1>5, JobsLeaveImport DEF SameButNames
<1> HIDE DEF r
<1>9. \A d \in DocIds : /\ ingredients[d].names = 0 /\ ingredients[d].placed => ingredients[d].localName
                        /\ ingredients[d].locations # unset => ingredients[d].names >= 1
  BY DEF IInv, JobHalf, DocsOK
<1>10. DocsOK'
  BY <1>3, <1>5, <1>9 DEF DocsOK, SameButNames
<1>11. CopiesOK'
  <2> SUFFICES ASSUME NEW q \in Procs, runs'[q] # Off
               PROVE  /\ runs'[q].left \subseteq DOMAIN runs'[q].seen
                      /\ DOMAIN runs'[q].seen \subseteq DocIds
                      /\ \A d \in DOMAIN runs'[q].seen :
                           /\ runs'[q].seen[d].row = ingredients[d].row
                           /\ ingredients[d].subCategory => runs'[q].seen[d].subCategory
    BY <1>5 DEF CopiesOK, Running, Seen, SameButNames
  <2>1. CASE q = p
    BY <2>1, <1>2, <1>6
  <2>2. CASE q # p
    BY <2>2, <1>6 DEF IInv, JobHalf, CopiesOK, Running, Seen
  <2> QED
    BY <2>1, <2>2
<1>12. \A q \in Procs : runs[q].job \in Jobs => q # p /\ DOMAIN runs[q].seen \subseteq DocIds
  BY <1>1, RunType DEF Running
<1>13. NamesOK'
  <2> SUFFICES ASSUME NEW q \in Procs, runs'[q].job = "names", NEW d \in DOMAIN runs'[q].seen
               PROVE  \/ ingredients'[d].names >= 2
                      \/ /\ ingredients'[d].names = 1
                         /\ ingredients'[d].placed => runs'[q].seen[d].localName
                         /\ d \in runs'[q].left => ingredients'[d].locations = unset
    BY DEF NamesOK, Seen
  <2>1. CASE q = p
    BY <2>1, <1>2, <1>3, <1>5, <1>6, <1>9 DEF SameButNames
  <2>2. CASE q # p
    <3>1. d \in DocIds
      BY <2>2, <1>6, <1>12 DEF Jobs
    <3>2. \/ ingredients[d].names >= 2
          \/ /\ ingredients[d].names = 1
             /\ ingredients[d].placed => runs[q].seen[d].localName
             /\ d \in runs[q].left => ingredients[d].locations = unset
      BY <2>2, <1>6 DEF IInv, JobHalf, NamesOK, Seen
    <3> QED
      BY <2>2, <3>1, <3>2, <1>3, <1>5, <1>6 DEF SameButNames
  <2> QED
    BY <2>1, <2>2
<1>14. NamesTwice'
  <2> SUFFICES ASSUME NEW q \in Procs, NEW o \in Procs, q # o,
                      runs'[q].job = "names", runs'[o].job = "names",
                      NEW d \in DOMAIN runs'[q].seen \cap DOMAIN runs'[o].seen
               PROVE  ingredients'[d].names >= 2
    BY DEF NamesTwice
  <2>1. ASSUME NEW u \in Procs, u # p, runs'[u].job = "names", d \in DOMAIN runs'[u].seen
        PROVE  d \in DocIds /\ ingredients[d].names >= 1
    BY <2>1, <1>3, <1>6, <1>12 DEF IInv, JobHalf, NamesOK, Jobs
  <2>2. CASE q = p \/ o = p
    BY <2>1, <2>2, <1>3, <1>5, <1>6
  <2>3. CASE q # p /\ o # p
    <3>1. ingredients[d].names >= 2
      BY <2>3, <1>6 DEF IInv, JobHalf, NamesTwice
    <3> QED
      BY <2>1, <2>3, <3>1, <1>3, <1>5
  <2> QED
    BY <2>2, <2>3
<1>15. ReplaceOK'
  <2> SUFFICES ASSUME ~overlapped'
               PROVE  /\ \A q, o \in Procs : runs'[q].job = "replace" /\ runs'[o].job = "replace" => q = o
                      /\ \A q \in Procs : runs'[q].job = "replace" =>
                           \A d \in runs'[q].left : ingredients'[d].subCategoryId = runs'[q].seen[d].subCategoryId
    BY DEF ReplaceOK, Seen
  <2>1. ~overlapped /\ (job = "replace" => \A q \in Procs : runs[q].job # "replace")
    BY DEF StartJob
  <2>2. \A q, o \in Procs : runs'[q].job = "replace" /\ runs'[o].job = "replace" => q = o
    BY <2>1, <1>6 DEF IInv, JobHalf, ReplaceOK
  <2>3. ASSUME NEW q \in Procs, runs'[q].job = "replace", NEW d \in runs'[q].left
        PROVE  ingredients'[d].subCategoryId = runs'[q].seen[d].subCategoryId
    <3>1. CASE q = p
      BY <3>1, <1>5, <1>6 DEF SameButNames
    <3>2. CASE q # p
      <4>1. d \in DocIds
        BY <3>2, <2>3, <1>6, RunType DEF Jobs
      <4>2. ingredients[d].subCategoryId = runs[q].seen[d].subCategoryId
        BY <3>2, <2>1, <2>3, <1>6 DEF IInv, JobHalf, ReplaceOK, Seen
      <4> QED
        BY <3>2, <4>1, <4>2, <1>5, <1>6 DEF SameButNames
    <3> QED
      BY <3>1, <3>2
  <2> QED
    BY <2>2, <2>3
<1>16. PlaceLostByRerunOnly'
  BY <1>3, <1>5 DEF IInv, JobHalf, PlaceLostByRerunOnly, SameButNames
<1>17. NullIdOnlyWithoutName'
  BY <1>5 DEF IInv, JobHalf, NullIdOnlyWithoutName, SameButNames
<1>18. \A e \in DocIds : StaysVisible(ingredients[e], ingredients'[e])
  BY <1>5 DEF StaysVisible, SameButNames
<1> QED
  BY <1>7, <1>8, <1>10, <1>11, <1>13, <1>14, <1>15, <1>16, <1>17, <1>18 DEF IInv, JobHalf

LEMMA EndJobKeeps ==
  ASSUME IInv, NEW p \in Procs, EndJob(p)
  PROVE  IInv'
<1>1. /\ runs' = [runs EXCEPT ![p] = Off]
      /\ UNCHANGED <<ingredients, articles, importer, overlapped>>
  BY DEF EndJob, importVars
<1>2. /\ runs' \in [Procs -> Run \cup {Off}] /\ runs'[p] = Off
      /\ \A q \in Procs : q # p => runs'[q] = runs[q]
  BY <1>1 DEF IInv, TypeOK
<1>3. DocIds' = DocIds
  BY <1>1 DEF DocIds
<1>4. TypeOK'
  BY <1>1, <1>2 DEF IInv, TypeOK
<1>5. ImportHalf'
  BY <1>1, <1>3, JobsLeaveImport
<1>6. Off.job # "names" /\ Off.job # "replace"
  BY DEF Off
<1> HIDE DEF Off
<1>7. DocsOK' /\ PlaceLostByRerunOnly' /\ NullIdOnlyWithoutName'
  BY <1>1, <1>3 DEF IInv, JobHalf, DocsOK, PlaceLostByRerunOnly, NullIdOnlyWithoutName
<1>8. CopiesOK'
  BY <1>1, <1>2, <1>3 DEF IInv, JobHalf, CopiesOK, Running, Seen
<1>9. NamesOK'
  BY <1>1, <1>2, <1>6 DEF IInv, JobHalf, NamesOK, Seen
<1>10. NamesTwice'
  BY <1>1, <1>2, <1>6 DEF IInv, JobHalf, NamesTwice
<1>11. ReplaceOK'
  BY <1>1, <1>2, <1>6 DEF IInv, JobHalf, ReplaceOK, Seen
<1> QED
  BY <1>4, <1>5, <1>7, <1>8, <1>9, <1>10, <1>11 DEF IInv, JobHalf

-----------------------------------------------------------------------------
LEMMA InitHolds == Init => IInv
<1> SUFFICES ASSUME Init PROVE IInv
  OBVIOUS
<1>1. TypeOK
  <2>1. ingredients \in Seq(Doc) /\ articles \in Seq(Article)
    BY DEF Init
  <2>2. importer \in Import \cup {Off} /\ overlapped \in BOOLEAN
    BY DEF Init
  <2>3. runs \in [Procs -> Run \cup {Off}]
    BY DEF Init
  <2> QED
    BY <2>1, <2>2, <2>3 DEF TypeOK
<1>2. DocIds = {} /\ DOMAIN articles = {}
  BY DEF Init, DocIds
<1>3. ImportHalf
  BY <1>2 DEF Init, ImportHalf, ImportOK, NothingAddedYet, ArticlesHaveDoc, LinkedIsWhole, Importing
<1>4. \A p \in Procs : ~Running(p) /\ runs[p].job \notin Jobs
  BY DEF Init, Running, Off, Jobs
<1>5. JobHalf
  BY <1>2, <1>4 DEF JobHalf, DocsOK, CopiesOK, NamesOK, NamesTwice, ReplaceOK,
                    PlaceLostByRerunOnly, NullIdOnlyWithoutName, Jobs
<1> QED
  BY <1>1, <1>3, <1>5 DEF IInv

(* The import's steps leave the documents that are there to the jobs.      *)
LEMMA ImportKeepsVisible ==
  ASSUME IInv,
         \/ StartImport \/ SkipRow \/ AddIngredient \/ AddArticle \/ AddSubCategory
         \/ LinkArticles \/ CallFails \/ EndImport
  PROVE  \A e \in DocIds : StaysVisible(ingredients[e], ingredients'[e])
<1> SUFFICES ASSUME NEW e \in DocIds PROVE StaysVisible(ingredients[e], ingredients'[e])
  OBVIOUS
<1>1. /\ ingredients \in Seq(Doc) /\ Len(ingredients) \in Nat
      /\ e \in DOMAIN ingredients /\ DOMAIN ingredients = 1..Len(ingredients)
  BY DEF IInv, TypeOK, DocIds
<1>2. ingredients[e] \in Doc
  BY <1>1
<1>3. CASE ingredients'[e] = ingredients[e]
  BY <1>3 DEF StaysVisible
<1>4. CASE AddIngredient
  <2>1. ingredients'[e] = ingredients[e]
    BY <1>1, <1>4 DEF AddIngredient
  <2> QED
    BY <1>3, <2>1
<1>5. CASE LinkArticles
  <2>1. \/ ingredients'[e] = ingredients[e]
        \/ ingredients'[e] = [ingredients[e] EXCEPT !.articlesIds = importer.arts]
    BY <1>1, <1>5 DEF LinkArticles
  <2> QED
    BY <1>2, <1>3, <2>1 DEF StaysVisible, Doc
<1> QED
  BY <1>3, <1>4, <1>5 DEF StartImport, SkipRow, AddArticle, AddSubCategory, CallFails, EndImport

LEMMA NextHolds ==
  IInv /\ [Next]_vars
    => IInv' /\ \A d \in DocIds : StaysVisible(ingredients[d], ingredients'[d])
<1> SUFFICES ASSUME IInv, [Next]_vars
             PROVE  IInv' /\ \A d \in DocIds : StaysVisible(ingredients[d], ingredients'[d])
  OBVIOUS
<1> DEFINE ImportStep == \/ StartImport \/ SkipRow \/ AddIngredient \/ AddArticle
                         \/ AddSubCategory \/ LinkArticles \/ CallFails \/ EndImport
<1>1. CASE ImportStep
  BY <1>1, ImportStepsKeep, ImportKeepsVisible
<1>2. ASSUME NEW p \in Procs, NEW job \in Jobs, StartJob(p, job)
      PROVE  IInv' /\ \A d \in DocIds : StaysVisible(ingredients[d], ingredients'[d])
  BY <1>2, StartJobKeeps
<1>3. ASSUME NEW p \in Procs, Running(p), NEW d \in runs[p].left, UpdateOne(p, d)
      PROVE  IInv' /\ \A e \in DocIds : StaysVisible(ingredients[e], ingredients'[e])
  BY <1>3, JobStepKeeps
<1>4. ASSUME NEW p \in Procs, EndJob(p)
      PROVE  IInv' /\ \A d \in DocIds : StaysVisible(ingredients[d], ingredients'[d])
  BY <1>4, EndJobKeeps DEF EndJob, StaysVisible
<1>5. CASE UNCHANGED vars
  <2>1. UNCHANGED <<ingredients, articles, importer, runs, overlapped>>
    BY <1>5 DEF vars, importVars, jobVars
  <2>2. TypeOK' /\ DocIds' = DocIds
    BY <2>1 DEF IInv, TypeOK, DocIds
  <2>3. ImportHalf'
    BY <2>1, <2>2, JobsLeaveImport
  <2>4. JobHalf'
    BY <2>1, <2>2, ImportLeavesJobs DEF SameForJobs
  <2> QED
    BY <2>1, <2>2, <2>3, <2>4 DEF IInv, StaysVisible
<1> QED
  BY <1>1, <1>2, <1>3, <1>4, <1>5 DEF Next

(* An import may be cut off and a row may fail at any call, and any jobs   *)
(* may run meanwhile: a document that names its articles names all of      *)
(* them, each complete (LinkedIsWhole), for any file.                      *)
THEOREM LinkedAreWhole == Spec => []LinkedIsWhole
<1>1. IInv => LinkedIsWhole
  BY DEF IInv, ImportHalf
<1>2. IInv /\ [Next]_vars => IInv'
  BY NextHolds
<1> QED
  BY <1>1, <1>2, InitHolds, PTL DEF Spec

(* "names" loses a place only when it is run twice on the document, or     *)
(* before "place" (PlaceLostByRerunOnly), for any number of processes.     *)
THEOREM PlacesSurvive == Spec => []PlaceLostByRerunOnly
<1>1. IInv => PlaceLostByRerunOnly
  BY DEF IInv, JobHalf
<1>2. IInv /\ [Next]_vars => IInv'
  BY NextHolds
<1> QED
  BY <1>1, <1>2, InitHolds, PTL DEF Spec

(* "replace" gives a listed category a null ID only after "delete" took    *)
(* the name away (NullIdOnlyWithoutName), for any table of IDs.            *)
THEOREM NullIdsExplained == Spec => []NullIdOnlyWithoutName
<1>1. IInv => NullIdOnlyWithoutName
  BY DEF IInv, JobHalf
<1>2. IInv /\ [Next]_vars => IInv'
  BY NextHolds
<1> QED
  BY <1>1, <1>2, InitHolds, PTL DEF Spec

(* What makes a document visible to the app is taken away again only by    *)
(* the two misuses named (VisibleStaysVisible).                            *)
THEOREM VisibleIsKept == Spec => VisibleStaysVisible
<1>1. IInv /\ [Next]_vars
        => IInv' /\ [\A d \in DocIds : StaysVisible(ingredients[d], ingredients'[d])]_vars
  BY NextHolds
<1> QED
  BY <1>1, InitHolds, PTL DEF Spec, VisibleStaysVisible
=============================================================================
