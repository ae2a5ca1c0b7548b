------------------------------ MODULE Catalog ------------------------------
(***************************************************************************)
(* The writers of the database: the import of a CSV file, which adds every *)
(* ingredient with its articles in many separate calls, and the migration  *)
(* jobs, each of which reads the whole "Ingredients" collection at once    *)
(* and then updates one document after the other from what it read.        *)
(*                                                                         *)
(* Nothing keeps two of them apart: an operator starts them by hand, each  *)
(* may be killed between two calls and started again.                      *)
(***************************************************************************)
EXTENDS Integers, FiniteSets, SequencesExt

CONSTANTS
  Rows,         \* the CSV: [json, articles, category] records, see RowsOK
  Ids,          \* document IDs of the "SubCategories" collection
  IdOf,         \* the ID of a category name; nil for a name it does not list
  nil,          \* Ruby's nil, stored as null
  unset,        \* the field is not there
  SubsPer,      \* sub-categories of an article
  Procs,        \* job processes that may run at a time
  MaxImports,   \* bound: imports started
  MaxJobs       \* bound: jobs started

Jobs == {"place", "names", "language", "replace", "delete"}

ASSUME RowsOK ==
  /\ Rows \in Seq([json : {"blank", "broken", "null", "fine"}, articles : Nat,
                   category : DOMAIN IdOf])
  /\ IdOf \in [DOMAIN IdOf -> Ids \cup {nil}]
  /\ nil \notin Ids /\ unset \notin Ids /\ nil # unset
  /\ "tokyo" \notin {nil, unset}
  /\ SubsPer \in Nat
  /\ MaxImports \in Nat /\ MaxJobs \in Nat

VARIABLES
  ingredients,  \* the "Ingredients" collection, in the order of creation
  articles,     \* the "Articles" collection: [of, subs] records
  imports,      \* imports started
  importer,     \* the import under way: [row, doc, added, arts], or Off
  jobs,         \* jobs started
  runs,         \* runs[p]: [job, seen, left, doc], or Off
  overlapped    \* history: two "replace" runs have been under way at once

importVars == <<articles, imports, importer>>
jobVars == <<jobs, runs, overlapped>>
vars == <<ingredients, importVars, jobVars>>

Off == [job |-> "off"]

-----------------------------------------------------------------------------
(* IngredientsInserter.  A document as the import adds it; placed and      *)
(* names are history: whether "place" updated it before any "names" run    *)
(* saw it, and how many "names" runs saw it.                               *)
NewDoc(row) ==
  [row |-> row, articlesIds |-> unset,
   subCategory |-> TRUE, subCategoryId |-> unset, localName |-> FALSE,
   locations |-> unset, japaneseName |-> FALSE, placed |-> FALSE, names |-> 0]

Importing == importer # Off
Row == Rows[importer.row]
InRow == Importing /\ importer.row <= Len(Rows)
BeforeAdd == InRow /\ importer.doc = 0
AfterAdd == InRow /\ importer.doc # 0

NextRow ==
  importer' = [importer EXCEPT !.row = @ + 1, !.doc = 0, !.added = 0, !.arts = {}]

ArticlesDone == \A a \in importer.arts : articles[a].subs = SubsPer

Init ==
  /\ ingredients = <<>>
  /\ articles = <<>>
  /\ imports = 0
  /\ importer = Off
  /\ jobs = 0
  /\ runs = [p \in Procs |-> Off]
  /\ overlapped = FALSE

StartImport ==
  /\ ~Importing
  /\ imports < MaxImports
  /\ imports' = imports + 1
  /\ importer' = [job |-> "import", row |-> 1, doc |-> 0,
                   added |-> 0, arts |-> {}]
  /\ UNCHANGED <<ingredients, articles, jobVars>>

(* No articles: next.  A text that is no JSON raises before anything is    *)
(* written, and the operator leaves the debugger for the next row.         *)
SkipRow ==
  /\ BeforeAdd
  /\ Row.json \in {"blank", "broken"}
  /\ NextRow
  /\ UNCHANGED <<ingredients, articles, imports, jobVars>>

AddIngredient ==
  /\ BeforeAdd
  /\ Row.json \in {"null", "fine"}
  /\ ingredients' = Append(ingredients, NewDoc(importer.row))
  /\ importer' = [importer EXCEPT !.doc = Len(ingredients) + 1]
  /\ UNCHANGED <<articles, imports, jobVars>>

AddArticle ==
  /\ AfterAdd
  /\ Row.json = "fine"
  /\ importer.added < Row.articles
  /\ ArticlesDone
  /\ articles' = Append(articles, [of |-> importer.doc, subs |-> 0])
  /\ importer' = [importer EXCEPT !.added = @ + 1,
                                  !.arts = @ \cup {Len(articles) + 1}]
  /\ UNCHANGED <<ingredients, imports, jobVars>>

AddSubCategory ==
  /\ AfterAdd
  /\ \E a \in importer.arts :
       /\ articles[a].subs < SubsPer
       /\ articles' = [articles EXCEPT ![a].subs = @ + 1]
  /\ UNCHANGED <<ingredients, imports, importer, jobVars>>

(* Slip: the articles are linked as soon as they are added.                *)
LinkArticles_First ==
  /\ AfterAdd
  /\ Row.json = "fine"
  /\ importer.added = Row.articles
  /\ ingredients' = [ingredients EXCEPT ![importer.doc].articlesIds = importer.arts]
  /\ NextRow
  /\ UNCHANGED <<articles, imports, jobVars>>

LinkArticles ==
  /\ AfterAdd
  /\ Row.json = "fine"
  /\ importer.added = Row.articles
  /\ ArticlesDone
  /\ ingredients' = [ingredients EXCEPT ![importer.doc].articlesIds = importer.arts]
  /\ NextRow
  /\ UNCHANGED <<articles, imports, jobVars>>

(* A call fails, or the articles are null and have no each: the operator   *)
(* leaves the debugger, and the import goes on with the next row.          *)
CallFails ==
  /\ InRow
  /\ NextRow
  /\ UNCHANGED <<ingredients, articles, imports, jobVars>>

(* The file is done, or the process is killed.                             *)
EndImport ==
  /\ Importing
  /\ importer' = Off
  /\ UNCHANGED <<ingredients, articles, imports, jobVars>>

-----------------------------------------------------------------------------
(* The jobs.                                                               *)

Running(p) == runs[p] # Off
Seen(p, d) == runs[p].seen[d]

(* get: one consistent copy of the collection.                             *)
StartJob(p, job) ==
  /\ ~Running(p)
  /\ jobs < MaxJobs
  /\ jobs' = jobs + 1
  /\ runs' = [runs EXCEPT ![p] = [job |-> job, seen |-> ingredients,
                                  left |-> DOMAIN ingredients, doc |-> 0]]
  /\ overlapped' = (overlapped \/ (job = "replace" /\
                      \E q \in Procs : runs[q].job = "replace"))
  /\ ingredients' = IF job # "names" THEN ingredients
                    ELSE [d \in DOMAIN ingredients |->
                            [ingredients[d] EXCEPT !.names = @ + 1]]
  /\ UNCHANGED importVars

Update(p, d, x) ==
  /\ ingredients' = [ingredients EXCEPT ![d] = x]
  /\ UNCHANGED <<importVars, jobs, overlapped>>

(* The update of d is the last one the job makes of it.                    *)
Finishes(p, d) ==
  runs' = [runs EXCEPT ![p].left = @ \ {d}, ![p].doc = 0]

On(p, job, d) ==
  /\ runs[p].job = job
  /\ d \in runs[p].left
  /\ runs[p].doc \in {0, d}

Place(p, d) ==
  /\ On(p, "place", d)
  /\ Update(p, d, [ingredients[d] EXCEPT !.localName = TRUE,
                     !.placed = @ \/ ingredients[d].names = 0])
  /\ Finishes(p, d)

(* location_names and category, which nothing reads, are deleted as well.  *)
DeleteLocalName(p, d) ==
  /\ On(p, "names", d)
  /\ runs[p].doc = 0
  /\ Update(p, d, [ingredients[d] EXCEPT !.localName = FALSE])
  /\ runs' = [runs EXCEPT ![p].doc = d]

(* Slip: the name is read from the document, not from the copy.            *)
SetLocations_Rereads(p, d) ==
  /\ On(p, "names", d)
  /\ runs[p].doc = d
  /\ Update(p, d, [ingredients[d] EXCEPT
                     !.locations = IF ingredients[d].localName THEN "tokyo" ELSE nil])
  /\ Finishes(p, d)

(* [col[:local_location_name]], of the copy.                               *)
SetLocations(p, d) ==
  /\ On(p, "names", d)
  /\ runs[p].doc = d
  /\ Update(p, d, [ingredients[d] EXCEPT
                     !.locations = IF Seen(p, d).localName THEN "tokyo" ELSE nil])
  /\ Finishes(p, d)

SetLanguage(p, d) ==
  /\ On(p, "language", d)
  /\ Update(p, d, [ingredients[d] EXCEPT !.japaneseName = TRUE])
  /\ Finishes(p, d)

present(id) == id \notin {unset, nil}

ListedId(x) == IF x.subCategory THEN IdOf[Rows[x.row].category] ELSE nil

(* Slip: no unless; every document is replaced.                            *)
Replace_Always(p, d) ==
  /\ On(p, "replace", d)
  /\ Update(p, d, [ingredients[d] EXCEPT !.subCategoryId = ListedId(Seen(p, d))])
  /\ Finishes(p, d)

(* Slip: the names the case lists are looked up with a symbol.             *)
Replace_NeverListed(p, d) ==
  /\ On(p, "replace", d)
  /\ Update(p, d, IF present(Seen(p, d).subCategoryId) THEN ingredients[d]
                  ELSE [ingredients[d] EXCEPT !.subCategoryId = nil])
  /\ Finishes(p, d)

Replace(p, d) ==
  /\ On(p, "replace", d)
  /\ Update(p, d, IF present(Seen(p, d).subCategoryId) THEN ingredients[d]
                  ELSE [ingredients[d] EXCEPT !.subCategoryId = ListedId(Seen(p, d))])
  /\ Finishes(p, d)

Delete(p, d) ==
  /\ On(p, "delete", d)
  /\ Update(p, d, [ingredients[d] EXCEPT !.subCategory = FALSE])
  /\ Finishes(p, d)

UpdateOne(p, d) ==
  \/ Place(p, d) \/ DeleteLocalName(p, d) \/ SetLocations(p, d)
  \/ SetLanguage(p, d) \/ Replace(p, d) \/ Delete(p, d)

(* Every document is done, or the process is killed, or a call failed.     *)
EndJob(p) ==
  /\ Running(p)
  /\ runs' = [runs EXCEPT ![p] = Off]
  /\ UNCHANGED <<ingredients, importVars, jobs, overlapped>>

Next ==
  \/ StartImport \/ SkipRow \/ AddIngredient \/ AddArticle \/ AddSubCategory
  \/ LinkArticles \/ CallFails \/ EndImport
  \/ \E p \in Procs : \E job \in Jobs : StartJob(p, job)
  \/ \E p \in Procs : Running(p) /\ \E d \in runs[p].left : UpdateOne(p, d)
  \/ \E p \in Procs : EndJob(p)

Spec == Init /\ [][Next]_vars

-----------------------------------------------------------------------------
DocIds == DOMAIN ingredients
ArticlesOf(d) == {a \in DOMAIN articles : articles[a].of = d}

(* A document that names its articles names all of them, each with all its *)
(* sub-categories: an import that was cut off, or a row that failed, is    *)
(* told by the missing field.                                              *)
LinkedIsWhole ==
  \A d \in DocIds : ingredients[d].articlesIds # unset =>
    /\ ingredients[d].articlesIds = ArticlesOf(d)
    /\ Cardinality(ArticlesOf(d)) = Rows[ingredients[d].row].articles
    /\ \A a \in ArticlesOf(d) : articles[a].subs = SubsPer

(* "names" loses the place of a document only when it is run a second time *)
(* on it, or when it was run before "place": being cut off between its two *)
(* updates does no such harm, and neither does a "place" at the same time. *)
PlaceLostByRerunOnly ==
  \A d \in DocIds : ingredients[d].locations = nil =>
    ingredients[d].names >= 2 \/ ~ingredients[d].placed

(* A listed category gets a null ID only when its name was deleted first,  *)
(* and then no job can tell the category any more.                         *)
NullIdOnlyWithoutName ==
  \A d \in DocIds :
    ingredients[d].subCategoryId = nil /\ IdOf[Rows[ingredients[d].row].category] # nil
      => ~ingredients[d].subCategory

(* What Ingredient.init? asks of a document does not go away again: a      *)
(* place only when "names" is run on it twice, an ID only when two         *)
(* "replace" runs overlap, whatever else runs meanwhile.                   *)
StaysVisible(x, y) ==
  /\ x.locations = "tokyo" /\ y.locations # "tokyo" => x.names >= 2
  /\ present(x.subCategoryId) /\ ~present(y.subCategoryId) => overlapped
  /\ x.japaneseName => y.japaneseName

VisibleStaysVisible ==
  [][\A d \in DocIds : StaysVisible(ingredients[d], ingredients'[d])]_vars
=============================================================================
