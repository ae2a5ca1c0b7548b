---------------------------- MODULE ArticlePages ----------------------------
(***************************************************************************)
(* The pages of one ingredient: every push of IngredientViewController     *)
(* starts a listener on the ingredient's articles and, for every article   *)
(* that arrives, one read of its sub_categories; ArticleViewController     *)
(* shows the text an article has when it is opened.                        *)
(*                                                                         *)
(* No page removes its listener, and the listener's closure holds the      *)
(* page, so a popped page goes on receiving articles for good.  A snapshot *)
(* of several changes is delivered here as several of one change each: the *)
(* handler keeps no state between two changes.                             *)
(***************************************************************************)
EXTENDS Integers, FiniteSets, SequencesExt

CONSTANTS
  Articles,       \* documents of the "Articles" collection, of this ingredient
  Untitled,       \* those that Article.init? rejects
  Retractable,    \* those an operator may take back by hand
  Subs,           \* documents of the articles' "sub_categories"
  SubRank,        \* the order of their keys
  Views,          \* the pages pushed, one after the other
  MaxWrites,      \* bound: changes of the query's result in the backend
  None            \* no ArticleViewController on the stack

ASSUME PagesOK ==
  /\ Untitled \subseteq Articles
  /\ Retractable \subseteq Articles
  /\ MaxWrites \in Nat
  /\ SubRank \in [Subs -> Nat]
  /\ \A s, t \in Subs : SubRank[s] = SubRank[t] => s = t

VARIABLES
  published,    \* articles that match the listener's query, in the backend
  writes,       \* changes of published so far
  stored,       \* stored[a]: sub-documents of a, in the backend
  page,         \* page[v]: "new", "shown" or "popped"
  known,        \* known[v]: the last snapshot delivered to v's listener
  articles,     \* articles[v]: [doc, subs] objects in order of arrival
  reads,        \* [view, row]: sub_categories reads in flight
  reload,       \* reload[v]: reloadData was called since the last layout
  rows,         \* rows[v]: the text in every row of v's table
  reader        \* [view, row, text] of the ArticleViewController, or None

backendVars == <<published, writes, stored>>
pageVars == <<page, reader>>
vars == <<backendVars, pageVars, known, articles, reads, reload, rows>>

Init ==
  /\ published = {}
  /\ writes = 0
  /\ stored = [a \in Articles |-> {}]
  /\ page = [v \in Views |-> "new"]
  /\ known = [v \in Views |-> {}]
  /\ articles = [v \in Views |-> <<>>]
  /\ reads = {}
  /\ reload = [v \in Views |-> TRUE]
  /\ rows = [v \in Views |-> <<>>]
  /\ reader = None

-----------------------------------------------------------------------------
(* The collector adds an article first, then its sub-documents one by one; *)
(* the language job makes it match the query, before or after.             *)

Publish(a) ==
  /\ writes < MaxWrites
  /\ writes' = writes + 1
  /\ a \notin published
  /\ published' = published \cup {a}
  /\ UNCHANGED <<stored, pageVars, known, articles, reads, reload, rows>>

Retract(a) ==
  /\ writes < MaxWrites
  /\ writes' = writes + 1
  /\ a \in published \cap Retractable
  /\ published' = published \ {a}
  /\ UNCHANGED <<stored, pageVars, known, articles, reads, reload, rows>>

StoreSub(a, s) ==
  /\ \A b \in Articles : s \notin stored[b]
  /\ stored' = [stored EXCEPT ![a] = @ \cup {s}]
  /\ UNCHANGED <<published, writes, pageVars, known, articles, reads, reload, rows>>

-----------------------------------------------------------------------------
Listens(v) == page[v] # "new"

(* viewDidLoad: the page comes up with a listener of its own.              *)
Push(v) ==
  /\ page[v] = "new"
  /\ \A w \in Views : page[w] # "shown"
  /\ page' = [page EXCEPT ![v] = "shown"]
  /\ UNCHANGED <<backendVars, known, articles, reads, reload, rows, reader>>

(* Slip: a read for every change, also for an article that is listed.      *)
insertNewArticle_Rereads(v, a) ==
  IF a \in Untitled
  THEN UNCHANGED <<articles, reads>>
  ELSE /\ articles' = [articles EXCEPT ![v] = Append(@, [doc |-> a, subs |-> <<>>])]
       /\ reads' = reads \cup {[view |-> v, row |-> r] : r \in 1..(Len(articles[v]) + 1)}

insertNewArticle(v, a) ==
  IF a \in Untitled
  THEN UNCHANGED <<articles, reads>>
  ELSE /\ articles' = [articles EXCEPT ![v] = Append(@, [doc |-> a, subs |-> <<>>])]
       /\ reads' = reads \cup {[view |-> v, row |-> Len(articles[v]) + 1]}

ArticleAdded(v, a) ==
  /\ Listens(v)
  /\ a \in published \ known[v]
  /\ known' = [known EXCEPT ![v] = @ \cup {a}]
  /\ insertNewArticle(v, a)
  /\ reload' = [reload EXCEPT ![v] = TRUE]
  /\ UNCHANGED <<backendVars, pageVars, rows>>

(* The default case, which prints "TODO", for an article that leaves the   *)
(* query's result ...                                                      *)
ArticleRemoved(v, a) ==
  /\ Listens(v)
  /\ a \in known[v] \ published
  /\ known' = [known EXCEPT ![v] = @ \ {a}]
  /\ reload' = [reload EXCEPT ![v] = TRUE]
  /\ UNCHANGED <<backendVars, pageVars, articles, reads, rows>>

(* ... and for one that is edited in it.                                   *)
ArticleModified(v, a) ==
  /\ Listens(v)
  /\ a \in known[v] \cap published
  /\ reload' = [reload EXCEPT ![v] = TRUE]
  /\ UNCHANGED <<backendVars, pageVars, known, articles, reads, rows>>

(* The documents of an answer come in the order of their keys.             *)
InKeyOrder(S) ==
  CHOOSE f \in [1..Cardinality(S) -> S] :
    \A i, j \in 1..Cardinality(S) : i < j => SubRank[f[i]] < SubRank[f[j]]

(* Slip: the answer goes to the newest article of the page.                *)
SubsAnswer_Newest(v, r, S) ==
  /\ [view |-> v, row |-> r] \in reads
  /\ reads' = reads \ {[view |-> v, row |-> r]}
  /\ articles' = [articles EXCEPT ![v][Len(articles[v])].subs = @ \o InKeyOrder(S)]
  /\ reload' = [reload EXCEPT ![v] = @ \/ S # {}]
  /\ UNCHANGED <<backendVars, pageVars, known, rows>>

(* Slip: the table is not told of sub-articles that come later.            *)
SubsAnswer_NoReload(v, r, S) ==
  /\ [view |-> v, row |-> r] \in reads
  /\ reads' = reads \ {[view |-> v, row |-> r]}
  /\ articles' = [articles EXCEPT ![v][r].subs = @ \o InKeyOrder(S)]
  /\ UNCHANGED <<backendVars, pageVars, known, reload, rows>>

(* The closure of getDocuments appends to the article it was called for.   *)
SubsAnswer(v, r, S) ==
  /\ [view |-> v, row |-> r] \in reads
  /\ reads' = reads \ {[view |-> v, row |-> r]}
  /\ articles' = [articles EXCEPT ![v][r].subs = @ \o InKeyOrder(S)]
  /\ reload' = [reload EXCEPT ![v] = @ \/ S # {}]
  /\ UNCHANGED <<backendVars, pageVars, known, rows>>

(* What an answer gives: offline a part of what is stored, after an error  *)
(* nothing, and never a document that SubArticle.init? rejects.            *)
Answers(a) == SUBSET stored[a]

AnswerRead(v, r) ==
  /\ [view |-> v, row |-> r] \in reads
  /\ \E S \in Answers(articles[v][r].doc) : SubsAnswer(v, r, S)

Texts(v) == [r \in DOMAIN articles[v] |-> articles[v][r].subs]

(* A table that is in the window asks its data source again.               *)
LayOut(v) ==
  /\ page[v] = "shown"
  /\ reader = None
  /\ reload[v]
  /\ reload' = [reload EXCEPT ![v] = FALSE]
  /\ rows' = [rows EXCEPT ![v] = Texts(v)]
  /\ UNCHANGED <<backendVars, pageVars, known, articles, reads>>

(* The article page fills its label when it comes up, and never again.     *)
Reader(v, r, article) == [view |-> v, row |-> r, text |-> article.subs]

readMoreButtonDidTapped(v, r) ==
  /\ page[v] = "shown"
  /\ reader = None
  /\ ~reload[v]
  /\ r \in DOMAIN rows[v]
  /\ reader' = Reader(v, r, articles[v][r])
  /\ UNCHANGED <<backendVars, page, known, articles, reads, reload, rows>>

CloseReader ==
  /\ reader # None
  /\ reader' = None
  /\ UNCHANGED <<backendVars, page, known, articles, reads, reload, rows>>

Pop(v) ==
  /\ page[v] = "shown"
  /\ reader = None
  /\ page' = [page EXCEPT ![v] = "popped"]
  /\ UNCHANGED <<backendVars, known, articles, reads, reload, rows, reader>>

Next ==
  \/ \E a \in Articles : Publish(a) \/ Retract(a)
  \/ \E a \in Articles, s \in Subs : StoreSub(a, s)
  \/ \E v \in Views : Push(v) \/ LayOut(v) \/ Pop(v)
  \/ \E v \in Views, a \in Articles : ArticleAdded(v, a) \/ ArticleRemoved(v, a)
                                     \/ ArticleModified(v, a)
  \/ \E v \in Views : \E r \in DOMAIN articles[v] : AnswerRead(v, r)
  \/ \E v \in Views : \E r \in DOMAIN rows[v] : readMoreButtonDidTapped(v, r)
  \/ CloseReader

Spec == Init /\ [][Next]_vars

(* The SDK delivers changes and answers; the main queue lays out.          *)
Fairness ==
  \A v \in Views :
    /\ WF_vars(\E r \in DOMAIN articles[v] : AnswerRead(v, r))
    /\ WF_vars(LayOut(v))

FairSpec == Spec /\ Fairness

-----------------------------------------------------------------------------
(* A table never shows a text its article does not have: every answer that *)
(* arrives while the page is up asks for a layout, and no answer of an     *)
(* older page disturbs a newer one.                                        *)
RowsFresh ==
  \A v \in Views : page[v] = "shown" /\ ~reload[v] => rows[v] = Texts(v)

(* Every sub-article stands under its own article, and once, though the    *)
(* answers come in any order and pages of the same ingredient overlap.     *)
SubsAtHome ==
  \A v \in Views : \A r \in DOMAIN articles[v] :
    /\ ToSet(articles[v][r].subs) \subseteq stored[articles[v][r].doc]
    /\ IsInjective(articles[v][r].subs)

(* A read in flight is for a row that is listed and has no answer yet, so  *)
(* that no article is read twice; and every titled article that the        *)
(* listener knows of has a row.                                            *)
ReadsMatchRows ==
  /\ \A rd \in reads : /\ rd.row \in DOMAIN articles[rd.view]
                       /\ articles[rd.view][rd.row].subs = <<>>
  /\ \A v \in Views : \A a \in known[v] \ Untitled :
       \E r \in DOMAIN articles[v] : articles[v][r].doc = a

(* Every article of a page that stays up gets its answer and is shown with *)
(* it.                                                                     *)
TextArrives ==
  \A v \in Views :
    (page[v] = "shown" /\ articles[v] # <<>>)
      ~> \/ page[v] = "popped"
         \/ reader # None
         \/ /\ rows[v] = Texts(v)
            /\ \A rd \in reads : rd.view # v
=============================================================================
