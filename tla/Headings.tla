------------------------------ MODULE Headings ------------------------------
(***************************************************************************)
(* How a scraper turns the flat list of headings and paragraphs of a page  *)
(* into articles with sub-categories: it remembers the text of the last h2 *)
(* and of the last h3 and looks the article and the sub-category up by     *)
(* these texts.  Three loops differ in what ends them:                     *)
(*   "page"   a paragraph without an article ends the page (vegetables,    *)
(*            seafood, mushrooms);                                         *)
(*   "divs"   it ends the enclosing div (fruit);                           *)
(*   "choose" it is passed over, and of the h2 only those about choosing   *)
(*            the food open an article (CollectMekikiInfoScraper).         *)
(***************************************************************************)
EXTENDS Integers, SequencesExt

CONSTANTS
  Loops,      \* the loops to consider
  Pages,      \* sequences of elements, see PagesOK
  Topics,     \* the h2 texts about choosing the food
  nil         \* no heading yet

AllLoops == {"page", "divs", "choose"}

ASSUME PagesOK ==
  /\ Loops \subseteq AllLoops
  /\ \A p \in Pages : p \in Seq(ToSet(p))
  /\ \A p \in Pages : \A i \in DOMAIN p : p[i].kind \in {"h2", "h3", "doc", "div"}

VARIABLES
  loop,         \* the loop this behaviour is about
  page,         \* the elements; a "div" element begins the next div
  pos,          \* the element that is next
  current_h2,   \* text of the last h2
  current_h3,   \* text of the last h3
  articles,     \* [title, subs], subs of [title, contents], in page order
  left          \* break: the rest of the page or div is passed over

vars == <<loop, page, pos, current_h2, current_h3, articles, left>>

HasDivs(p) == \E i \in DOMAIN p : p[i].kind = "div"

Init ==
  /\ loop \in Loops
  /\ page \in Pages
  /\ HasDivs(page) => loop = "divs"
  /\ pos = 1
  /\ current_h2 = nil
  /\ current_h3 = nil
  /\ articles = <<>>
  /\ left = FALSE

Read(kind) ==
  /\ pos <= Len(page)
  /\ ~left
  /\ page[pos].kind = kind
  /\ pos' = pos + 1
  /\ UNCHANGED <<loop, page>>

Text == page[pos].text

\* find: the indices that match, of which the first counts.
Targets == {k \in DOMAIN articles : articles[k].title = current_h2}
Target == Min(Targets)
SubTargets == {j \in DOMAIN articles[Target].subs :
                 articles[Target].subs[j].title = current_h3}

H2 ==
  /\ Read("h2")
  /\ current_h2' = Text
  /\ articles' = IF loop = "choose" /\ Text \notin Topics THEN articles
                 ELSE Append(articles, [title |-> Text, subs |-> <<>>])
  /\ UNCHANGED <<current_h3, left>>

(* Slip: the heading goes to the first article.                            *)
H3_First ==
  /\ Read("h3")
  /\ current_h3' = Text
  /\ articles' = IF articles = <<>> THEN articles
                 ELSE [articles EXCEPT ![1].subs =
                         Append(@, [title |-> Text, contents |-> <<>>])]
  /\ UNCHANGED <<current_h2, left>>

H3 ==
  /\ Read("h3")
  /\ current_h3' = Text
  /\ articles' = IF Targets = {} THEN articles
                 ELSE [articles EXCEPT ![Target].subs =
                         Append(@, [title |-> Text, contents |-> <<>>])]
  /\ UNCHANGED <<current_h2, left>>

(* Slip: the loop is left for want of a sub-category, too.                 *)
Doc_Breaks ==
  /\ Read("doc")
  /\ Targets # {}
  /\ articles' = IF SubTargets = {} THEN articles
                 ELSE [articles EXCEPT ![Target].subs[Min(SubTargets)].contents =
                         Append(@, pos)]
  /\ left' = (SubTargets = {})
  /\ UNCHANGED <<current_h2, current_h3>>

(* A paragraph, for which its position stands.                             *)
Doc ==
  /\ Read("doc")
  /\ Targets # {}
  /\ articles' = IF SubTargets = {} THEN articles
                 ELSE [articles EXCEPT ![Target].subs[Min(SubTargets)].contents =
                         Append(@, pos)]
  /\ UNCHANGED <<current_h2, current_h3, left>>

(* A paragraph without an article: next or break.                          *)
OrphanDoc ==
  /\ Read("doc")
  /\ Targets = {}
  /\ left' = (loop # "choose")
  /\ UNCHANGED <<current_h2, current_h3, articles>>

PassOver ==
  /\ left
  /\ pos <= Len(page)
  /\ page[pos].kind # "div"
  /\ pos' = pos + 1
  /\ UNCHANGED <<loop, page, current_h2, current_h3, articles, left>>

(* The headings are kept from one div to the next.                         *)
NextDiv ==
  /\ pos <= Len(page)
  /\ page[pos].kind = "div"
  /\ pos' = pos + 1
  /\ left' = FALSE
  /\ UNCHANGED <<loop, page, current_h2, current_h3, articles>>

Next == H2 \/ H3 \/ Doc \/ OrphanDoc \/ PassOver \/ NextDiv

Spec == Init /\ [][Next]_vars

-----------------------------------------------------------------------------
At(kind) == {i \in DOMAIN page : page[i].kind = kind}
Nearest(kind, q) == LET S == {i \in At(kind) : i < q} IN IF S = {} THEN 0 ELSE Max(S)

(* On any page, whatever titles repeat: a paragraph that is kept stands    *)
(* once, under an h2 and an h3 with the texts of the nearest ones above    *)
(* it, and the sub-category follows its article's title on the page.       *)
Under(sub, title) ==
  /\ IsInjective(sub.contents)
  /\ \A q \in ToSet(sub.contents) :
       /\ page[q].kind = "doc"
       /\ page[Nearest("h3", q)].text = sub.title
       /\ page[Nearest("h2", q)].text = title
  /\ \E h \in At("h3") :
       /\ page[h].text = sub.title
       /\ Nearest("h2", h) > 0 /\ page[Nearest("h2", h)].text = title

UnderItsTitles ==
  \A k \in DOMAIN articles : \A j \in DOMAIN articles[k].subs :
    Under(articles[k].subs[j], articles[k].title)

\* The elements of S in order: the i-th is the one with i elements up to it.
InOrder(S) == [i \in 1..Cardinality(S) |-> CHOOSE s \in S : Cardinality({t \in S : t <= s}) = i]

\* The articles by position alone: what lies below h2 a, or below h3 b, and
\* above the next one.
Below(kind, h, other) == {i \in At(other) : i > h /\ Nearest(kind, i) = h}
ArticleAt(a) ==
  LET subs == InOrder(Below("h2", a, "h3")) IN
  [title |-> page[a].text,
   subs |-> [j \in DOMAIN subs |->
     [title |-> page[subs[j]].text,
      contents |-> InOrder(Below("h3", subs[j], "doc") \cap Below("h2", a, "doc"))]]]
ByPosition ==
  LET heads == InOrder({a \in At("h2") : loop = "choose" => page[a].text \in Topics}) IN
  [k \in DOMAIN heads |-> ArticleAt(heads[k])]

Done == pos > Len(page)

DistinctTitles ==
  /\ \A a, b \in At("h2") : page[a].text = page[b].text => a = b
  /\ \A a, b \in At("h3") :
       page[a].text = page[b].text /\ Nearest("h2", a) = Nearest("h2", b) => a = b

(* A page that begins with an h2 and repeats no title is read completely:  *)
(* looking up by text then agrees with the position on the page.           *)
ReadsWellFormed ==
  Done /\ Len(page) > 0 /\ page[1].kind = "h2" /\ DistinctTitles => articles = ByPosition

=============================================================================
