----------------------------- MODULE HomeScreen -----------------------------
(***************************************************************************)
(* HomeViewController as the user meets it: the data source of HomeFeed,   *)
(* the month and prefecture pickers that filter it, the layout of the      *)
(* collection view, and the pages pushed from it.                          *)
(*                                                                         *)
(* UIKit, as the code uses it: reloadData asks for a layout, which runs    *)
(* when the main queue gets to it and before the next tap is delivered; a  *)
(* tap names an index path of the layout, never an ingredient.             *)
(***************************************************************************)
EXTENDS HomeFeed

CONSTANTS
  MonthRows,          \* rows of the month picker: a subset of 0..11
  Prefectures,        \* rows of the prefecture picker, cases of Prefecture
  maxInSectionCount,  \* cells per section on the home screen; 6 in the code
  MaxPages            \* bound: pages on the navigation stack above home

ASSUME FilterOK ==
  /\ MonthRows \subseteq 0..11
  /\ MonthRows # {}
  /\ "tokyo" \in Prefectures
  /\ maxInSectionCount \in Nat
  /\ MaxPages \in Nat
  /\ \A s \in Contents : s.seasons \subseteq 1..12

VARIABLES
  selectedMonthNumber,  \* the month of the filter, 1..12
  selectedPrefecture,   \* the prefecture of the filter
  laidOut,              \* what the collection view shows, section by section
  pages                 \* the pages above home, the top one last

filterVars == <<selectedMonthNumber, selectedPrefecture>>
screenVars == <<filterVars, laidOut, pages>>
allVars == <<vars, screenVars>>

-----------------------------------------------------------------------------
(* The key of a prefecture in a document's locations is its name, except   *)
(* that aichi has that of shizuoka.                                        *)
engName(p) == IF p = "aichi" THEN "shizuoka" ELSE p

(* The entries of a section that pass the filter, in order of arrival.     *)
Filtered(list, c, m, p) ==
  SelectSeq(list, LAMBDA e : /\ e.content.cat = c
                             /\ m \in e.content.seasons
                             /\ engName(p) \in e.content.locations)

arrangeInSectionCount(count) ==
  IF count > maxInSectionCount THEN maxInSectionCount ELSE count

FirstCells(items) == [k \in 1..arrangeInSectionCount(Len(items)) |-> items[k]]

Layout(list, sections, m, p) ==
  [i \in DOMAIN sections |->
     [cat |-> sections[i], items |-> FirstCells(Filtered(list, sections[i], m, p))]]

(* The answers of the data source, were it asked now.                      *)
FreshLayout == Layout(ingredients, ingredientSections,
                      selectedMonthNumber, selectedPrefecture)

ItemsOf(i) == Filtered(ingredients, ingredientSections[i],
                       selectedMonthNumber, selectedPrefecture)

ListPage(c, items) ==
  [kind |-> "list", cat |-> c, month |-> selectedMonthNumber,
   prefecture |-> selectedPrefecture, items |-> items]
DetailPage(e) == [kind |-> "detail", entry |-> e]

AtHome == pages = <<>>
Top == Last(pages)

(* Taps reach a page that is laid out, between two callbacks.              *)
Tappable == Idle /\ ~needsReload /\ Len(pages) < MaxPages

-----------------------------------------------------------------------------
ScreenInit ==
  /\ Init
  /\ selectedMonthNumber \in {r + 1 : r \in MonthRows}
  /\ selectedPrefecture = "tokyo"
  /\ laidOut = <<>>
  /\ pages = <<>>

(* The feed goes on behind whatever page is on top.                        *)
FeedStep ==
  /\ \/ \E d \in Docs, s \in DocStates : Write(d, s)
     \/ CachedSnapshot
     \/ ServerSnapshot
     \/ ListenError
     \/ \E d \in Docs : handleDocumentChange(d)
     \/ \E c \in Cats : AnswerRead(c)
  /\ UNCHANGED screenVars

(* A view that a page covers is laid out when it is back in its window.    *)
LayOutScreen ==
  /\ AtHome
  /\ LayOut
  /\ laidOut' = FreshLayout
  /\ UNCHANGED <<filterVars, pages>>

(* viewDidLoad: the filter starts at the calendar's month and at Tokyo.    *)
RelaunchScreen ==
  /\ Relaunch
  /\ selectedMonthNumber' \in {r + 1 : r \in MonthRows}
  /\ selectedPrefecture' = "tokyo"
  /\ laidOut' = <<>>
  /\ pages' = <<>>

(* Slip: the picker does not reload the collection view.                   *)
didSelectMonth_NoReload(row) ==
  /\ Idle
  /\ selectedMonthNumber' = row + 1
  /\ UNCHANGED <<vars, selectedPrefecture, laidOut, pages>>

(* Slip: the list is emptied as if the month were part of the query.       *)
didSelectMonth_Cleared(row) ==
  /\ Idle
  /\ selectedMonthNumber' = row + 1
  /\ ingredients' = <<>>
  /\ needsReload' = TRUE
  /\ UNCHANGED <<backendVars, listenerVars, categoryVars, launches,
                 historyVars, selectedPrefecture, laidOut, pages>>

(* A wheel settles on a row; it may still turn when a page is pushed.      *)
didSelectMonth(row) ==
  /\ reloadData
  /\ selectedMonthNumber' = row + 1
  /\ UNCHANGED <<selectedPrefecture, laidOut, pages>>

didSelectPrefecture(p) ==
  /\ reloadData
  /\ selectedPrefecture' = p
  /\ UNCHANGED <<selectedMonthNumber, laidOut, pages>>

Push(page) ==
  /\ pages' = Append(pages, page)
  /\ UNCHANGED <<vars, filterVars, laidOut>>

seeAllButtonTapped(i) ==
  /\ AtHome
  /\ Tappable
  /\ i \in DOMAIN laidOut
  /\ Push(ListPage(ingredientSections[i], ItemsOf(i)))

(* Slip: the row is looked up in the whole list of ingredients.            *)
didSelectItem_Unfiltered(i, row) ==
  /\ AtHome
  /\ Tappable
  /\ i \in DOMAIN laidOut
  /\ row \in DOMAIN laidOut[i].items
  /\ Push(DetailPage(ingredients[row]))

didSelectItem(i, row) ==
  /\ AtHome
  /\ Tappable
  /\ i \in DOMAIN laidOut
  /\ row \in DOMAIN laidOut[i].items
  /\ Push(DetailPage(ItemsOf(i)[row]))

didSelectListItem(row) ==
  /\ ~AtHome
  /\ Top.kind = "list"
  /\ Idle
  /\ Len(pages) < MaxPages
  /\ row \in DOMAIN Top.items
  /\ Push(DetailPage(Top.items[row]))

Back ==
  /\ ~AtHome
  /\ Idle
  /\ pages' = Front(pages)
  /\ UNCHANGED <<vars, filterVars, laidOut>>

ScreenNext ==
  \/ FeedStep
  \/ LayOutScreen
  \/ RelaunchScreen
  \/ \E row \in MonthRows : didSelectMonth(row)
  \/ \E p \in Prefectures : didSelectPrefecture(p)
  \/ \E i \in DOMAIN laidOut : seeAllButtonTapped(i)
  \/ \E i \in DOMAIN laidOut : \E row \in DOMAIN laidOut[i].items :
       didSelectItem(i, row)
  \/ ~AtHome /\ Top.kind = "list" /\ \E row \in DOMAIN Top.items :
       didSelectListItem(row)
  \/ Back

ScreenSpec == ScreenInit /\ [][ScreenNext]_allVars

(* The fairness of the data source, and the main queue also runs the       *)
(* layout; the user owes nothing.                                          *)
ScreenFairness ==
  /\ WF_allVars(\E d \in Docs : handleDocumentChange(d) /\ UNCHANGED screenVars)
  /\ WF_allVars(ServerSnapshot /\ UNCHANGED screenVars)
  /\ WF_allVars(LayOutScreen)
  /\ \A c \in Cats : WF_allVars(AnswerRead(c) /\ UNCHANGED screenVars)

FairScreenSpec == ScreenSpec /\ ScreenFairness

-----------------------------------------------------------------------------
(* Between a layout and the next reload the collection view shows what its *)
(* data source would answer: index paths never run past the data, whatever *)
(* callback or picker came in between.                                     *)
LayoutFresh == ~needsReload => laidOut = FreshLayout

(* A cell opens the ingredient it shows, though the tap carries only an    *)
(* index path and the feed moves on between the layout and the tap.        *)
TapOpensWhatIsShown ==
  [][(AtHome /\ pages' # <<>> /\ pages'[1].kind = "detail") =>
       \E i \in DOMAIN laidOut : \E row \in DOMAIN laidOut[i].items :
         /\ didSelectItem(i, row)
         /\ pages'[1].entry = laidOut[i].items[row]]_allVars

(* The section of an ingredient that arrived is laid out in the end, unless *)
(* its read failed, the app was relaunched or the user is on another page: *)
(* the answer that opens it comes when no other reload may be under way.   *)
SectionsAppear ==
  \A c \in Cats :
    (\E e \in ToSet(ingredients) : e.content.cat = c)
      ~> \/ \E shown \in ToSet(laidOut) : shown.cat = c
         \/ Lost(c) \/ ~AtHome \/ ingredients = <<>>

(* The screen leaves the data source to HomeFeed.                          *)
ImplementsFeed == Spec
=============================================================================
