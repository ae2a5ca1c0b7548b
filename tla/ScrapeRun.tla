----------------------------- MODULE ScrapeRun -----------------------------
(***************************************************************************)
(* The run of a scraper: fetch the index pages, one per month, fetch the   *)
(* page of every item they list, and write one CSV file at the very end.   *)
(* The four scrapers share this skeleton and differ in details:            *)
(*  - the fruit scraper merges the entries of one page and takes the       *)
(*    seasons from the index; the others read a calendar on the page;      *)
(*  - the vegetable scraper goes on with the next item after a failure, in *)
(*    a recursive call, and then once more in the loop that failed; the    *)
(*    others retry the item once;                                          *)
(*  - two of them read START_INDEX and do not use it.                      *)
(***************************************************************************)
EXTENDS Integers, SequencesExt

CONSTANTS
  Scrapers,       \* the scrapers to consider, of AllScrapers
  Listings,       \* what the site may list: per index page its entries
  Missing,        \* an attribute that an entry lacks
  MaxStart,       \* bound: values of START_INDEX
  NoFile          \* no CSV file yet

AllScrapers == {"fruit", "vegetable", "seafood", "mushroom"}
MergesPages == {"fruit"}
HonoursStart == {"fruit", "vegetable"}
Recurses == {"vegetable"}
ReadsCalendar == AllScrapers \ {"fruit"}
SingleIndex == {"mushroom"}

ASSUME RunOK ==
  /\ Scrapers \subseteq AllScrapers
  /\ MaxStart \in Nat
  /\ \A l \in Listings : l \in Seq(ToSet(l)) /\ \A m \in DOMAIN l : l[m] \in Seq(ToSet(l[m]))

VARIABLES
  scraper,    \* the scraper this behaviour is about
  listing,    \* the index pages of the site, fixed for the behaviour
  start,      \* the value of START_INDEX, or 0
  phase,      \* "listing", "detail", "done" or "aborted"
  refetched,  \* the first fetch of the index pages failed
  month,      \* index pages fetched so far
  entry,      \* entries handled of the last one
  items,      \* the ingredients in memory
  frames,     \* the loops under way, innermost last: the next index of each
  again,      \* the failed item is being tried a second time
  csv         \* the CSV file: [rows, start, refetched], or NoFile

settings == <<scraper, listing, start>>
vars == <<settings, phase, refetched, month, entry, items, frames, again, csv>>

-----------------------------------------------------------------------------
(* copies counts how often the articles of an item's page were appended to *)
(* it, and fails is a history of its failures in the recursive scraper.    *)
Item(e, months) ==
  [name |-> e.name, page |-> e.page, image |-> e.image, months |-> months,
   calendar |-> FALSE, copies |-> 0, fails |-> 0]

Key(x) == IF scraper = "mushroom" THEN x.image ELSE x.name

(* Slip: an entry whose page is listed already is skipped.                 *)
AddEntry_Skips(m, list, e) ==
  IF Missing \in {e.page, e.image} \/ \E k \in DOMAIN list : list[k].page = e.page
  THEN list ELSE Append(list, Item(e, {m}))

(* One entry of index page m.  An attribute that is missing raises, and    *)
(* the rescue of the entry goes on with the next.                          *)
AddEntry(m, list, e) ==
  LET same == {k \in DOMAIN list : scraper \in MergesPages /\ list[k].page = e.page}
      months == IF scraper \in MergesPages THEN {m} ELSE {}
  IN  CASE e.page = Missing -> list
        [] e.page # Missing /\ same # {} ->
             [k \in DOMAIN list |->
                IF k = Min(same) THEN [list[k] EXCEPT !.months = @ \cup {m}] ELSE list[k]]
        [] e.page # Missing /\ same = {} ->
             IF e.image = Missing THEN list ELSE Append(list, Item(e, months))

(* The elements of a set of numbers in their order.                        *)
Ascending(S) ==
  CHOOSE o \in [1..Cardinality(S) -> S] : \A i, j \in DOMAIN o : i < j => o[i] < o[j]

(* uniq!: of the items with one key the first stays.                       *)
Firsts(list) == {k \in DOMAIN list : \A j \in 1..(k - 1) : Key(list[j]) # Key(list[k])}
Uniq(list) ==
  LET kept == Ascending(Firsts(list)) IN [i \in DOMAIN kept |-> list[kept[i]]]

(* Slip: the list is never reduced.                                        *)
Reduced_Never(list) == list

(* Only the first fetch is followed by uniq!.                              *)
Reduced(list) == IF refetched THEN list ELSE Uniq(list)

StartIndex(s) == IF scraper \in HonoursStart THEN s ELSE 0

-----------------------------------------------------------------------------
Init ==
  /\ scraper \in Scrapers
  /\ listing \in Listings
  /\ scraper \in SingleIndex => Len(listing) = 1
  /\ start \in 0..MaxStart
  /\ phase = "listing"
  /\ refetched = FALSE
  /\ month = 0
  /\ entry = 0
  /\ items = <<>>
  /\ frames = <<>>
  /\ again = FALSE
  /\ csv = NoFile

Entries == IF month = 0 THEN <<>> ELSE listing[month]
PageDone == entry = Len(Entries)

FetchIndex ==
  /\ phase = "listing"
  /\ PageDone
  /\ month < Len(listing)
  /\ month' = month + 1
  /\ entry' = 0
  /\ UNCHANGED <<settings, phase, refetched, items, frames, again, csv>>

ReadEntry ==
  /\ phase = "listing"
  /\ ~PageDone
  /\ entry' = entry + 1
  /\ items' = AddEntry(month, items, Entries[entry + 1])
  /\ UNCHANGED <<settings, phase, refetched, month, frames, again, csv>>

(* The list starts over; a second failure leaves run.                      *)
FetchIndexFails ==
  /\ phase = "listing"
  /\ PageDone
  /\ month < Len(listing)
  /\ IF refetched
     THEN phase' = "aborted" /\ UNCHANGED <<month, entry, items, refetched>>
     ELSE refetched' = TRUE /\ month' = 0 /\ entry' = 0 /\ items' = <<>> /\ UNCHANGED phase
  /\ UNCHANGED <<settings, frames, again, csv>>

(* Slicing past the end gives nil, on which each raises.                   *)
BeginDetails ==
  /\ phase = "listing"
  /\ PageDone
  /\ month = Len(listing)
  /\ items' = Reduced(items)
  /\ IF StartIndex(start) > Len(items')
     THEN phase' = "aborted" /\ UNCHANGED frames
     ELSE phase' = "detail" /\ frames' = <<StartIndex(start) + 1>>
  /\ UNCHANGED <<settings, refetched, month, entry, again, csv>>

Current == Last(frames)
Working == phase = "detail" /\ frames # <<>> /\ Current <= Len(items)

NextItem == [frames EXCEPT ![Len(frames)] = @ + 1]

Scraped(x) ==
  [x EXCEPT !.copies = @ + 1, !.calendar = @ \/ scraper \in ReadsCalendar]

FetchDetail ==
  /\ Working
  /\ items' = [items EXCEPT ![Current] = Scraped(@)]
  /\ frames' = NextItem
  /\ again' = FALSE
  /\ UNCHANGED <<settings, phase, refetched, month, entry, csv>>

(* A failure comes before the calendar is read (no answer from the site)   *)
(* or after it (a page without an article), never with articles appended;  *)
(* the fruit scraper takes a page without an article for an empty one.     *)
Damaged(x) ==
  {x} \cup IF scraper \in ReadsCalendar THEN {[x EXCEPT !.calendar = TRUE]} ELSE {}

FailFirst ==
  /\ Working
  /\ scraper \notin Recurses
  /\ ~again
  /\ again' = TRUE
  /\ \E x \in Damaged(items[Current]) : items' = [items EXCEPT ![Current] = x]
  /\ UNCHANGED <<settings, phase, refetched, month, entry, frames, csv>>

(* Slip: the rescue tries for as long as it takes.                         *)
FailAgain_Retries ==
  /\ Working
  /\ again
  /\ again' = FALSE
  /\ UNCHANGED <<settings, phase, refetched, month, entry, items, frames, csv>>

(* Slip: what there is gets written.                                       *)
FailAgain_Writes ==
  /\ Working
  /\ again
  /\ phase' = "done"
  /\ csv' = [rows |-> items, start |-> StartIndex(start), refetched |-> refetched]
  /\ UNCHANGED <<settings, refetched, month, entry, items, frames, again>>

(* The second failure leaves run before anything is written.               *)
FailAgain ==
  /\ Working
  /\ again
  /\ phase' = "aborted"
  /\ \E x \in Damaged(items[Current]) : items' = [items EXCEPT ![Current] = x]
  /\ UNCHANGED <<settings, refetched, month, entry, frames, again, csv>>

(* Slip: the recursive call is the last one.                               *)
FailAndRecurse_Replaces ==
  /\ Working
  /\ scraper \in Recurses
  /\ \E x \in Damaged(items[Current]) :
       items' = [items EXCEPT ![Current] = [x EXCEPT !.fails = @ + 1]]
  /\ frames' = NextItem
  /\ UNCHANGED <<settings, phase, refetched, month, entry, again, csv>>

(* The vegetable scraper calls itself on the items after this one; when    *)
(* the call returns, the loop goes on with the same items.                 *)
FailAndRecurse ==
  /\ Working
  /\ scraper \in Recurses
  /\ \E x \in Damaged(items[Current]) :
       items' = [items EXCEPT ![Current] = [x EXCEPT !.fails = @ + 1]]
  /\ frames' = Append(NextItem, Current + 1)
  /\ UNCHANGED <<settings, phase, refetched, month, entry, again, csv>>

EndLoop ==
  /\ phase = "detail"
  /\ frames # <<>>
  /\ Current > Len(items)
  /\ frames' = Front(frames)
  /\ UNCHANGED <<settings, phase, refetched, month, entry, items, again, csv>>

WriteCsv ==
  /\ phase = "detail"
  /\ frames = <<>>
  /\ phase' = "done"
  /\ csv' = [rows |-> items, start |-> StartIndex(start), refetched |-> refetched]
  /\ UNCHANGED <<settings, refetched, month, entry, items, frames, again>>

Next ==
  \/ FetchIndex \/ ReadEntry \/ FetchIndexFails \/ BeginDetails
  \/ FetchDetail \/ FailFirst \/ FailAgain \/ FailAndRecurse
  \/ EndLoop \/ WriteCsv

Spec == Init /\ [][Next]_vars

(* The process runs until it ends; nothing is assumed of the site.         *)
FairSpec == Spec /\ WF_vars(Next)

-----------------------------------------------------------------------------
(* Visits owed to item k of list by loops that began after index s: one,   *)
(* and one more for every failure before it.                               *)
Failures(list, s, k) == UNION {{j} \X (1..list[j].fails) : j \in (s + 1)..(k - 1)}
Owed(list, s, k) == IF k <= s THEN 0 ELSE 1 + Cardinality(Failures(list, s, k))

(* Every item is visited as often as the failures before it call for, and  *)
(* no visit is lost or repeated by the loops that are still under way.     *)
VisitLedger ==
  phase = "detail" =>
    \A k \in DOMAIN items :
      items[k].copies + items[k].fails
        + Cardinality({f \in DOMAIN frames : frames[f] <= k})
      = Owed(items, StartIndex(start), k)

(* A CSV file is that of a run that came to its end: an item before        *)
(* START_INDEX is blank in it, and every other one has been scraped, once  *)
(* unless the recursive scraper failed.                                    *)
CsvIsComplete ==
  csv # NoFile =>
    \A k \in DOMAIN csv.rows :
      csv.rows[k].copies + csv.rows[k].fails = Owed(csv.rows, csv.start, k)

(* A name (an image, for mushrooms) occurs twice in a CSV file only when   *)
(* the index pages had to be fetched again, and a fruit's page never.      *)
ListedOnce ==
  csv # NoFile =>
    \A j, k \in DOMAIN csv.rows : j # k =>
      /\ Key(csv.rows[j]) = Key(csv.rows[k]) => csv.refetched
      /\ scraper \in MergesPages => csv.rows[j].page # csv.rows[k].page

EntriesAt == UNION {{m} \X DOMAIN listing[m] : m \in DOMAIN listing}
Before(p, q) == p[1] < q[1] \/ (p[1] = q[1] /\ p[2] <= q[2])
At(p) == listing[p[1]][p[2]]

(* A fruit is in season in the months whose index page lists its page,     *)
(* from the first entry on that is complete: what the merging of the       *)
(* entries computes is what this definition says.                          *)
SeasonsFromListing ==
  (scraper \in MergesPages /\ csv # NoFile) =>
    \A x \in ToSet(csv.rows) :
      \E first \in EntriesAt :
        /\ At(first).page = x.page /\ At(first).image # Missing
        /\ \A p \in EntriesAt : At(p).page = x.page /\ At(p).image # Missing
                                  => Before(first, p)
        /\ x.months = {m \in DOMAIN listing :
                         \E p \in EntriesAt : p[1] = m /\ At(p).page = x.page
                                                 /\ Before(first, p)}

(* "fetch detail try agrain" (vegitable_scraper.rb, line 46): an item that *)
(* failed has been tried again by the time the CSV file is written.        *)
FailedIsTriedAgain ==
  csv # NoFile =>
    \A x \in ToSet(csv.rows) : x.fails > 0 => x.copies + x.fails > 1

(* A run ends, however often the site fails.                               *)
Terminates == <>(phase \in {"done", "aborted"})
=============================================================================
