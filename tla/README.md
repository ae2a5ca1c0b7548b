# Seasonal Food: a TLA+ model of the app and of its collector

Seasonal Food is an iOS app (`src/ios/Shun/Shun`) that shows which foods are in
season, month by month and prefecture by prefecture, and a Rails project
(`src/collector`) whose scrapers and jobs fill the Firestore database the app
reads. This directory holds TLA+ modules that follow both programs, the TLC
configurations that check them on small instances, and proofs for TLAPS.

## The system

| part | code | state | operations |
|---|---|---|---|
| data source of the home screen | `View/Home/HomeViewController.swift`, `Model/Ingredient.swift`, `Model/SubCategory.swift` | list of ingredients, IDs of the sub-categories asked for, open sections, the listener | snapshot callback, one `getDocument` per new sub-category and its callback |
| home screen | `HomeViewController.swift`, `View/Ingredients/IngredientsViewController.swift` | month and prefecture of the filter, the layout, the navigation stack | pickers, layout, "see all", tap on a cell, back |
| ingredient and article pages | `View/Ingredient/IngredientViewController.swift`, `View/Article/ArticleViewController.swift`, `Model/Article.swift`, `Model/SubArticle.swift` | per page: a listener, the list of articles, their sub-articles | snapshot callback, `getDocuments` per article and its callback, "read more" |
| Firestore SDK: views and reads | `Pods/FirebaseFirestore/Firestore/Source/Core`, `.../API` (vendored) | the device's copy of the collection, the last snapshot given to each listener | hands over changes, answers reads, drops a listener after an error |
| Firestore SDK: gRPC stream | `core/src/firebase/firestore/remote/grpc_stream.cc`, `grpc_completion.cc` | the call, completions in gRPC's hands, the buffered writes, the observer | start, write, finish in three forms, completions, connectivity changes |
| Firestore SDK: watch stream and online state | `remote/stream.mm`, `watch_stream.mm`, `exponential_backoff.cc`, `FSTRemoteStore.mm`, `FSTOnlineStateTracker.mm` | state of the stream, its timers and backoff, the targets listened to, Unknown/Online/Offline | listen and unlisten, network on and off, change of user, tokens, timers, messages, failures |
| Firestore SDK: a watched query | `FSTRemoteEvent.mm`, `FSTLocalStore.mm`, `FSTSyncEngine.mm`, `FSTView.mm` | per target: answers outstanding, changes since the last snapshot, resume token; on the device: documents, keys, token | target and document changes, existence filters, snapshots, listens, crashes |
| scrapers | `collector/app/models/*_scraper.rb` | list of ingredients in memory, one CSV file | fetch the index pages, fetch every detail page, write the CSV |
| import | `collector/app/models/ingredients_inserter.rb` | the "Ingredients" and "Articles" collections and the sub-collections of articles | one document after the other, from the CSV |
| migration jobs | `*_inserter.rb`, `*_job.rb` in `collector/app/models` | fields of the documents | one pass over a collection each |

The parts meet in the database: the scrapers' CSV feeds the import, the jobs
rewrite what the import stored, the app's listeners see every write while it is
open. Inside the app everything runs on the main queue: the SDK's callbacks,
UIKit's layout, taps and pickers.

What is hard here is order. Between the check that a sub-category is new and the
answer that opens its section, any number of other callbacks run; a snapshot may
come from the device's copy first and from the server later; a read may fail; a
tap carries an index path into a list that has grown since; pages that the user
has left still receive articles. Below, in the SDK, completions that gRPC has
already returned wait behind the operation that cancels them, a blocking call on
the worker queue waits for them, tokens and timers outlive the attempt they were
meant for, and messages of an earlier listen arrive during a later one.
`PROJECT.json` lists each such point under
"hazards", at its line, with the properties that cover it.

### What makes each part correct

- *Data source.* A sub-category is read at most once in a launch and never has
  two sections; the list only grows at its end; what it lists is what the store
  delivered, except for documents whose later changes the handler ignores; a
  live listener catches up.
- *Home screen.* An index path of the last layout still means the cell the user
  sees when the tap is handled; a section opened by a late answer is laid out.
- *Pages.* A sub-article lands in its own article whatever the order of the
  answers and however many pages of the ingredient are alive; the table never
  shows an older text than its articles have.
- *Scrapers.* Every item is visited once (more often only as the recursion of
  the vegetable scraper says), a CSV file is that of a run that came to its end,
  a run ends however often the site fails; a text is filed under the headings it
  stands below.
- *Import.* A document that names its articles names all of them.
- *Jobs.* What the app needs of a document is not destroyed by stopping or
  overlapping jobs, except in the named cases.
- *gRPC stream.* gRPC's rules hold (one read, one write, one Finish at a time);
  the observer is told a start, the messages in order and one end, and nothing
  after the client has finished; the worker queue is never blocked for good; a
  destroyed stream has left nothing behind in gRPC.
- *Watch stream.* No assertion fails but when the server ends a needed stream
  with the status OK; what is needed is started and an open stream carries the
  listens, and nothing else but what a late rejection left at the server; Online
  has a message behind it; failures back off; a listen reaches the server.
- *Watched query.* A query marked current is the collection at the version of
  its snapshot; what the device keeps fits the resume token it keeps; a listen
  that stays catches up.

## The modules

| module | models | composed of |
|---|---|---|
| `SectionDirectory` | the promise about sections: asked once, then open or lost | |
| `HomeFeed` | the data source of the home screen and the SDK below it | implements `SectionDirectory` |
| `HomeScreen` | filter, layout, taps and pages | extends `HomeFeed`, implements it |
| `ArticlePages` | the pages of one ingredient | |
| `ScrapeRun` | a run of any of the four scrapers | |
| `Headings` | the loop over the headings of one page, in its three forms | |
| `Catalog` | import and migration jobs on the database | |
| `StreamContract` | what the observer of a stream may rely on | |
| `GrpcStream` | one gRPC stream with gRPC and the network around it | implements `StreamContract` |
| `RemoteStore` | listens, the watch stream with its timers, the online state | uses the stream as `StreamContract` states it |
| `WatchTarget` | one query between server and device | |
| `HomeScreenProofs`, `ArticlePagesProofs`, `CatalogProofs`, `HeadingsProofs`, `GrpcStreamProofs`, `RemoteStoreProofs`, `ScrapeRunProofs`, `WatchTargetProofs` | theorems | extend the module they are named after; `HomeScreenProofs` holds those of `HomeFeed` too |
| `MC...` | instances for TLC | extend the module they are named after |

`PROJECT.json` maps each definition to the lines it stands for. Definitions
named `X_...` below the comment "Slip:" are mutated forms of `X`, each a mistake
one could make in that code; they are used to see that a property notices.

**HomeFeed.** `store` is the collection in the backend, `cache` the device's
copy, `snap` the snapshot last handed to the listener and `view` the part of it
whose changes have been handled. A snapshot callback handles its changes in one
loop; in the model every change is a step (`handleDocumentChange`), in the order
in which the SDK sorts them (removed, added, modified, then document key), and no
other step of the main queue is enabled in between (`Idle`), so that the callback
stays atomic for the rest of the program. `insertNewIngredient` is the `.added`
case with its nested `insertNewCategoryIfNeeded` and `reloadData`,
`RejectIngredient` its early return, `IgnoreChange` the default case. An answer
of `getDocument` is a later step: `OpenSection`, `UnnamedSection` (the document
has no name in the app's language) or `SectionNotFound` (missing, or the read
failed: the closure does not tell these apart). `ListenError` drops the listener,
`Relaunch` forgets all but the store and the device's copy.

**HomeScreen.** `FeedStep` takes the data source's own steps behind whatever page
is on top. `didSelectMonth` and `didSelectPrefecture` change the filter and call
`reloadData`; `LayOutScreen` is the collection view asking its data source;
`didSelectItem` and `seeAllButtonTapped` are given indices of `laidOut` and look
them up in the data as it is then. `engName` is the table of `Prefecture.swift`,
in which `aichi` has the key of `shizuoka`.

**ArticlePages.** Each pushed page has a listener of its own that nothing
removes; `page[v] = "popped"` goes on receiving. `insertNewArticle` appends the
article and starts its read; `SubsAnswer` is the closure of that read, which
appends to the article it captured. `readMoreButtonDidTapped` opens the article
page with the text of that moment.

**ScrapeRun.** `FetchIndex` fetches an index page and `ReadEntry` reads its entries
one by one; an entry that lacks an attribute is passed over. `frames` is the stack of loops: one for three of the scrapers, one
per failure in the vegetable scraper, whose rescue calls the method recursively.
`FailFirst` and `FailAgain` are the first failure and the one inside the rescue;
`FetchIndexFails` is the same for the index pages, where the second fetch is not
followed by `uniq!`. What differs between the scrapers is in the sets
`MergesPages`, `HonoursStart`, `Recurses`, `ReadsCalendar` and `SingleIndex`. A
page's articles count as one unit (`copies`); a failure may come before or after
the calendar is read (`Damaged`).

**Headings.** One step per element; `current_h2` and `current_h3` are the texts
the code keeps, `Target` is the `find` by title. A paragraph is represented by
its position. The classification by class and tag is taken as the element's
`kind`.

**Catalog.** A step is one call to the database. The importer adds the
ingredient, then each article, then its sub-categories, then the list of article
IDs; `CallFails` is the rescue with its debugger, after which the loop goes on
with the next row; `EndImport` is the end of the file or a kill. A job copies the
collection (`StartJob`) and updates documents from its copy, in any order, until
`EndJob`, which may come at any time.

**GrpcStream.** `completions` holds the operations issued on the call, each with
where it is: in gRPC, or returned and waiting for the worker queue. `control` is
what the worker does with this stream: nothing, a call to the observer (in which
the owner may finish the stream), or one of the places where the code blocks
until gRPC has returned something (`Blocked`). `Write` goes through the buffered
writer (`TryStartWrite`); `FinishImmediately`, `WriteAndFinish` and the failure
path `OnOperationFailed`, `OnFinish` all end in `Shutdown`, which cancels the call
and drains it (`FinishGrpcCall`, `Closed`). `Return` is gRPC's thread handing an
operation back, `CallBreaks` the network, `ConnectivityChanged` the monitor that
finishes every live call.

**RemoteStore.** The calls between remote store, stream and tracker are
synchronous, so an action is a whole operation of the worker queue, composed of
operators named after the methods that take an object's record and return it
changed (`Start`, `Closed`, `WatchStreamWasInterrupted`, `UpdateState`, ...). A
HARD_ASSERT is the field `ok` of the object; one that fails aborts the app, after
which nothing happens (`Running`). The server may end the stream with any status,
OK included, which the stream takes for a graceful stop (`OnStreamFinish`,
`CleanEnd`). It takes requests in order, so it may reject a target by its last
watch on the connection (`requested`) or by an earlier one (`former`); a listen that
ends for an earlier one leaves its own watch at the server (`crossed`). How many
earlier watches there were is not counted, nor which the server has come past: it
may reject a `former` target until the connection closes or the last watch is
rejected. `token` is the token asked for under
the present close count, `stale` those of attempts that were closed. The messages
are abstracted to what they do to the stream; `WatchTarget` has their contents.

**WatchTarget.** The server is its history of writes (`log`); a document's contents
are the version of its last write, a resume token is a version. `AnswerWatch`
sends what changed since the token of the request. Of documents that went away
since, the server may know only that there are some: it then sends an existence
filter and does not name them (`Exactness`), as the protocol allows. `target` is
the aggregator's `FSTTargetState`; a message counts only while no answer is
outstanding (`Active`). `RaiseSnapshot` is raiseWatchSnapshot with the sync engine
and local store behind it: keys and documents are written, the token is written
only sometimes (`SavedTokens`), a mismatched target is unwatched and watched again.
`Listen` resumes from the saved token, `ReleaseQuery` writes down a newer one,
`Crash` forgets what is in memory. `keys` stands for the local store's keys and the
view's, which change together.

## The runs

Runs that pass end without an error, over all reachable states.

| run | shows | instance |
|---|---|---|
| `home_feed` | the reads keep their ledger, staleness is confined to documents with ignored changes, only a document that was deleted is listed twice, and all of it implements `SectionDirectory` | 2 documents (one deletable), a named and an unnamed sub-category, 3 writes, 2 launches; 545,000 states |
| `home_screen` | layout and taps agree, the screen is a `HomeFeed`, sections appear, a live listener catches up | 2 documents, a named and a missing sub-category, 2 months, 2 prefectures, 1 cell per section, 2 pages, 2 launches, 1 write; 116,000 states |
| `article_pages` | two overlapping pages of one ingredient keep their articles, texts and reads apart; every answer is shown on a page that stays up | 3 articles (one without a title, one retractable), a sub-article, 3 writes; 692,000 states |
| `scrape_run` | visits and recursion, completeness of the CSV, seasons of fruit, termination | 1 or 2 index pages out of 4, START_INDEX 0 to 2; 57,000 states |
| `headings` | a text stands under the titles above it, and exactly there when titles are distinct | every page of at most 5 elements over 2 texts; 99,000 states |
| `catalog` | a linked document is whole; how places and IDs can be lost, and that nothing else loses them | 3 rows (broken, null in an unlisted category, two articles), 1 import, 2 processes, 3 jobs of 5 kinds; 2.3 million states up to symmetry |
| `grpc_stream` | gRPC's rules, order of writes, a drained release, `StreamContract`; no blocking call blocks for good, a broken call is reported | 4 writes, 2 messages; 4,100 states |
| `remote_store` | an assertion fails only by a clean end, needed streams are started, open streams carry the listens, Online is proven, timers and backoff fit, listens reach the server | 2 targets, delays 2 to 4, 2 late tokens; 3,500 states |
| `watch_target` | a current query is complete, the token fits the keys, a listen that stays catches up | 2 documents, 2 writes, 2 listens, 1 fault (break, crash, reset or rejection); 299,000 states |
| `tried_again`, `online_unknown`, `stale_token` | violations, see below | |

**Why the bounds are enough.** In the data source a hazard needs two documents of
one sub-category (the second arrives between request and answer) and one
document whose content changes or that goes and comes back, which is three
writes; two launches bring the device's copy into play. On the screen one cell
per section makes the second document overflow it. Two pages are what can
overlap pairwise: pages share nothing but the backend. The jobs touch one
document at a time and never compare two, so one document with two processes has
all their conflicts; losing an ID takes three jobs (replace, delete, replace) and
losing a place "place" and two of "names". A second import adds documents of its
own and meets the first in nothing. Three items with a failure at each are the
deepest recursion that two index pages can give. Five elements are a full
article, a repeated title and a paragraph below it. In a gRPC stream at most
three operations are pending; four writes fill the buffer while one is under
way and still leave a last one. In the remote store targets do not interact, so
two give one that goes while another stays; the backoff has a base of zero,
between and at its limit; one failure is the number the code gives
(`kMaxWatchStreamFailures`). For a query two documents are what makes a count
right while the documents are wrong (one came, one went), two listens are an
earlier and a later one. The invariants of `WatchTarget` were also checked
once with three writes and two faults (9.9 million states up to symmetry), which
takes too long to be kept as a run. The names `Max...` are the bounds of the
runs; the theorems hold for all their values, `MaxFailures` being a positive
parameter of the code there.

Runs set `CHECK_DEADLOCK FALSE` because these programs really may stop: the
writers stop, the user does nothing, a scraper ends.

**Fairness.** The main queue runs what is handed to it: weak fairness of
`handleDocumentChange`, `AnswerRead` and the layout. The SDK answers every read,
if only with an error, and keeps reconnecting a listener until a snapshot comes
(`ServerSnapshot`). The scraper process goes on until its end. In the gRPC stream
the worker runs callbacks, the observer returns, and gRPC returns the operations
of a call that is dead, which is what it documents of cancelled calls; of a live
call nothing is assumed, nor that it breaks. In the remote store timers elapse,
and the credentials provider does not refuse a token for ever (strong fairness of
`TokenArrives`, since failures in between close the attempt); the server may break the
stream or end it with OK at any time. In `WatchTarget` the
server answers and tells what changed, the queue takes in what arrived, and a
stream is opened again after a break, which is what `ListenReachesServer` of
`RemoteStore` shows of the code. Nothing is assumed of users, operators, writers,
errors, breaks, crashes or relaunches. `Converges` says nothing of a dropped
listener, `SectionsAppear` nothing of a screen that is covered.

**Disagreements the runs exhibit.**

- `tried_again`: the vegetable scraper prints "fetch detail try agrain"
  (`vegitable_scraper.rb:46`) and goes on with the next item; the failed one is
  never tried again, while the items behind it are visited twice and their
  articles are appended twice.
- `online_unknown`: "we transition to Offline rather than waiting indefinitely"
  (`FSTOnlineStateTracker.mm:44-46`); the timer is started only with a stream.
  Enabling the network again, or stopping the last listen and beginning another,
  while the stream is starting clears it, and a stream that then opens and gets no
  answer stays Unknown.
- `stale_token`: "Clear the resume token for the query, since we're in a known
  mismatch state" (`FSTRemoteStore.mm:395`). Only `listenTargets` forgets the token;
  the local store keeps it while the same snapshot empties the keys. If the listen
  ends before the full update has come, the next listen resumes from the old token
  and the query is marked current without documents that did not change since. The
  history variable `repair` marks such behaviours ("lost"), and the passing run
  `watch_target` shows that nothing else breaks completeness. The same variable
  covers a second way: a listen that ends and begins again between the filter and
  its snapshot is watched again without a token, on keys that were not emptied.

Noted on the way, without a run.

- App: the month field shows January after the start (`HomeViewController.swift:86`)
  while the filter is the current month (`:42`); "Document does not exist" (`:170`)
  is printed also for a read that failed; `Prefecture.aichi.engName` is "shizuoka"
  (`Prefecture.swift:126`).
- Collector: `vegitable_scraper.rb:82` assigns where it means to compare, so that
  every paragraph with a class counts as text; the comment at
  `fruit_scraper.rb:89-90` says that an h3 is tagged with the last h2, but the code
  finds the article by the text of that h2, so that with a repeated text the h3 go
  to the first; the seafood and mushroom scrapers read START_INDEX and do not use
  it (`:18`, `:29`); no job writes `english_name`, without which the app in English
  lists nothing; sub-articles are shown in the order of their document IDs, not of
  the `index` the import stores.
- SDK: the comment at `grpc_stream.cc:233` says the buffered writer is never used
  after Finish, but a write whose owner has not yet been told of a failure still is
  (harmless, the drained completions end it); a close without an error is a
  "Graceful stop (due to Stop() or idle timeout). Make sure that's desirable."
  (`FSTRemoteStore.mm:339`), but a server that ends the call with the status OK
  (`grpc_stream.cc:313-316`, `grpc_util.cc:28-30`, `stream.mm:293-298`) gets there too,
  and with a listen present the assertion at `:340` fails and aborts the app:
  `remote_store` allows this one abort (`CleanEnd`) and shows that there is no other,
  and TLC reaches it in four steps when `Running` is checked as an invariant;
  `Stop()` in the state Error returns
  early although `stream.h:82` promises Initial; a stream that opens with no targets
  left is not marked idle (`stream.h:48`); a rejection of an earlier listen that
  arrives while requests of a later one are under way removes the target with its
  count of outstanding answers (`FSTRemoteStore.mm:429`), after which answers are
  miscounted (`WatchTarget` marks it by its history variable `crossed`), and ends the later listen while
  its watch stays at the server (the field `crossed` of `RemoteStore`); "we need to reset any state
  that we had previously" (`FSTRemoteEvent.mm:355`) leaves `_current` as it was.

## The theorems

They are proved by TLAPS for every value of the constants that meets the named
assumptions, which the runs evaluate too: `RankOK`, `CatalogueOK`, `ContentsOK`,
`BoundsOK` of `HomeFeed` (document keys are ordered, contents that decode name a
sub-category and differ from the two special states), `FilterOK` of `HomeScreen`,
`PagesOK` of `ArticlePages` (different sub-documents have different keys), `RowsOK` of
`Catalog` (the table gives IDs or nil, which differ from each other and from an absent field),
`PagesOK` of `Headings` (a page is a finite sequence of the four kinds of element),
`RunOK` of `ScrapeRun` (the site is a finite sequence of finite sequences of entries),
`BoundsAssumption` of `GrpcStream`, `DelayAssumption` and `CountAssumption` of
`RemoteStore` (delays are positive and ordered, the number of failures is
positive), `BoundsOK` of `WatchTarget` (a collection has finitely many documents,
which is what a filter can count).

| theorem | states | argument |
|---|---|---|
| `TypeCorrect` | `[]TypeOK` | inductive as it stands |
| `LedgerCorrect` | `[](SectionsUnique /\ ReadLedger)` | neither is inductive alone. `SectionsUnique` needs that a read in flight has no section yet and is the only one, which is `ReadLedger`; `ReadLedger` needs that only recorded IDs are read. Their conjunction `Ledger`, with `TypeOK`, is inductive |
| `FeedImplementsDirectory` | `Spec => ImplementsDirectory` | `phase` is defined from the IDs, the reads and the sections; under `Ledger` each action maps to the directory's request, open, lose or restart, or to a stutter |
| `StalenessConfined` | `[]FaithfulUnlessTouched` | inductive with `TypeOK`: a change whose old state was absent finds nothing listed |
| `NoDuplicates` | `[]NoDuplicateWithoutRemoval` | by `StaysPresent`: of a document that is never deleted, the store, the copy, the snapshot and the handled part are ordered by presence, so it can be "added" only once per launch |
| `ScreenImplementsFeed` | `ScreenSpec => ImplementsFeed` | every action of the screen is one of the feed or a stutter on its variables |
| `LayoutNeverStale` | `[]LayoutFresh` | each action either leaves all inputs of the layout (`layoutInputs`) alone or sets `needsReload` |
| `TapsOpenWhatIsShown` | `TapOpensWhatIsShown` | only a tap at home pushes a first page, and it takes what the data source gives for the cell; by `LayoutFresh` that is what was laid out there (`FirstPageIsTapped`) |
| `ScreenKeepsFeedInvariants` | the feed's invariants hold under the screen | by the refinement |
| `RowsStayFresh`, `ReadsMatch`, `SubsStayHome` | `[]RowsFresh`, `[]ReadsMatchRows`, `[]SubsAtHome` | proved together with `TypeOK` and `NewReloads` (a page that is new has a layout due). That an answer finds its row empty (`ReadsMatchRows`) is why it cannot put a sub-article there twice; that any finite answer can be put in key order is `SortedExists`, by the rank of each document |
| `LinkedAreWhole` | `[]LinkedIsWhole` | from `ImportHalf`: the import under way has added exactly the articles of its document and has not linked them; no job touches this half (`JobsLeaveImport`) |
| `PlacesSurvive`, `NullIdsExplained`, `VisibleIsKept` | `[]PlaceLostByRerunOnly`, `[]NullIdOnlyWithoutName`, `VisibleStaysVisible` | from `JobHalf`, which says what the copy of a job that runs still has in common with the collection: a first "names" run has the place in its copy and finds the locations unset (`NamesOK`), two of them mean two counts (`NamesTwice`), a "replace" run alone finds every ID as in its copy (`ReplaceOK`). Each update is shown to be an `UpdateOf`, for which `UpdateKeeps` is proved once |
| `KeptUnderTitles` | `[]UnderItsTitles` of `Headings` | `IInv`: the texts remembered are those of the nearest headings above the element that is next. That holds only as long as no heading is passed over once there is an article (`NotLeft`), and the loop is not left then because the article of the last h2 can be found (`Findable`). A paragraph is kept once since all that is kept lies above the next element (`ContentsAbove`) |
| `ReadInOrder` | `[]ReadsWellFormed` of `Headings` | from `ReadSoFar`, inductive with the `IInv` above: on a page that begins with an h2 and repeats no title, the articles are at every element exactly those that lie above it by position (`PageTo`), and the loop has not been left. The text that was read last then finds the last article (`TargetIsLast`) and its last sub-category (`SubTargetIsLast`), or none if the nearest h2 was passed over; an element read is appended there and changes nothing else (`SetsGrow`, `OrderGrows`, `PageChanges`) |
| `GrpcStreamProofs!TypeCorrect` | `[]TypeOK` | inductive as it stands |
| `CallsWellFormed`, `DrainedAtRelease`, `WriteOrder` | `[]CallRules`, `[]ReleasedIsDrained`, `[]WritesInOrder` | from the inductive `IInv`. Its heart is `ReadsPending`: a started call has a read in gRPC's hands until Finish, which is why the code may take an empty list of completions for a call that never started. `WriterIdle` and `EndedOnce` say which completions and which observer each place of `control` allows |
| `StreamImplementsContract` | `Spec => ImplementsContract` | the contract's variables are those of the stream, `over` is "quit or no observer"; under `IInv` each action is one of the contract's or a stutter |
| `OnlyCleanEndAborts`, `NeededIsThere`, `ListensAreServed`, `OnlineHasProof`, `TimersFitState`, `RetriesWait` | `AbortsOnCleanEndOnly`, `[]NeededIsStarted`, `[]OpenCarriesListens`, `[]OnlineIsProven`, `[]TimersCoherent`, `[]RetriesBackOff` | none is inductive alone; together with `TokenOfStarting` (a token belongs to a stream that is starting), `StartedRecords` and `BaseGrows` they are, of an app that runs; one that was aborted has left its stream in Initial. The lemma of `OnStreamFinish` splits a close into one that keeps everything good and one that aborts (`CloseAborts`), and every other action goes on running. Since actions are compositions of operators on records, the lemmas state what `Start`, `Close`, `Enabled`, `Disabled` make of objects that are good and fit together, and each action cites them |
| `VisitsBalanced`, `CsvComplete` | `[]VisitLedger`, `[]CsvIsComplete` | from `Ledger`: the visits an item has had, its failures and the loops that have still to come to it (`Due`) add up to what is owed to it. A failure moves the visit of its own loop into the history and opens a loop that is due at every later item (`VisitDeferred`), exactly as it raises what is owed to these (`OwedAfterFailure`); a loop that ends was due at none. A loop opened before START_INDEX would owe visits to blank items, hence the bound on `frames` |
| `NoneTwice` | `[]ListedOnce` | from `Distinct`. That `uniq!` keeps the first of each key and nothing twice is `UniqKeeps`, which rests on the existence of an ascending enumeration of a finite set of numbers (`AscendingExists`, by ranks); that two fruits never share a page holds while the entries are read |
| `SeasonsAreListed` | `[]SeasonsFromListing` | the invariant `Seasonal` is the property with "all entries" replaced by the entries handled so far (`Handled`); an entry read extends this set by one (`HandledOneMore`) and either leaves a season alone (`SeasonStays`), adds its month (`SeasonGrows`) or opens an item. In the end all are handled (`AllAreHandled`) |
| `WatchTargetProofs!TypeCorrect` | `[]TypeOK` | with the invariant below, which says that a target that is recorded to exists |
| `CurrentQueriesComplete`, `TokensFitKeys` | `[]CurrentIsComplete`, `[]TokenFitsKeys` | from `WatchInvariant`, see below |

**The invariant of `WatchTarget`.** Neither property is inductive: whether the view
is complete after the next snapshot depends on messages that are still under way
and on what the server left out of them because it took it to be known. The
invariant therefore looks ahead. A *point* is a snapshot behind the last answer
under way, or the end of the queue, from where the server will go on telling; it
has a version. A message *speaks* of a document if it carries it, tells that it is
gone or resets the target, and it *claims* contents or death; the device claims
what it would hold after the next snapshot (`StateClaim`, which takes in the
changes collected so far). `QueueFits` says of a query that is listened to, of
which no request is under way and no mismatch awaits its snapshot: at every point
and for every document, whoever speaks last before the point is right about it at
the version of the point, unless the document is dead and a filter on the way
will show it; and the target will have been marked current.

- The server keeps it by naming what changed since the version it told of last
  (`UnnamedTruth`, `UpdateFits`); an answer to a listen starts from the token of the
  request instead, and there the claims are right because the tokens fit
  (`AskedClaims`, `AnswerFits`). That is why the two properties need each other.
- Taking a message in makes the device claim what the message claimed
  (`DocumentMoves`, `ResetMoves`), and moves all points up by one (`PointsMove`). A
  filter that finds the right number leaves no dead document among those held,
  since those that live are all there (`FilterIsExact`); one that finds another
  starts a repair, after which the query is not followed until it is asked for anew.
- A snapshot is a point before which nobody speaks: the device is right
  (`SnapshotApplied`), so the view is complete and the token fits.

Around it stand `Counted` and `Asked` (the target awaits exactly the answers to what
was requested, so that no message of an earlier listen counts), `QueueOK` (every
batch ends with its snapshot before the next answer, every filter counts for the
snapshot behind it), `BoundsKept` (nothing the device has is ahead of the server),
`Recorded` and `Emptied` (the collected changes fit the keys) and `TokenOrNothing` (a
device without a token holds nothing). The parts that speak of contents are
conditional on the history variables, as the properties are: they say nothing
after a repair that was broken off or a rejection that hit the wrong listen.

Checked by TLC only: liveness (`Converges`, `SectionsAppear`, `TextArrives`,
`Terminates`, `BlockingCallsReturn`, `FailureReported`, `ListenReachesServer`,
`CatchesUp`), which is out of the prover's reach.

## Not modelled

- Of the Firestore SDK: the write stream and its pipeline of mutations (the app
  writes nothing), shutdown, queries of a single document, limbo resolution, several
  targets that share a snapshot, the guard against snapshots older than the last
  one, the garbage collection of the cache and the format of LevelDB.
- The other vendored Pods (gRPC core, BoringSSL, Protobuf, leveldb, ...), which
  hold nearly all of the repository's lines and none of this program's logic; they
  appear only as what the modelled code calls. For this reason the map covers a
  small share of the repository's lines, although it covers the app's own Swift
  classes and the collector's models almost entirely.
- The Rails boilerplate, the app delegate, colours, fonts, cells, the buttons
  that open a recipe or a restaurant in the browser.
- Following the links of the mekiki scrapers and merging their rows into a CSV
  (`collect_mekiki_url_scraper.rb`, `collect_mekiki_info_scraper.rb:46-66`).
- The cells of the calendar on a detail page, and what the parser does with
  broken HTML. The table of prefecture keys is in `HomeScreen`; that two of them
  coincide is a constant fact and has no run.

## What could come next

The plan was: the data source and its promise, the screen on top of it, the pages,
the scrapers, the database, proofs outward from the data source, then the SDK from
the wire upwards (`StreamContract`, `GrpcStream`, `RemoteStore`, `WatchTarget`) and
the theorems about each. Every safety property a passing run checks is now a
theorem. What is left, most important first: `WatchTarget`
below `HomeFeed`, so that `ServerSnapshot` is a refinement and not an assumption;
the mekiki scrapers.
