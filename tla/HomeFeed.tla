------------------------------ MODULE HomeFeed ------------------------------
(***************************************************************************)
(* The data source of HomeViewController: the snapshot listener on the     *)
(* "Ingredients" collection, the list of ingredients it fills, and the     *)
(* one-shot reads of "SubCategories" that open the sections.               *)
(*                                                                         *)
(* Every callback of the Firestore SDK runs on the main queue.  One        *)
(* listener callback handles all the changes of a snapshot in a row; here  *)
(* every change is a step of its own, and no other main-queue action is    *)
(* enabled while changes are pending, so a callback stays atomic.          *)
(***************************************************************************)
EXTENDS Integers, SequencesExt

CONSTANTS
  Docs,           \* document IDs of the "Ingredients" collection
  Rank,           \* the order of the document keys
  Cats,           \* document IDs of the "SubCategories" collection
  Catalogue,      \* state of each "SubCategories" document, see CatalogueOK
  Contents,       \* contents that Ingredient.init? accepts: records with cat
  Undecodable,    \* any content that Ingredient.init? rejects
  Absent,         \* no such document
  Removable,      \* the documents an operator may delete by hand
  MaxWrites,      \* bound: writes to the store
  MaxLaunches     \* bound: launches of the app

DocStates == Contents \cup {Undecodable, Absent}

ASSUME RankOK ==
  /\ Rank \in [Docs -> Nat]
  /\ \A d, e \in Docs : Rank[d] = Rank[e] => d = e
ASSUME CatalogueOK == Catalogue \in [Cats -> {"named", "unnamed", "missing"}]
ASSUME ContentsOK ==
  /\ \A s \in Contents : s.cat \in Cats
  /\ Undecodable \notin Contents
  /\ Absent \notin Contents
  /\ Undecodable # Absent
ASSUME BoundsOK == MaxWrites \in Nat /\ MaxLaunches \in Nat /\ Removable \subseteq Docs

VARIABLES
  store,              \* the collection in the backend
  writes,             \* writes so far
  cache,              \* the SDK's copy on the device, kept over launches
  snap,               \* the snapshot last handed to the listener
  view,               \* the part of snap whose changes have been handled
  listening,          \* the listener has not been dropped by an error
  ingredients,        \* [doc, content] records, in order of arrival
  subCategoryIDs,     \* sub-categories that have been asked for
  inflight,           \* inflight[c]: reads of c without an answer
  ingredientSections, \* the sections, by sub-category
  needsReload,        \* reloadData was called and no layout has run since
  launches,           \* launches so far
  touched             \* history: documents with a modified or removed change

backendVars == <<store, writes>>
listenerVars == <<cache, snap, view, listening>>
categoryVars == <<subCategoryIDs, inflight, ingredientSections>>
historyVars == touched
vars == <<backendVars, listenerVars, ingredients, categoryVars, needsReload,
          launches, historyVars>>

NoDocs == [d \in Docs |-> Absent]
NoReads == [c \in Cats |-> 0]

Entry(d, s) == [doc |-> d, content |-> s]
Entries == [doc : Docs, content : Contents]

Sections == ToSet(ingredientSections)

-----------------------------------------------------------------------------
(* The changes of a snapshot, in the order the SDK sorts them.             *)

Pending == {d \in Docs : view[d] # snap[d]}

(* The main queue is between two callbacks.                                *)
Idle == Pending = {}

ChangeType(d) ==
  CASE snap[d] = Absent -> "removed"
    [] snap[d] # Absent /\ view[d] = Absent -> "added"
    [] OTHER -> "modified"

TypePosition == [removed |-> 0, added |-> 1, modified |-> 2]

Precedes(d, e) ==
  \/ TypePosition[ChangeType(d)] < TypePosition[ChangeType(e)]
  \/ ChangeType(d) = ChangeType(e) /\ Rank[d] < Rank[e]

NextChange(d) == d \in Pending /\ \A e \in Pending \ {d} : Precedes(d, e)

Handled(d) == view' = [view EXCEPT ![d] = snap[d]]

-----------------------------------------------------------------------------
Init ==
  /\ store \in [Docs -> DocStates]
  /\ writes = 0
  /\ cache = NoDocs
  /\ snap = NoDocs
  /\ view = NoDocs
  /\ listening = TRUE
  /\ ingredients = <<>>
  /\ subCategoryIDs = {}
  /\ inflight = NoReads
  /\ ingredientSections = <<>>
  /\ needsReload = TRUE
  /\ launches = 1
  /\ touched = {}

(* The collector's import and migration jobs, or an operator, write one    *)
(* document while the app may be open.                                     *)
Write(d, s) ==
  /\ writes < MaxWrites
  /\ s # store[d]
  /\ s = Absent => d \in Removable
  /\ store' = [store EXCEPT ![d] = s]
  /\ writes' = writes + 1
  /\ UNCHANGED <<listenerVars, ingredients, categoryVars, needsReload,
                 launches, historyVars>>

(* The first event of a launch may come from the device's copy.            *)
CachedSnapshot ==
  /\ listening
  /\ Idle
  /\ snap = NoDocs
  /\ cache # NoDocs
  /\ snap' = cache
  /\ UNCHANGED <<backendVars, cache, view, listening, ingredients,
                 categoryVars, needsReload, launches, historyVars>>

(* Slip: one read of the collection instead of a listener.                 *)
ServerSnapshot_Once ==
  /\ listening
  /\ Idle
  /\ snap = NoDocs
  /\ snap # store
  /\ snap' = store
  /\ cache' = store
  /\ UNCHANGED <<backendVars, view, listening, ingredients, categoryVars,
                 needsReload, launches, historyVars>>

(* Slip: every snapshot is handed over as if it were the first.            *)
ServerSnapshot_FromScratch ==
  /\ listening
  /\ Idle
  /\ snap # store
  /\ snap' = store
  /\ cache' = store
  /\ view' = NoDocs
  /\ UNCHANGED <<backendVars, listening, ingredients, categoryVars,
                 needsReload, launches, historyVars>>

(* A consistent snapshot of the backend; writes in between are merged.     *)
ServerSnapshot ==
  /\ listening
  /\ Idle
  /\ snap # store
  /\ snap' = store
  /\ cache' = store
  /\ UNCHANGED <<backendVars, view, listening, ingredients, categoryVars,
                 needsReload, launches, historyVars>>

(* The closure prints the error; the SDK has dropped the listener.         *)
ListenError ==
  /\ listening
  /\ Idle
  /\ listening' = FALSE
  /\ UNCHANGED <<backendVars, cache, snap, view, ingredients, categoryVars,
                 needsReload, launches, historyVars>>

(* Slip: the check looks at the open sections, not at the IDs asked for.   *)
insertNewCategoryIfNeeded_ChecksSections(c) ==
  /\ subCategoryIDs' = subCategoryIDs \cup {c}
  /\ inflight' = IF c \in Sections THEN inflight
                 ELSE [inflight EXCEPT ![c] = @ + 1]
  /\ UNCHANGED ingredientSections

(* Slip: the ID is not recorded when the read is issued.                   *)
insertNewCategoryIfNeeded_NotRecorded(c) ==
  /\ inflight' = IF c \in subCategoryIDs THEN inflight
                 ELSE [inflight EXCEPT ![c] = @ + 1]
  /\ UNCHANGED <<subCategoryIDs, ingredientSections>>

(* The ID is recorded at once, the answer comes later.                     *)
insertNewCategoryIfNeeded(c) ==
  /\ subCategoryIDs' = subCategoryIDs \cup {c}
  /\ inflight' = IF c \in subCategoryIDs THEN inflight
                 ELSE [inflight EXCEPT ![c] = @ + 1]
  /\ UNCHANGED ingredientSections

(* Slip: a modified document is inserted like an added one.                *)
insertNewIngredient_Modified(d) ==
  /\ NextChange(d)
  /\ ChangeType(d) \in {"added", "modified"}
  /\ snap[d] \in Contents
  /\ Handled(d)
  /\ ingredients' = Append(ingredients, Entry(d, snap[d]))
  /\ insertNewCategoryIfNeeded(snap[d].cat)
  /\ needsReload' = TRUE
  /\ UNCHANGED <<backendVars, cache, snap, listening, launches, historyVars>>

insertNewIngredient(d) ==
  /\ NextChange(d)
  /\ ChangeType(d) = "added"
  /\ snap[d] \in Contents
  /\ Handled(d)
  /\ ingredients' = Append(ingredients, Entry(d, snap[d]))
  /\ insertNewCategoryIfNeeded(snap[d].cat)
  /\ needsReload' = TRUE
  /\ UNCHANGED <<backendVars, cache, snap, listening, launches, historyVars>>

(* insertNewIngredient returns at once: Ingredient.init? gave nil.         *)
RejectIngredient(d) ==
  /\ NextChange(d)
  /\ ChangeType(d) = "added"
  /\ snap[d] = Undecodable
  /\ Handled(d)
  /\ UNCHANGED <<backendVars, cache, snap, listening, ingredients,
                 categoryVars, needsReload, launches, historyVars>>

(* The default case of handleDocumentChange: modified and removed.         *)
IgnoreChange(d) ==
  /\ NextChange(d)
  /\ ChangeType(d) \in {"modified", "removed"}
  /\ Handled(d)
  /\ touched' = touched \cup {d}
  /\ UNCHANGED <<backendVars, cache, snap, listening, ingredients,
                 categoryVars, needsReload, launches>>

handleDocumentChange(d) ==
  insertNewIngredient(d) \/ RejectIngredient(d) \/ IgnoreChange(d)

Answer(c) ==
  /\ Idle
  /\ inflight[c] > 0
  /\ inflight' = [inflight EXCEPT ![c] = @ - 1]

(* Slip: the collection view is not told of a section opened later.        *)
OpenSection_NoReload(c) ==
  /\ Answer(c)
  /\ Catalogue[c] = "named"
  /\ ingredientSections' = Append(ingredientSections, c)
  /\ UNCHANGED <<backendVars, listenerVars, ingredients, subCategoryIDs,
                 needsReload, launches, historyVars>>

(* getDocument answers with a document that has a name: open the section.  *)
OpenSection(c) ==
  /\ Answer(c)
  /\ Catalogue[c] = "named"
  /\ ingredientSections' = Append(ingredientSections, c)
  /\ needsReload' = TRUE
  /\ UNCHANGED <<backendVars, listenerVars, ingredients, subCategoryIDs,
                 launches, historyVars>>

(* The document has no name in the app's language: return.                 *)
UnnamedSection(c) ==
  /\ Answer(c)
  /\ Catalogue[c] = "unnamed"
  /\ UNCHANGED <<backendVars, listenerVars, ingredients, subCategoryIDs,
                 ingredientSections, needsReload, launches, historyVars>>

(* The document is missing, or the read failed (for one, the device is     *)
(* offline and holds no copy): either way "Document does not exist" is     *)
(* printed and the error is not looked at.                                 *)
SectionNotFound(c) ==
  /\ Answer(c)
  /\ UNCHANGED <<backendVars, listenerVars, ingredients, subCategoryIDs,
                 ingredientSections, needsReload, launches, historyVars>>

AnswerRead(c) == OpenSection(c) \/ UnnamedSection(c) \/ SectionNotFound(c)

(* A picker changed the filter (HomeScreen): the layout is out of date.    *)
reloadData ==
  /\ Idle
  /\ needsReload' = TRUE
  /\ UNCHANGED <<backendVars, listenerVars, ingredients, categoryVars,
                 launches, historyVars>>

(* The collection view asks the data source again.                         *)
LayOut ==
  /\ Idle
  /\ needsReload
  /\ needsReload' = FALSE
  /\ UNCHANGED <<backendVars, listenerVars, ingredients, categoryVars,
                 launches, historyVars>>

(* The process ends, at any point, and the app is opened again.            *)
Relaunch ==
  /\ launches < MaxLaunches
  /\ launches' = launches + 1
  /\ snap' = NoDocs
  /\ view' = NoDocs
  /\ listening' = TRUE
  /\ ingredients' = <<>>
  /\ subCategoryIDs' = {}
  /\ inflight' = NoReads
  /\ ingredientSections' = <<>>
  /\ needsReload' = TRUE
  /\ touched' = {}
  /\ UNCHANGED <<backendVars, cache>>

Next ==
  \/ \E d \in Docs, s \in DocStates : Write(d, s)
  \/ CachedSnapshot
  \/ ServerSnapshot
  \/ ListenError
  \/ \E d \in Docs : handleDocumentChange(d)
  \/ \E c \in Cats : AnswerRead(c)
  \/ reloadData
  \/ LayOut
  \/ Relaunch

Spec == Init /\ [][Next]_vars

(* The main queue runs every callback handed to it; the SDK reconnects     *)
(* until a snapshot arrives and answers every read, if only with an error. *)
Fairness ==
  /\ WF_vars(\E d \in Docs : handleDocumentChange(d))
  /\ WF_vars(ServerSnapshot)
  /\ \A c \in Cats : WF_vars(AnswerRead(c))

FairSpec == Spec /\ Fairness

-----------------------------------------------------------------------------
(* The types of the variables of the data source.                          *)
TypeOK ==
  /\ store \in [Docs -> DocStates]
  /\ cache \in [Docs -> DocStates]
  /\ snap \in [Docs -> DocStates]
  /\ view \in [Docs -> DocStates]
  /\ writes \in 0..MaxWrites
  /\ launches \in Nat
  /\ listening \in BOOLEAN
  /\ ingredients \in Seq(Entries)
  /\ subCategoryIDs \subseteq Cats
  /\ inflight \in [Cats -> Nat]
  /\ ingredientSections \in Seq(Cats)
  /\ needsReload \in BOOLEAN
  /\ touched \subseteq Docs

(* No sub-category has two sections, although the answer that opens one    *)
(* comes long after the check that asked for it, and several documents of  *)
(* the sub-category may arrive in between.                                 *)
SectionsUnique == IsInjective(ingredientSections)

(* A sub-category is asked for at most once per launch: at most one read   *)
(* is in flight, none once its section is open; and every sub-category     *)
(* that is read, open or has a listed ingredient has been recorded, so     *)
(* that none is left without a section for want of a request.              *)
ReadLedger ==
  /\ \A c \in Cats : inflight[c] <= 1 /\ (c \in Sections => inflight[c] = 0)
  /\ \A c \in Cats : c \in Sections \/ inflight[c] > 0 => c \in subCategoryIDs
  /\ \A i \in DOMAIN ingredients : ingredients[i].content.cat \in subCategoryIDs

Listed(d) == {i \in DOMAIN ingredients : ingredients[i].doc = d}

(* Staleness is confined: a document that no ignored change has touched in *)
(* this launch is listed exactly once with the content last delivered, or  *)
(* not at all when that content is undecodable or the document absent.     *)
FaithfulUnlessTouched ==
  \A d \in Docs \ touched :
    IF view[d] \in Contents
    THEN \E i \in DOMAIN ingredients :
           Listed(d) = {i} /\ ingredients[i].content = view[d]
    ELSE Listed(d) = {}

(* A document that is never deleted is never listed twice in a launch, in  *)
(* whatever way it is edited meanwhile.                                    *)
NoDuplicateWithoutRemoval ==
  \A d \in Docs \ Removable : \A i, j \in Listed(d) : i = j

Lost(c) == c \in subCategoryIDs /\ inflight[c] = 0 /\ c \notin Sections

(* Once the writers stop, a live listener has handled the store's last     *)
(* state; a dropped one never hears of it.                                 *)
Converges == <>[](listening => view = store)

-----------------------------------------------------------------------------
(* What HomeFeed implements.                                               *)

PhaseOf(c) ==
  CASE c \in Sections -> "open"
    [] c \notin Sections /\ inflight[c] > 0 -> "requested"
    [] c \notin Sections /\ inflight[c] = 0 /\ c \in subCategoryIDs -> "lost"
    [] OTHER -> "unknown"

Directory == INSTANCE SectionDirectory
               WITH phase <- [c \in Cats |-> PhaseOf(c)],
                    shown <- ingredientSections

(* The data source implements the section directory.                       *)
ImplementsDirectory == Directory!Spec
=============================================================================
