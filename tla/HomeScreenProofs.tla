-------------------------- MODULE HomeScreenProofs --------------------------
(***************************************************************************)
(* Proofs about HomeFeed and HomeScreen, for every set of documents,       *)
(* sub-categories, prefectures and contents, every state of the catalogue  *)
(* and every bound.  The data source comes first; the screen is a user of  *)
(* it, whose theorems carry over, and its collection view never shows what *)
(* the data source does not hold.                                          *)
(***************************************************************************)
EXTENDS HomeScreen, TLAPS


(* Appending an element adds it to the range of a sequence.                *)
LEMMA ToSetAppend ==
  ASSUME NEW S, NEW s \in Seq(S), NEW e \in S
  PROVE  ToSet(Append(s, e)) = ToSet(s) \cup {e}
<1>1. Len(Append(s, e)) = Len(s) + 1 /\ Append(s, e) \in Seq(S)
  OBVIOUS
<1>2. \A i \in 1..Len(s) : Append(s, e)[i] = s[i]
  OBVIOUS
<1>3. Append(s, e)[Len(s) + 1] = e
  OBVIOUS
<1> QED
  BY <1>1, <1>2, <1>3 DEF ToSet

(* Appending a new element keeps a sequence free of repetitions.           *)
LEMMA InjectiveAppend ==
  ASSUME NEW S, NEW s \in Seq(S), NEW e \in S, IsInjective(s), e \notin ToSet(s)
  PROVE  IsInjective(Append(s, e))
<1>1. /\ DOMAIN s = 1..Len(s)
      /\ DOMAIN Append(s, e) = 1..(Len(s) + 1)
  OBVIOUS
<1>2. \A i \in 1..Len(s) : Append(s, e)[i] = s[i] /\ s[i] # e
  BY DEF ToSet
<1>3. Append(s, e)[Len(s) + 1] = e
  OBVIOUS
<1>4. ASSUME NEW i \in 1..(Len(s) + 1), NEW j \in 1..(Len(s) + 1),
             Append(s, e)[i] = Append(s, e)[j]
      PROVE  i = j
  <2>1. CASE i \in 1..Len(s) /\ j \in 1..Len(s)
    BY <2>1, <1>1, <1>2, <1>4 DEF IsInjective
  <2>2. CASE i = Len(s) + 1 \/ j = Len(s) + 1
    BY <2>2, <1>2, <1>3, <1>4
  <2> QED
    BY <2>1, <2>2
<1> QED
  BY <1>1, <1>4 DEF IsInjective

-----------------------------------------------------------------------------
(* Types.                                                                  *)

LEMMA TypeInit == Init => TypeOK
  BY BoundsOK DEF Init, TypeOK, NoDocs, NoReads, DocStates, Entries

LEMMA TypeStep == TypeOK /\ [Next]_vars => TypeOK'
<1> SUFFICES ASSUME TypeOK, [Next]_vars PROVE TypeOK'
  OBVIOUS
<1> USE DEF TypeOK
<1>1. ASSUME NEW d \in Docs, NEW s \in DocStates, Write(d, s) PROVE TypeOK'
  BY <1>1, BoundsOK DEF Write, listenerVars, categoryVars, historyVars
<1>2. CASE CachedSnapshot
  BY <1>2 DEF CachedSnapshot, backendVars, categoryVars, historyVars
<1>3. CASE ServerSnapshot
  BY <1>3 DEF ServerSnapshot, backendVars, categoryVars, historyVars
<1>4. CASE ListenError
  BY <1>4 DEF ListenError, backendVars, categoryVars, historyVars
<1>5. ASSUME NEW d \in Docs, insertNewIngredient(d) PROVE TypeOK'
  <2>1. Entry(d, snap[d]) \in Entries /\ snap[d].cat \in Cats
    BY <1>5, ContentsOK DEF insertNewIngredient, Entry, Entries
  <2>2. ingredients' \in Seq(Entries)
    BY <1>5, <2>1 DEF insertNewIngredient
  <2>3. view' \in [Docs -> DocStates]
    BY <1>5 DEF insertNewIngredient, Handled
  <2>4. /\ subCategoryIDs' \subseteq Cats
        /\ inflight' \in [Cats -> Nat]
        /\ ingredientSections' \in Seq(Cats)
    BY <1>5, <2>1 DEF insertNewIngredient, insertNewCategoryIfNeeded
  <2> QED
    BY <1>5, <2>2, <2>3, <2>4 DEF insertNewIngredient, backendVars, historyVars
<1>6. ASSUME NEW d \in Docs, RejectIngredient(d) PROVE TypeOK'
  BY <1>6 DEF RejectIngredient, Handled, backendVars, categoryVars, historyVars
<1>7. ASSUME NEW d \in Docs, IgnoreChange(d) PROVE TypeOK'
  BY <1>7 DEF IgnoreChange, Handled, backendVars, categoryVars
<1>8. ASSUME NEW c \in Cats, Answer(c) PROVE inflight' \in [Cats -> Nat]
  BY <1>8 DEF Answer
<1>9. ASSUME NEW c \in Cats, OpenSection(c) PROVE TypeOK'
  BY <1>8, <1>9 DEF OpenSection, backendVars, listenerVars, historyVars
<1>10. ASSUME NEW c \in Cats, UnnamedSection(c) PROVE TypeOK'
  BY <1>8, <1>10 DEF UnnamedSection, backendVars, listenerVars, historyVars
<1>11. ASSUME NEW c \in Cats, SectionNotFound(c) PROVE TypeOK'
  BY <1>8, <1>11 DEF SectionNotFound, backendVars, listenerVars, historyVars
<1>12. CASE reloadData
  BY <1>12 DEF reloadData, backendVars, listenerVars, categoryVars, historyVars
<1>13. CASE LayOut
  BY <1>13 DEF LayOut, backendVars, listenerVars, categoryVars, historyVars
<1>14. CASE Relaunch
  BY <1>14 DEF Relaunch, NoDocs, NoReads, DocStates, backendVars
<1>15. CASE UNCHANGED vars
  BY <1>15 DEF vars, backendVars, listenerVars, categoryVars, historyVars
<1> QED
  BY <1>1, <1>2, <1>3, <1>4, <1>5, <1>6, <1>7, <1>9, <1>10, <1>11, <1>12,
     <1>13, <1>14, <1>15 DEF Next, handleDocumentChange, AnswerRead

(* The variables of the data source keep their types.                      *)
THEOREM TypeCorrect == Spec => []TypeOK
<1>1. Init => TypeOK
  BY TypeInit
<1>2. TypeOK /\ [Next]_vars => TypeOK'
  BY TypeStep
<1> QED
  BY <1>1, <1>2, PTL DEF Spec


-----------------------------------------------------------------------------
(* The ledger of requests and sections.                                    *)

Ledger == SectionsUnique /\ ReadLedger

LEMMA LedgerInit == Init => Ledger
  BY DEF Init, Ledger, SectionsUnique, IsInjective, ReadLedger, ToSet,
         NoReads, Sections

(* What the ledger rests on, but for inflight, ingredients and the rest.   *)
LEMMA LedgerUnchanged ==
  ASSUME Ledger, UNCHANGED <<ingredients, categoryVars>>
  PROVE  Ledger'
  BY DEF Ledger, SectionsUnique, IsInjective, ReadLedger, Sections,
         categoryVars, ToSet

LEMMA LedgerStep == TypeOK /\ Ledger /\ [Next]_vars => Ledger'
<1> SUFFICES ASSUME TypeOK, Ledger, [Next]_vars PROVE Ledger'
  OBVIOUS
<1>1. ASSUME NEW d \in Docs, NEW s \in DocStates, Write(d, s) PROVE Ledger'
  BY <1>1, LedgerUnchanged DEF Write
<1>2. CASE CachedSnapshot \/ ServerSnapshot \/ ListenError
  BY <1>2, LedgerUnchanged DEF CachedSnapshot, ServerSnapshot, ListenError
<1>3. ASSUME NEW d \in Docs, insertNewIngredient(d) PROVE Ledger'
  <2> DEFINE c == snap[d].cat
  <2>1. /\ c \in Cats
        /\ ingredients \in Seq(Entries)
        /\ Entry(d, snap[d]) \in Entries
        /\ Entry(d, snap[d]).content.cat = c
        /\ inflight \in [Cats -> Nat]
    BY <1>3, ContentsOK DEF insertNewIngredient, TypeOK, Entry, Entries
  <2>2. /\ ingredients' = Append(ingredients, Entry(d, snap[d]))
        /\ subCategoryIDs' = subCategoryIDs \cup {c}
        /\ inflight' = IF c \in subCategoryIDs THEN inflight
                       ELSE [inflight EXCEPT ![c] = @ + 1]
        /\ ingredientSections' = ingredientSections
    BY <1>3 DEF insertNewIngredient, insertNewCategoryIfNeeded
  <2> HIDE DEF c
  <2>3. SectionsUnique' /\ Sections' = Sections
    BY <2>2 DEF Ledger, SectionsUnique, IsInjective, Sections, ToSet
  <2>4. \A k \in Cats : /\ inflight'[k] <= 1
                        /\ k \in Sections => inflight'[k] = 0
                        /\ k \in Sections \/ inflight'[k] > 0 => k \in subCategoryIDs'
    <3> SUFFICES ASSUME NEW k \in Cats
                 PROVE  /\ inflight'[k] <= 1
                        /\ k \in Sections => inflight'[k] = 0
                        /\ k \in Sections \/ inflight'[k] > 0 => k \in subCategoryIDs'
      OBVIOUS
    <3>1. /\ inflight[k] \in Nat
          /\ inflight[k] <= 1
          /\ k \in Sections => inflight[k] = 0
          /\ k \in Sections \/ inflight[k] > 0 => k \in subCategoryIDs
      BY <2>1 DEF Ledger, ReadLedger
    <3>2. CASE k = c /\ c \notin subCategoryIDs
      BY <2>1, <2>2, <3>1, <3>2
    <3>3. CASE k # c \/ c \in subCategoryIDs
      BY <2>1, <2>2, <3>1, <3>3
    <3> QED
      BY <3>2, <3>3
  <2>5. \A i \in DOMAIN ingredients' : ingredients'[i].content.cat \in subCategoryIDs'
    <3>1. \A i \in 1..Len(ingredients) : ingredients[i].content.cat \in subCategoryIDs
      BY <2>1 DEF Ledger, ReadLedger
    <3>2. /\ DOMAIN ingredients' = 1..(Len(ingredients) + 1)
          /\ \A i \in 1..Len(ingredients) : ingredients'[i] = ingredients[i]
          /\ ingredients'[Len(ingredients) + 1] = Entry(d, snap[d])
      BY <2>1, <2>2
    <3> QED
      BY <2>1, <2>2, <3>1, <3>2
  <2> QED
    BY <2>3, <2>4, <2>5 DEF Ledger, ReadLedger
<1>4. ASSUME NEW d \in Docs, RejectIngredient(d) PROVE Ledger'
  BY <1>4, LedgerUnchanged DEF RejectIngredient
<1>5. ASSUME NEW d \in Docs, IgnoreChange(d) PROVE Ledger'
  BY <1>5, LedgerUnchanged DEF IgnoreChange
<1>6. ASSUME NEW c \in Cats, Answer(c), UNCHANGED <<ingredients, subCategoryIDs>>,
             \/ ingredientSections' = ingredientSections
             \/ ingredientSections' = Append(ingredientSections, c)
      PROVE  Ledger'
  <2>1. /\ inflight[c] = 1
        /\ inflight' = [inflight EXCEPT ![c] = 0]
        /\ c \notin Sections
        /\ c \in subCategoryIDs
    <3>1. inflight[c] \in Nat /\ inflight[c] > 0
      BY <1>6 DEF TypeOK, Answer
    <3>2. /\ inflight[c] <= 1
          /\ c \in Sections => inflight[c] = 0
          /\ inflight[c] > 0 => c \in subCategoryIDs
      BY DEF Ledger, ReadLedger
    <3>3. inflight[c] = 1
      BY <3>1, <3>2
    <3> QED
      BY <1>6, <3>1, <3>2, <3>3 DEF Answer
  <2>2. ingredientSections \in Seq(Cats) /\ inflight \in [Cats -> Nat]
    BY DEF TypeOK
  <2>3. SectionsUnique' /\ Sections' \subseteq Sections \cup {c}
    <3>1. CASE ingredientSections' = ingredientSections
      BY <3>1 DEF Ledger, SectionsUnique, Sections, IsInjective, ToSet
    <3>2. CASE ingredientSections' = Append(ingredientSections, c)
      <4>1. IsInjective(Append(ingredientSections, c))
        BY <2>1, <2>2, InjectiveAppend DEF Ledger, SectionsUnique, Sections
      <4>2. ToSet(Append(ingredientSections, c)) = ToSet(ingredientSections) \cup {c}
        BY <2>2, ToSetAppend
      <4> QED
        BY <3>2, <4>1, <4>2 DEF SectionsUnique, Sections, IsInjective, ToSet
    <3> QED
      BY <1>6, <3>1, <3>2
  <2>4. \A k \in Cats : /\ inflight'[k] <= 1
                        /\ k \in Sections' => inflight'[k] = 0
                        /\ k \in Sections' \/ inflight'[k] > 0 => k \in subCategoryIDs'
    BY <1>6, <2>1, <2>2, <2>3 DEF Ledger, ReadLedger
  <2>5. \A i \in DOMAIN ingredients' : ingredients'[i].content.cat \in subCategoryIDs'
    BY <1>6 DEF Ledger, ReadLedger
  <2> QED
    BY <2>3, <2>4, <2>5 DEF Ledger, ReadLedger
<1>7. ASSUME NEW c \in Cats, AnswerRead(c) PROVE Ledger'
  BY <1>6, <1>7 DEF AnswerRead, OpenSection, UnnamedSection, SectionNotFound
<1>8. CASE reloadData \/ LayOut
  BY <1>8, LedgerUnchanged DEF reloadData, LayOut
<1>9. CASE Relaunch
  <2>1. /\ ingredients' = <<>>
        /\ subCategoryIDs' = {}
        /\ inflight' = NoReads
        /\ ingredientSections' = <<>>
    BY <1>9 DEF Relaunch
  <2> QED
    BY <2>1 DEF Ledger, SectionsUnique, IsInjective, ReadLedger, ToSet,
                NoReads, Sections
<1>10. CASE UNCHANGED vars
  BY <1>10, LedgerUnchanged DEF vars
<1> QED
  BY <1>1, <1>2, <1>3, <1>4, <1>5, <1>7, <1>8, <1>9, <1>10
     DEF Next, handleDocumentChange

(* Reads and sections always balance: no sub-category is asked for twice,  *)
(* and none has two sections.                                              *)
THEOREM LedgerCorrect == Spec => [](SectionsUnique /\ ReadLedger)
<1>1. Init => TypeOK /\ Ledger
  BY TypeInit, LedgerInit
<1>2. TypeOK /\ Ledger /\ [Next]_vars => TypeOK' /\ Ledger'
  BY TypeStep, LedgerStep
<1>3. Ledger => SectionsUnique /\ ReadLedger
  BY DEF Ledger
<1> QED
  BY <1>1, <1>2, <1>3, PTL DEF Spec

-----------------------------------------------------------------------------
(* HomeFeed implements SectionDirectory.                                   *)

LEMMA DirectoryInit == Init => Directory!Init
  BY DEF Init, Directory!Init, PhaseOf, Sections, ToSet, NoReads

LEMMA DirectoryUnchanged ==
  ASSUME UNCHANGED categoryVars
  PROVE  UNCHANGED Directory!vars
  BY DEF categoryVars, Directory!vars, PhaseOf, Sections

(* A new sub-category is requested; an answer opens or loses it; a         *)
(* relaunch forgets everything; all else is invisible.                     *)
LEMMA DirectoryStep ==
  TypeOK /\ Ledger /\ [Next]_vars => [Directory!Next]_(Directory!vars)
<1> SUFFICES ASSUME TypeOK, Ledger, [Next]_vars
             PROVE  [Directory!Next]_(Directory!vars)
  OBVIOUS
<1>1. ASSUME NEW d \in Docs, insertNewIngredient(d)
      PROVE  [Directory!Next]_(Directory!vars)
  <2>0. snap[d].cat \in Cats
    BY <1>1, ContentsOK DEF insertNewIngredient
  <2> PICK c \in Cats : c = snap[d].cat
    BY <2>0
  <2>1. /\ inflight \in [Cats -> Nat]
        /\ subCategoryIDs' = subCategoryIDs \cup {c}
        /\ inflight' = IF c \in subCategoryIDs THEN inflight
                       ELSE [inflight EXCEPT ![c] = @ + 1]
        /\ ingredientSections' = ingredientSections
    BY <1>1 DEF TypeOK, insertNewIngredient, insertNewCategoryIfNeeded
  <2>2. CASE c \in subCategoryIDs
    <3>1. subCategoryIDs' = subCategoryIDs
      BY <2>1, <2>2
    <3>2. UNCHANGED categoryVars
      BY <2>1, <2>2, <3>1 DEF categoryVars
    <3> QED
      BY <3>2, DirectoryUnchanged
  <2>3. CASE c \notin subCategoryIDs
    <3>1. c \notin Sections /\ inflight[c] = 0
      BY <2>1, <2>3 DEF Ledger, ReadLedger
    <3>2. Sections' = Sections
      BY <2>1 DEF Sections
    <3>3. PhaseOf(c) = "unknown" /\ PhaseOf(c)' = "requested"
      BY <2>1, <2>3, <3>1, <3>2 DEF PhaseOf
    <3>4. \A k \in Cats \ {c} : PhaseOf(k)' = PhaseOf(k)
      BY <2>1, <2>3, <3>2 DEF PhaseOf
    <3>5. Directory!Request(c)
      BY <2>1, <3>3, <3>4 DEF Directory!Request
    <3> QED
      BY <2>1, <3>5 DEF Directory!Next
  <2> QED
    BY <2>2, <2>3
<1>2. ASSUME NEW c \in Cats, Answer(c)
      PROVE  /\ PhaseOf(c) = "requested"
             /\ inflight' = [inflight EXCEPT ![c] = 0]
             /\ c \in subCategoryIDs
             /\ c \notin Sections
             /\ inflight \in [Cats -> Nat]
  <2>1. inflight[c] \in Nat /\ inflight[c] > 0 /\ inflight \in [Cats -> Nat]
    BY <1>2 DEF TypeOK, Answer
  <2>2. /\ inflight[c] <= 1
        /\ c \in Sections => inflight[c] = 0
        /\ inflight[c] > 0 => c \in subCategoryIDs
    BY DEF Ledger, ReadLedger
  <2>3. inflight[c] = 1
    BY <2>1, <2>2
  <2>4. c \notin Sections
    BY <2>2, <2>3
  <2> QED
    BY <1>2, <2>1, <2>2, <2>3, <2>4 DEF Answer, PhaseOf
<1>3. ASSUME NEW c \in Cats, OpenSection(c)
      PROVE  [Directory!Next]_(Directory!vars)
  <2>1. /\ ingredientSections' = Append(ingredientSections, c)
        /\ subCategoryIDs' = subCategoryIDs
        /\ ingredientSections \in Seq(Cats)
        /\ Answer(c)
    BY <1>3 DEF OpenSection, TypeOK
  <2>2. Sections' = Sections \cup {c}
    BY <2>1, ToSetAppend DEF Sections
  <2>3. PhaseOf(c)' = "open"
    BY <2>2 DEF PhaseOf
  <2>4. \A k \in Cats \ {c} : PhaseOf(k)' = PhaseOf(k)
    BY <1>2, <2>1, <2>2 DEF PhaseOf
  <2>5. Directory!Open(c)
    BY <1>2, <2>1, <2>3, <2>4 DEF Directory!Open
  <2> QED
    BY <2>5 DEF Directory!Next
<1>4. ASSUME NEW c \in Cats, UnnamedSection(c) \/ SectionNotFound(c)
      PROVE  [Directory!Next]_(Directory!vars)
  <2>1. /\ UNCHANGED <<ingredientSections, subCategoryIDs>>
        /\ Answer(c)
    BY <1>4 DEF UnnamedSection, SectionNotFound
  <2>2. Sections' = Sections
    BY <2>1 DEF Sections
  <2>3. PhaseOf(c)' = "lost"
    BY <1>2, <2>1, <2>2 DEF PhaseOf
  <2>4. \A k \in Cats \ {c} : PhaseOf(k)' = PhaseOf(k)
    BY <1>2, <2>1, <2>2 DEF PhaseOf
  <2>5. Directory!Lose(c)
    BY <1>2, <2>1, <2>3, <2>4 DEF Directory!Lose
  <2> QED
    BY <2>5 DEF Directory!Next
<1>5. CASE Relaunch
  <2>1. /\ subCategoryIDs' = {}
        /\ inflight' = NoReads
        /\ ingredientSections' = <<>>
    BY <1>5 DEF Relaunch
  <2>2. Sections' = {}
    BY <2>1 DEF Sections, ToSet
  <2>3. \A k \in Cats : PhaseOf(k)' = "unknown"
    BY <2>1, <2>2 DEF PhaseOf, NoReads
  <2>4. Directory!Restart
    BY <2>1, <2>3 DEF Directory!Restart
  <2> QED
    BY <2>4 DEF Directory!Next
<1>6. CASE UNCHANGED categoryVars
  BY <1>6, DirectoryUnchanged
<1>7. ASSUME NEW d \in Docs, NEW s \in DocStates, Write(d, s)
      PROVE  UNCHANGED categoryVars
  BY <1>7 DEF Write, categoryVars
<1>8. ASSUME NEW d \in Docs, RejectIngredient(d) \/ IgnoreChange(d)
      PROVE  UNCHANGED categoryVars
  BY <1>8 DEF RejectIngredient, IgnoreChange, categoryVars
<1>9. ASSUME \/ CachedSnapshot \/ ServerSnapshot \/ ListenError
             \/ reloadData \/ LayOut \/ UNCHANGED vars
      PROVE  UNCHANGED categoryVars
  BY <1>9 DEF CachedSnapshot, ServerSnapshot, ListenError, reloadData, LayOut,
              vars, categoryVars
<1> QED
  BY <1>1, <1>3, <1>4, <1>5, <1>6, <1>7, <1>8, <1>9
     DEF Next, handleDocumentChange, AnswerRead

(* Every behaviour of the data source is one of the section directory: at  *)
(* most one request per sub-category and launch, each answered by opening  *)
(* one section or losing it.                                               *)
THEOREM FeedImplementsDirectory == Spec => ImplementsDirectory
<1>1. Init => TypeOK /\ Ledger /\ Directory!Init
  BY TypeInit, LedgerInit, DirectoryInit
<1>2. TypeOK /\ Ledger /\ [Next]_vars => TypeOK' /\ Ledger'
  BY TypeStep, LedgerStep
<1>3. TypeOK /\ Ledger /\ [Next]_vars => [Directory!Next]_(Directory!vars)
  BY DirectoryStep
<1> QED
  BY <1>1, <1>2, <1>3, PTL DEF Spec, ImplementsDirectory, Directory!Spec

-----------------------------------------------------------------------------
(* The list against the snapshots.                                         *)

(* Where a document is listed after one more entry.                        *)
LEMMA ListedAppend ==
  ASSUME NEW e \in Entries, NEW d, ingredients \in Seq(Entries),
         ingredients' = Append(ingredients, e)
  PROVE  /\ Listed(d)' = IF e.doc = d THEN Listed(d) \cup {Len(ingredients) + 1}
                         ELSE Listed(d)
         /\ \A i \in Listed(d) : ingredients'[i] = ingredients[i]
         /\ ingredients'[Len(ingredients) + 1] = e
<1>1. /\ DOMAIN ingredients = 1..Len(ingredients)
      /\ DOMAIN ingredients' = 1..(Len(ingredients) + 1)
      /\ \A i \in 1..Len(ingredients) : ingredients'[i] = ingredients[i]
      /\ ingredients'[Len(ingredients) + 1] = e
  OBVIOUS
<1> QED
  BY <1>1 DEF Listed

LEMMA FaithfulInit == Init => FaithfulUnlessTouched
  BY ContentsOK DEF Init, FaithfulUnlessTouched, Listed, NoDocs

LEMMA FaithfulUnchanged ==
  ASSUME FaithfulUnlessTouched, UNCHANGED <<view, ingredients, touched>>
  PROVE  FaithfulUnlessTouched'
  BY DEF FaithfulUnlessTouched, Listed

LEMMA FaithfulStep ==
  TypeOK /\ FaithfulUnlessTouched /\ [Next]_vars => FaithfulUnlessTouched'
<1> SUFFICES ASSUME TypeOK, FaithfulUnlessTouched, [Next]_vars
             PROVE  FaithfulUnlessTouched'
  OBVIOUS
<1>1. ASSUME NEW d \in Docs, NEW s \in DocStates, Write(d, s)
      PROVE  FaithfulUnlessTouched'
  BY <1>1, FaithfulUnchanged DEF Write, listenerVars, historyVars
<1>2. CASE CachedSnapshot \/ ServerSnapshot \/ ListenError
  BY <1>2, FaithfulUnchanged
     DEF CachedSnapshot, ServerSnapshot, ListenError, historyVars
<1>3. ASSUME NEW d \in Docs, insertNewIngredient(d)
      PROVE  FaithfulUnlessTouched'
  <2>1. /\ view' = [view EXCEPT ![d] = snap[d]]
        /\ snap[d] \in Contents
        /\ view \in [Docs -> DocStates]
        /\ ingredients' = Append(ingredients, Entry(d, snap[d]))
        /\ touched' = touched
        /\ ingredients \in Seq(Entries)
    BY <1>3 DEF insertNewIngredient, Handled, TypeOK, historyVars
  <2>2. view[d] = Absent
    BY <1>3 DEF insertNewIngredient, ChangeType
  <2>3. Entry(d, snap[d]) \in Entries /\ Entry(d, snap[d]).doc = d
        /\ Entry(d, snap[d]).content = snap[d]
    BY <2>1 DEF Entry, Entries
  <2> SUFFICES ASSUME NEW e \in Docs \ touched
               PROVE  IF view'[e] \in Contents
                      THEN \E i \in DOMAIN ingredients' :
                             Listed(e)' = {i} /\ ingredients'[i].content = view'[e]
                      ELSE Listed(e)' = {}
    BY <2>1 DEF FaithfulUnlessTouched
  <2>4. IF view[e] \in Contents
        THEN \E i \in DOMAIN ingredients :
               Listed(e) = {i} /\ ingredients[i].content = view[e]
        ELSE Listed(e) = {}
    BY DEF FaithfulUnlessTouched
  <2>5. DOMAIN ingredients = 1..Len(ingredients)
        /\ DOMAIN ingredients' = 1..(Len(ingredients) + 1)
    BY <2>1, <2>3
  <2>6. CASE e = d
    <3>1. Listed(d) = {}
      BY <2>2, <2>4, <2>6, ContentsOK
    <3>2. /\ Listed(d)' = {Len(ingredients) + 1}
          /\ ingredients'[Len(ingredients) + 1].content = snap[d]
      BY <2>1, <2>3, <3>1, ListedAppend
    <3> QED
      BY <2>1, <2>5, <2>6, <3>2
  <2>7. CASE e # d
    <3>1. Listed(e)' = Listed(e) /\ \A i \in Listed(e) : ingredients'[i] = ingredients[i]
      BY <2>1, <2>3, <2>7, ListedAppend
    <3>2. view'[e] = view[e]
      BY <2>1, <2>7
    <3> QED
      BY <2>4, <2>5, <3>1, <3>2
  <2> QED
    BY <2>6, <2>7
<1>4. ASSUME NEW d \in Docs, RejectIngredient(d)
      PROVE  FaithfulUnlessTouched'
  <2>1. /\ view' = [view EXCEPT ![d] = Undecodable]
        /\ view \in [Docs -> DocStates]
        /\ UNCHANGED <<ingredients, touched>>
        /\ view[d] = Absent
    BY <1>4 DEF RejectIngredient, Handled, TypeOK, historyVars, ChangeType
  <2> QED
    BY <2>1, ContentsOK DEF FaithfulUnlessTouched, Listed
<1>5. ASSUME NEW d \in Docs, IgnoreChange(d)
      PROVE  FaithfulUnlessTouched'
  <2>1. /\ view' = [view EXCEPT ![d] = snap[d]]
        /\ view \in [Docs -> DocStates]
        /\ ingredients' = ingredients
        /\ touched' = touched \cup {d}
    BY <1>5 DEF IgnoreChange, Handled, TypeOK
  <2>2. \A e \in Docs \ touched' : e \in Docs \ touched /\ view'[e] = view[e]
    BY <2>1
  <2> QED
    BY <2>1, <2>2 DEF FaithfulUnlessTouched, Listed
<1>6. ASSUME NEW c \in Cats, AnswerRead(c) PROVE FaithfulUnlessTouched'
  BY <1>6, FaithfulUnchanged
     DEF AnswerRead, OpenSection, UnnamedSection, SectionNotFound,
         listenerVars, historyVars
<1>7. CASE reloadData \/ LayOut
  BY <1>7, FaithfulUnchanged DEF reloadData, LayOut, listenerVars, historyVars
<1>8. CASE Relaunch
  BY <1>8, ContentsOK DEF Relaunch, FaithfulUnlessTouched, Listed, NoDocs
<1>9. CASE UNCHANGED vars
  BY <1>9, FaithfulUnchanged DEF vars, listenerVars, historyVars
<1> QED
  BY <1>1, <1>2, <1>3, <1>4, <1>5, <1>6, <1>7, <1>8, <1>9
     DEF Next, handleDocumentChange

(* What the screen holds of a document is what was last delivered, unless  *)
(* a change of that document was delivered, and dropped, in this launch.   *)
THEOREM StalenessConfined == Spec => []FaithfulUnlessTouched
<1>1. Init => TypeOK /\ FaithfulUnlessTouched
  BY TypeInit, FaithfulInit
<1>2. TypeOK /\ FaithfulUnlessTouched /\ [Next]_vars => TypeOK' /\ FaithfulUnlessTouched'
  BY TypeStep, FaithfulStep
<1> QED
  BY <1>1, <1>2, PTL DEF Spec

-----------------------------------------------------------------------------
(* A document that is never deleted does not disappear downstream either,  *)
(* so it is added, and listed, at most once.                               *)

Present(d) ==
  /\ cache[d] # Absent => store[d] # Absent
  /\ snap[d] # Absent => cache[d] # Absent
  /\ view[d] # Absent => snap[d] # Absent

ListedOnce(d) ==
  /\ view[d] = Absent => Listed(d) = {}
  /\ \A i, j \in Listed(d) : i = j

StaysPresent == \A d \in Docs \ Removable : Present(d) /\ ListedOnce(d)

LEMMA PresentInit == Init => StaysPresent
  BY DEF Init, StaysPresent, Present, ListedOnce, Listed, NoDocs

LEMMA PresentUnchanged ==
  ASSUME StaysPresent, UNCHANGED <<store, cache, snap, view, ingredients>>
  PROVE  StaysPresent'
  BY DEF StaysPresent, Present, ListedOnce, Listed

LEMMA PresentStep == TypeOK /\ StaysPresent /\ [Next]_vars => StaysPresent'
<1> SUFFICES ASSUME TypeOK, StaysPresent, [Next]_vars PROVE StaysPresent'
  OBVIOUS
<1>1. ASSUME NEW d \in Docs, NEW s \in DocStates, Write(d, s)
      PROVE  StaysPresent'
  <2>1. /\ store' = [store EXCEPT ![d] = s]
        /\ store \in [Docs -> DocStates]
        /\ s = Absent => d \in Removable
        /\ UNCHANGED <<cache, snap, view, ingredients>>
    BY <1>1 DEF Write, listenerVars, TypeOK
  <2>2. \A e \in Docs \ Removable : store[e] # Absent => store'[e] # Absent
    BY <2>1
  <2> QED
    BY <2>1, <2>2 DEF StaysPresent, Present, ListedOnce, Listed
<1>2. CASE CachedSnapshot
  <2>1. /\ snap' = cache
        /\ snap = NoDocs
        /\ \A d \in Docs : view[d] = snap[d]
        /\ UNCHANGED <<store, cache, view, ingredients>>
    BY <1>2 DEF CachedSnapshot, backendVars, Idle, Pending
  <2>2. \A d \in Docs : view[d] = Absent
    BY <2>1 DEF NoDocs
  <2> QED
    BY <2>1, <2>2 DEF StaysPresent, Present, ListedOnce, Listed
<1>3. CASE ServerSnapshot
  <2>1. /\ snap' = store /\ cache' = store
        /\ UNCHANGED <<store, view, ingredients>>
    BY <1>3 DEF ServerSnapshot, backendVars
  <2> QED
    BY <2>1 DEF StaysPresent, Present, ListedOnce, Listed
<1>4. ASSUME NEW d \in Docs, insertNewIngredient(d) PROVE StaysPresent'
  <2>1. /\ view' = [view EXCEPT ![d] = snap[d]]
        /\ snap[d] \in Contents /\ snap[d] # Absent
        /\ view \in [Docs -> DocStates]
        /\ ingredients' = Append(ingredients, Entry(d, snap[d]))
        /\ ingredients \in Seq(Entries)
        /\ UNCHANGED <<store, cache, snap>>
    BY <1>4, ContentsOK DEF insertNewIngredient, Handled, TypeOK, backendVars
  <2>2. view[d] = Absent
    BY <1>4 DEF insertNewIngredient, ChangeType
  <2>3. Entry(d, snap[d]) \in Entries /\ Entry(d, snap[d]).doc = d
    BY <2>1 DEF Entry, Entries
  <2>4. ASSUME NEW e \in Docs \ Removable
        PROVE  Present(e)' /\ ListedOnce(e)'
    <3>1. Present(e) /\ ListedOnce(e)
      BY DEF StaysPresent
    <3>2. CASE e = d
      <4>1. Listed(d) = {}
        BY <2>2, <3>1, <3>2 DEF ListedOnce
      <4>2. Listed(d)' = {Len(ingredients) + 1}
        BY <2>1, <2>3, <4>1, ListedAppend
      <4>3. view'[d] = snap[d]
        BY <2>1
      <4> QED
        BY <2>1, <3>1, <3>2, <4>2, <4>3 DEF Present, ListedOnce
    <3>3. CASE e # d
      <4>1. Listed(e)' = Listed(e)
        BY <2>1, <2>3, <3>3, ListedAppend
      <4>2. view'[e] = view[e]
        BY <2>1, <3>3
      <4> QED
        BY <2>1, <3>1, <4>1, <4>2 DEF Present, ListedOnce
    <3> QED
      BY <3>2, <3>3
  <2> QED
    BY <2>4 DEF StaysPresent
<1>5. ASSUME NEW d \in Docs, RejectIngredient(d) \/ IgnoreChange(d)
      PROVE  StaysPresent'
  <2>1. /\ view' = [view EXCEPT ![d] = snap[d]]
        /\ view \in [Docs -> DocStates]
        /\ UNCHANGED <<store, cache, snap, ingredients>>
    BY <1>5 DEF RejectIngredient, IgnoreChange, Handled, TypeOK, backendVars
  <2>2. ASSUME NEW e \in Docs \ Removable
        PROVE  Present(e)' /\ ListedOnce(e)'
    <3>1. Present(e) /\ ListedOnce(e) /\ Listed(e)' = Listed(e)
      BY <2>1 DEF StaysPresent, Listed
    <3>2. view'[e] = IF e = d THEN snap[e] ELSE view[e]
      BY <2>1
    <3>3. view'[e] = Absent => view[e] = Absent
      BY <3>1, <3>2 DEF Present
    <3> QED
      BY <2>1, <3>1, <3>2, <3>3 DEF Present, ListedOnce
  <2> QED
    BY <2>2 DEF StaysPresent
<1>6. ASSUME NEW c \in Cats, AnswerRead(c) PROVE StaysPresent'
  BY <1>6, PresentUnchanged
     DEF AnswerRead, OpenSection, UnnamedSection, SectionNotFound,
         backendVars, listenerVars
<1>7. CASE ListenError \/ reloadData \/ LayOut
  BY <1>7, PresentUnchanged
     DEF ListenError, reloadData, LayOut, backendVars, listenerVars
<1>8. CASE Relaunch
  BY <1>8 DEF Relaunch, StaysPresent, Present, ListedOnce, Listed, NoDocs, backendVars
<1>9. CASE UNCHANGED vars
  BY <1>9, PresentUnchanged DEF vars, backendVars, listenerVars
<1> QED
  BY <1>1, <1>2, <1>3, <1>4, <1>5, <1>6, <1>7, <1>8, <1>9
     DEF Next, handleDocumentChange

(* An ingredient that no one deletes is never shown twice.                 *)
THEOREM NoDuplicates == Spec => []NoDuplicateWithoutRemoval
<1>1. Init => TypeOK /\ StaysPresent
  BY TypeInit, PresentInit
<1>2. TypeOK /\ StaysPresent /\ [Next]_vars => TypeOK' /\ StaysPresent'
  BY TypeStep, PresentStep
<1>3. StaysPresent => NoDuplicateWithoutRemoval
  BY DEF StaysPresent, ListedOnce, NoDuplicateWithoutRemoval
<1> QED
  BY <1>1, <1>2, <1>3, PTL DEF Spec

-----------------------------------------------------------------------------
(* The screen.                                                             *)

LEMMA ScreenStepIsFeedStep == [ScreenNext]_allVars => [Next]_vars
<1> SUFFICES ASSUME [ScreenNext]_allVars PROVE [Next]_vars
  OBVIOUS
<1>1. CASE FeedStep
  BY <1>1 DEF FeedStep, Next
<1>2. CASE LayOutScreen
  BY <1>2 DEF LayOutScreen, Next
<1>3. CASE RelaunchScreen
  BY <1>3 DEF RelaunchScreen, Next
<1>4. ASSUME NEW row \in MonthRows, didSelectMonth(row) PROVE [Next]_vars
  BY <1>4 DEF didSelectMonth, Next
<1>5. ASSUME NEW p \in Prefectures, didSelectPrefecture(p) PROVE [Next]_vars
  BY <1>5 DEF didSelectPrefecture, Next
<1>6. ASSUME NEW i, seeAllButtonTapped(i) PROVE [Next]_vars
  BY <1>6 DEF seeAllButtonTapped, Push
<1>7. ASSUME NEW i, NEW row, didSelectItem(i, row) PROVE [Next]_vars
  BY <1>7 DEF didSelectItem, Push
<1>8. ASSUME NEW row, didSelectListItem(row) PROVE [Next]_vars
  BY <1>8 DEF didSelectListItem, Push
<1>9. CASE Back
  BY <1>9 DEF Back
<1>10. CASE UNCHANGED allVars
  BY <1>10 DEF allVars
<1> QED
  BY <1>1, <1>2, <1>3, <1>4, <1>5, <1>6, <1>7, <1>8, <1>9, <1>10 DEF ScreenNext

(* Whatever the user does, the data source behaves as HomeFeed says.       *)
THEOREM ScreenImplementsFeed == ScreenSpec => ImplementsFeed
<1>1. ScreenInit => Init
  BY DEF ScreenInit
<1> QED
  BY <1>1, ScreenStepIsFeedStep, PTL DEF ScreenSpec, Spec, ImplementsFeed

-----------------------------------------------------------------------------
(* All that a layout is computed from.                                     *)
layoutInputs == <<ingredients, ingredientSections, filterVars>>

LEMMA LayoutUnchanged ==
  ASSUME UNCHANGED layoutInputs
  PROVE  FreshLayout' = FreshLayout
  BY DEF layoutInputs, filterVars, FreshLayout

(* A step of the data source that changes the data asks for a reload.      *)
LEMMA DataChangeReloads ==
  FeedStep => needsReload' = TRUE \/ UNCHANGED <<layoutInputs, needsReload, laidOut>>
<1> SUFFICES ASSUME FeedStep
             PROVE  needsReload' = TRUE \/ UNCHANGED <<layoutInputs, needsReload, laidOut>>
  OBVIOUS
<1> USE DEF FeedStep, screenVars, layoutInputs, categoryVars
<1>1. ASSUME NEW d \in Docs, NEW s \in DocStates, Write(d, s)
      PROVE  UNCHANGED <<layoutInputs, needsReload, laidOut>>
  BY <1>1 DEF Write
<1>2. CASE CachedSnapshot \/ ServerSnapshot \/ ListenError
  BY <1>2 DEF CachedSnapshot, ServerSnapshot, ListenError
<1>3. ASSUME NEW d \in Docs, insertNewIngredient(d) PROVE needsReload' = TRUE
  BY <1>3 DEF insertNewIngredient
<1>4. ASSUME NEW d \in Docs, RejectIngredient(d) \/ IgnoreChange(d)
      PROVE  UNCHANGED <<layoutInputs, needsReload, laidOut>>
  BY <1>4 DEF RejectIngredient, IgnoreChange
<1>5. ASSUME NEW c \in Cats, OpenSection(c) PROVE needsReload' = TRUE
  BY <1>5 DEF OpenSection
<1>6. ASSUME NEW c \in Cats, UnnamedSection(c) \/ SectionNotFound(c)
      PROVE  UNCHANGED <<layoutInputs, needsReload, laidOut>>
  BY <1>6 DEF UnnamedSection, SectionNotFound
<1> QED
  BY <1>1, <1>2, <1>3, <1>4, <1>5, <1>6 DEF handleDocumentChange, AnswerRead

LEMMA LayoutStep == LayoutFresh /\ [ScreenNext]_allVars => LayoutFresh'
<1> SUFFICES ASSUME LayoutFresh, [ScreenNext]_allVars PROVE LayoutFresh'
  OBVIOUS
<1>1. ASSUME UNCHANGED <<layoutInputs, needsReload, laidOut>> PROVE LayoutFresh'
  BY <1>1, LayoutUnchanged DEF LayoutFresh
<1>2. ASSUME needsReload' = TRUE PROVE LayoutFresh'
  BY <1>2 DEF LayoutFresh
<1>3. CASE FeedStep
  BY <1>1, <1>2, <1>3, DataChangeReloads
<1>4. CASE LayOutScreen
  <2>1. laidOut' = FreshLayout /\ UNCHANGED layoutInputs
    BY <1>4 DEF LayOutScreen, LayOut, layoutInputs, categoryVars
  <2> QED
    BY <2>1, LayoutUnchanged DEF LayoutFresh
<1>5. CASE RelaunchScreen
  BY <1>2, <1>5 DEF RelaunchScreen, Relaunch
<1>6. ASSUME NEW row \in MonthRows, didSelectMonth(row) PROVE LayoutFresh'
  BY <1>2, <1>6 DEF didSelectMonth, reloadData
<1>7. ASSUME NEW p \in Prefectures, didSelectPrefecture(p) PROVE LayoutFresh'
  BY <1>2, <1>7 DEF didSelectPrefecture, reloadData
<1>8. ASSUME UNCHANGED <<vars, filterVars, laidOut>> PROVE LayoutFresh'
  BY <1>1, <1>8 DEF vars, categoryVars, layoutInputs
<1>9. ASSUME NEW i, seeAllButtonTapped(i) PROVE LayoutFresh'
  BY <1>8, <1>9 DEF seeAllButtonTapped, Push
<1>10. ASSUME NEW i, NEW row, didSelectItem(i, row) PROVE LayoutFresh'
  BY <1>8, <1>10 DEF didSelectItem, Push
<1>11. ASSUME NEW row, didSelectListItem(row) PROVE LayoutFresh'
  BY <1>8, <1>11 DEF didSelectListItem, Push
<1>12. CASE Back
  BY <1>8, <1>12 DEF Back
<1>13. CASE UNCHANGED allVars
  BY <1>8, <1>13 DEF allVars, screenVars
<1> QED
  BY <1>3, <1>4, <1>5, <1>6, <1>7, <1>9, <1>10, <1>11, <1>12, <1>13 DEF ScreenNext

(* No tap and no cell ever reads past the data: what is laid out is what   *)
(* the data source would answer now, unless a reload is already due.       *)
THEOREM LayoutNeverStale == ScreenSpec => []LayoutFresh
<1>1. ScreenInit => LayoutFresh
  BY DEF ScreenInit, Init, LayoutFresh
<1> QED
  BY <1>1, LayoutStep, PTL DEF ScreenSpec

(* The theorems of the data source hold of the screen.                     *)
THEOREM ScreenKeepsFeedInvariants ==
  ScreenSpec => [](TypeOK /\ SectionsUnique /\ ReadLedger /\ FaithfulUnlessTouched)
<1>1. ScreenSpec => Spec
  BY ScreenImplementsFeed DEF ImplementsFeed
<1> QED
  BY <1>1, TypeCorrect, LedgerCorrect, StalenessConfined, PTL

-----------------------------------------------------------------------------
(* The first page above home can only come of a tap at home.               *)
LEMMA FirstPageIsTapped ==
  ASSUME ScreenNext, AtHome, pages' # <<>>
  PROVE  \/ \E i \in DOMAIN laidOut : seeAllButtonTapped(i)
         \/ \E i \in DOMAIN laidOut : \E row \in DOMAIN laidOut[i].items : didSelectItem(i, row)
<1>1. pages = <<>>
  BY DEF AtHome
<1>2. ~FeedStep /\ ~LayOutScreen /\ ~RelaunchScreen
  BY <1>1 DEF FeedStep, screenVars, LayOutScreen, RelaunchScreen
<1>3. ~(\E row \in MonthRows : didSelectMonth(row))
  BY <1>1 DEF didSelectMonth
<1>4. ~(\E p \in Prefectures : didSelectPrefecture(p))
  BY <1>1 DEF didSelectPrefecture
<1>5. ~Back
  BY DEF Back
<1> QED
  BY <1>2, <1>3, <1>4, <1>5 DEF ScreenNext

(* A tap at home opens the ingredient its cell shows, in every behaviour:  *)
(* the row is looked up in the data, and what is laid out is the data.     *)
THEOREM TapsOpenWhatIsShown == ScreenSpec => TapOpensWhatIsShown
<1>1. ASSUME LayoutFresh, [ScreenNext]_allVars, AtHome, pages' # <<>>, pages'[1].kind = "detail"
      PROVE  \E i \in DOMAIN laidOut : \E row \in DOMAIN laidOut[i].items :
               didSelectItem(i, row) /\ pages'[1].entry = laidOut[i].items[row]
  <2>1. pages = <<>> /\ ScreenNext
    BY <1>1 DEF AtHome, allVars, screenVars
  <2>2. ASSUME NEW i, seeAllButtonTapped(i) PROVE FALSE
    <3>1. pages' = Append(<<>>, ListPage(ingredientSections[i], ItemsOf(i)))
      BY <2>1, <2>2 DEF seeAllButtonTapped, Push
    <3>2. pages'[1] = ListPage(ingredientSections[i], ItemsOf(i))
      BY <3>1
    <3> QED
      BY <1>1, <3>2 DEF ListPage
  <2>3. PICK i \in DOMAIN laidOut : \E row \in DOMAIN laidOut[i].items : didSelectItem(i, row)
    BY <1>1, <2>1, <2>2, FirstPageIsTapped
  <2>4. PICK row \in DOMAIN laidOut[i].items : didSelectItem(i, row)
    BY <2>3
  <2>5. ~needsReload /\ pages' = Append(<<>>, DetailPage(ItemsOf(i)[row]))
    BY <2>1, <2>4 DEF didSelectItem, Tappable, Push
  <2>6. pages'[1].entry = ItemsOf(i)[row]
    <3>1. pages'[1] = DetailPage(ItemsOf(i)[row])
      BY <2>5
    <3> QED
      BY <3>1 DEF DetailPage
  <2>7. laidOut = FreshLayout
    BY <1>1, <2>5 DEF LayoutFresh
  <2>8. laidOut[i].items = FirstCells(ItemsOf(i))
    BY <2>7 DEF FreshLayout, Layout, ItemsOf
  <2>9. laidOut[i].items[row] = ItemsOf(i)[row]
    BY <2>8 DEF FirstCells
  <2> QED
    BY <2>4, <2>6, <2>9
<1>2. LayoutFresh /\ [ScreenNext]_allVars
        => [(AtHome /\ pages' # <<>> /\ pages'[1].kind = "detail") =>
              \E i \in DOMAIN laidOut : \E row \in DOMAIN laidOut[i].items :
                /\ didSelectItem(i, row)
                /\ pages'[1].entry = laidOut[i].items[row]]_allVars
  BY <1>1
<1> QED
  BY <1>2, LayoutNeverStale, PTL DEF ScreenSpec, TapOpensWhatIsShown
=============================================================================
