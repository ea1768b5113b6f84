-------------------------------- MODULE Offers --------------------------------
(***************************************************************************)
(* What the import history and the page of one import offer an             *)
(* administrator to do, computed by the pages from their own queries and   *)
(* with their own lists of statuses, next to the transactions of           *)
(* DatasetVersions that decide when the request arrives.                   *)
(*                                                                         *)
(* A request is the form a page submits.  The administrator is taken to    *)
(* hold the permissions; reasons are taken to be long enough.  publishedAt *)
(* is set by the publication that makes the statuses of                    *)
(* RestorableStatuses possible and never cleared, so the list's test of it *)
(* adds nothing.                                                           *)
(***************************************************************************)
EXTENDS DatasetVersions, FiniteSets

CONSTANT PageSizes   \* the numbers of rows per page one may choose

ASSUME PageSizesAssumption == PageSizes \subseteq Nat \ {0}
ASSUME FiniteTables == IsFiniteSet(Batches) /\ IsFiniteSet(Scopes)

-----------------------------------------------------------------------------
(* What the pages read *)

DraftStatuses == {"uploaded", "processing", "draft", "ready_to_publish"}

FailedStatuses == {"failed", "validation_failed"}

RestorableStatuses == {"deactivated", "superseded", "rolled_back"}

AnyStatus == "any status"

\* listImportHistory: the uploads a filter lets through.
Matching(status) ==
  {b \in Batches : Exists(b) /\ status \in {AnyStatus, batchStatus[b]}}

ActiveVersionCount(b) == Cardinality(ActiveScopes(b))

\* Counted by the database over all uploads.
Summary ==
  [total  |-> Cardinality(Matching(AnyStatus)),
   active |-> Cardinality({active[s] : s \in Scopes} \ {NoBatch}),
   failed |-> Cardinality({b \in Batches : batchStatus[b] \in {"failed", "validation_failed"}}),
   drafts |-> Cardinality({b \in Batches : batchStatus[b] \in
                {"uploaded", "processing", "draft", "ready_to_publish"}})]

\* The cards above the list: a figure, and what it points out when chosen.
Cards ==
  [all |-> Summary.total, active |-> Summary.active,
   failed |-> Summary.failed, drafts |-> Summary.drafts]

DisplayStatus(b) == IF ActiveVersionCount(b) > 0 THEN "active" ELSE batchStatus[b]

\* rowMatchesHighlight
Highlighted(b, highlight) ==
  \/ highlight = "all"
  \/ highlight = "active" /\ ActiveVersionCount(b) > 0
  \/ highlight = "failed" /\ batchStatus[b] \in FailedStatuses
  \/ highlight = "drafts" /\ batchStatus[b] \in DraftStatuses

\* getActiveImportLifecycleOptions: the versions of b a pointer leads to, and
\* the imports with a version that could take over the scope of one of them.
ActiveVersions(b) == {s \in ScopesOf(b) : active[s] = b}

LifecycleCandidates(s) == {c \in Batches : verStatus[c][s] \in ValidFallback}

\* Deliberately wrong: imports with a version for one of the scopes.
FallbackForSome(b) ==
  {c \in Batches \ {b} : \E s \in ActiveVersions(b) : c \in LifecycleCandidates(s)}

FallbackOptions(b) ==
  {c \in Batches \ {b} :
     /\ ActiveVersions(b) # {}
     /\ \A s \in ActiveVersions(b) : c \in LifecycleCandidates(s)}

\* Per scope, the candidate with the highest number below the active one.
AutomaticFallbacks(b, s) ==
  {c \in LifecycleCandidates(s) \ {b} :
     /\ verNumber[c][s] < verNumber[b][s]
     /\ ~\E d \in LifecycleCandidates(s) \ {b} :
          verNumber[c][s] < verNumber[d][s] /\ verNumber[d][s] < verNumber[b][s]}

PreviousAvailable(b) ==
  /\ ActiveVersions(b) # {}
  /\ \A s \in ActiveVersions(b) : AutomaticFallbacks(b, s) # {}

\* getImportDetails
DetailVersions(b) ==
  [s \in ScopesOf(b) |-> [status |-> verStatus[b][s], isActive |-> active[s] = b]]

\* readDeletionFacts, evaluateImportDeletion
DeletionAssessment(b) ==
  [allowed |-> MayDelete(b), requiresActiveResolution |-> ActiveVersionCount(b) > 0]

-----------------------------------------------------------------------------
(* The forms *)

\* The confirmations a deletion is sent with.
DeleteActive == "DELETE ACTIVE IMPORT"
DeleteInactive == "DELETE IMPORT"

Plain(action) == [action |-> action, mode |-> "", fallback |-> NoBatch]

Deactivation(mode, fallback) ==
  [action |-> "deactivate", mode |-> mode, fallback |-> fallback]

\* ResolutionFields: the list of imports is sent only with the mode "selected",
\* and then one of them has to be chosen.
ResolutionForms(b) ==
  {Deactivation("none", NoBatch)}
  \cup (IF PreviousAvailable(b) THEN {Deactivation("previous", NoBatch)} ELSE {})
  \cup {Deactivation("selected", c) : c \in FallbackOptions(b)}

DeletionForms(b) ==
  LET assessment == DeletionAssessment(b)
  IN  IF ~assessment.allowed THEN {}
      ELSE IF assessment.requiresActiveResolution THEN {Plain(DeleteActive)}
      ELSE {Plain(DeleteInactive)}

Requests ==
  {Plain("restore"), Plain("rollback"),
   Plain(DeleteActive), Plain(DeleteInactive),
   Deactivation("none", NoBatch), Deactivation("previous", NoBatch)}
  \cup {Deactivation("selected", c) : c \in Batches}

CanRestore(b) == ActiveVersionCount(b) = 0 /\ batchStatus[b] \in RestorableStatuses

\* The menu of a row of the history: it opens the drawer for an action.
MenuIntents(b) ==
  (IF CanRestore(b) THEN {"restore"} ELSE {})
  \cup (IF ActiveVersionCount(b) > 0 THEN {"deactivate"} ELSE {})
  \cup (IF DeletionAssessment(b).allowed THEN {"delete"} ELSE {})

\* The list reads the options only of the imports it shows as active.
HasLifecycle(b) == ActiveVersionCount(b) > 0

\* The forms in the drawer of a row.
HistoryOffers(b) ==
  (IF CanRestore(b) THEN {Plain("restore")} ELSE {})
  \cup (IF HasLifecycle(b) THEN ResolutionForms(b) ELSE {})
  \cup DeletionForms(b)

FullyActive(b) ==
  LET versions == DetailVersions(b)
  IN  DOMAIN versions # {} /\ \A s \in DOMAIN versions : versions[s].isActive

\* isRestorable
AllRestorable(b) ==
  LET versions == DetailVersions(b)
  IN  /\ DOMAIN versions # {}
      /\ \A s \in DOMAIN versions :
           versions[s].status \in {"active", "deactivated", "superseded", "rolled_back"}

\* The forms on the page of one import.
DetailOffers(b) ==
  (IF FullyActive(b) THEN ResolutionForms(b) \cup {Plain("rollback")}
   ELSE IF AllRestorable(b) THEN {Plain("restore")}
   ELSE {})
  \cup DeletionForms(b)

-----------------------------------------------------------------------------
(* What the transactions accept, when nothing changed in between *)

FirstVersion(b) == \E s \in ScopesOf(b) : verPrev[b][s] = NoBatch

\* selectReplacementVersions, for the resolution read from the form.
Replacements(b, r) ==
  IF r.mode = "none" THEN NoReplacement(b)
  ELSE IF r.mode = "previous" THEN PreviousReplacement(b)
  ELSE {t \in SelectedReplacement(b) : \A s \in ActiveScopes(b) : t[s] = r.fallback}

Accepts(b, r) ==
  \/ r.action = "restore" /\ ScopesOf(b) \ ActiveScopes(b) # {} /\ Restorable(b)
  \/ /\ r.action = "rollback"
     /\ ScopesOf(b) # {} /\ ScopesOf(b) \subseteq ActiveScopes(b)
     /\ ~FirstVersion(b)
  \/ r.action = "deactivate" /\ ActiveScopes(b) # {} /\ Replacements(b, r) # {}
  \/ r.action = DeleteActive /\ MayDelete(b) /\ ActiveScopes(b) # {}
  \/ r.action = DeleteInactive /\ MayDelete(b) /\ ActiveScopes(b) = {}

-----------------------------------------------------------------------------
(* The pages of the list, n rows long *)

LastPage(n, size) == IF n = 0 THEN 1 ELSE (n + size - 1) \div size

\* limit and offset of the query
RowsOn(n, size, page) == {i \in 1..n : (page - 1) * size < i /\ i <= page * size}

\* "Showing ... to ... of n imports"
Showing(n, size, page) ==
  (IF n = 0 THEN 0 ELSE (page - 1) * size + 1)..(IF n < page * size THEN n ELSE page * size)

PageLinks(n, size, page) ==
  {1, LastPage(n, size), page - 1, page, page + 1} \cap 1..LastPage(n, size)

\* Deliberately wrong: the page one was on before the deletion.
SamePage(n, size, page) == page

\* deleteImportAction: the page to return to.
PageAfterDeletion(n, size, page) ==
  IF page > LastPage(n, size) THEN LastPage(n, size) ELSE page

-----------------------------------------------------------------------------
(* Properties *)

\* The two pages and the transactions decide by different queries over
\* versions, pointers and statuses.  For every history of an upload the two
\* pages together offer exactly what would be done if nothing changed before
\* the request: nothing that would be refused, and nothing that would be done
\* is out of reach.  The one exception is the undo of a first version, which
\* the page offers and rollback refuses.  Unless an import is active in some of
\* its scopes only, the list offers nothing the page of the import does not, and
\* an action chosen in the menu of a row has its form in the drawer.
OffersAreAccepted ==
  \A b \in {c \in Batches : Exists(c)} :
    LET accepted == {r \in Requests : Accepts(b, r)}
        refusedUndo == {r \in {Plain("rollback")} : FullyActive(b) /\ FirstVersion(b)}
    IN  /\ HistoryOffers(b) \cup DetailOffers(b) = accepted \cup refusedUndo
        /\ ActiveVersionCount(b) = 0 => HistoryOffers(b) \subseteq DetailOffers(b)
        /\ \A intent \in MenuIntents(b) : \E r \in HistoryOffers(b) :
             r.action = intent \/ (intent = "delete" /\ r.action \in {DeleteActive, DeleteInactive})

\* The pages of a list of n rows show each row exactly once, as announced; each
\* page is linked from itself and from the one before it; and the page one
\* comes back to after a deletion is not empty while any row is left.
PagesTile ==
  \A n \in 0..Cardinality(Batches), size \in PageSizes :
    /\ \A i \in 1..n : \E page \in 1..LastPage(n, size) :
         \A p \in 1..LastPage(n, size) : i \in RowsOn(n, size, p) <=> p = page
    /\ \A page \in 1..LastPage(n, size) :
         /\ n > 0 => RowsOn(n, size, page) = Showing(n, size, page)
         /\ {page, page + 1} \cap 1..LastPage(n, size) \subseteq PageLinks(n, size, page)
         /\ n > 1 => RowsOn(n - 1, size, PageAfterDeletion(n - 1, size, page)) # {}

\* The list never misleads: what it is filtered by, the figures above it and
\* its pages say the same as its rows.  An import filtered as "active" powers a
\* dashboard, and each figure counts the rows it points out.
HistoryAddsUp ==
  /\ PagesTile
  /\ \A b \in Matching("active") : DisplayStatus(b) = "active"
  /\ \A h \in DOMAIN Cards :
       Cards[h] = Cardinality({b \in Matching(AnyStatus) : Highlighted(b, h)})

=============================================================================
