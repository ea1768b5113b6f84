----------------------------- MODULE OffersProofs -----------------------------
(***************************************************************************)
(* What the pages about imports offer is what the transactions accept, and *)
(* what the history shows adds up, for any number of uploads, scopes and   *)
(* rows per page.                                                          *)
(*                                                                         *)
(* The pages and the transactions decide by different columns: the list    *)
(* offers a restoration by the status of the upload, the page of an import *)
(* by the statuses of its versions, the transaction by both versions and   *)
(* pointers.  OffersInv says what makes these agree, whoever wrote which   *)
(* of them last.                                                           *)
(***************************************************************************)
EXTENDS Offers, DatasetVersionsProofs, FiniteSetTheorems, Integers

\* A rejection is of a whole file.
RejectedTogether ==
  \A b \in Batches :
    \/ \A s \in ScopesOf(b) : verStatus[b][s] = "rejected"
    \/ \A s \in ScopesOf(b) : verStatus[b][s] # "rejected"

\* An upload that was taken out of the dashboards has versions to put back.
RetiredWereShown ==
  \A b \in Batches : batchStatus[b] \in RestorableStatuses =>
    /\ ScopesOf(b) # {}
    /\ \A s \in ScopesOf(b) : verStatus[b][s] \in Published

\* An upload that says "active" powers a dashboard.
ActiveIsShown ==
  \A b \in Batches : batchStatus[b] = "active" => ActiveScopes(b) # {}

OffersInv ==
  /\ CatalogInv
  /\ VersionsOwned
  /\ RejectedTogether
  /\ RetiredWereShown
  /\ ActiveIsShown

USE DEF Published, ValidFallback, VersionStates, BatchStates, Processable, Reprocessable,
        RestorableStatuses

-----------------------------------------------------------------------------
(* The invariant, step by step *)

\* A version changes its status only from one that was or can be shown to one
\* that was.
ShownOrSame(c) ==
  \A s \in Scopes :
    \/ verStatus'[c][s] = verStatus[c][s]
    \/ verStatus[c][s] \notin {"none", "rejected"} /\ verStatus'[c][s] \in Published

\* What is needed of the status of an upload when pointers move.
StatusFollows(c) ==
  /\ batchStatus'[c] = "active" =>
       \/ ActiveScopes(c)' # {}
       \/ batchStatus[c] = "active" /\ ActiveScopes(c) \subseteq ActiveScopes(c)'
  /\ batchStatus'[c] \in RestorableStatuses =>
       batchStatus[c] \in RestorableStatuses \/ ActiveScopes(c) # {}

\* The versions of an upload that is shown in some scope were all published.
LEMMA ShownWerePublished ==
  ASSUME OffersInv, NEW b \in Batches, ActiveScopes(b) # {}
  PROVE  ScopesOf(b) # {} /\ \A s \in ScopesOf(b) : verStatus[b][s] \in Published
<1>1. PICK s \in Scopes : active[s] = b
  BY DEF ActiveScopes
<1>2. verStatus[b][s] = "active" /\ s \in ScopesOf(b)
  BY <1>1 DEF OffersInv, CatalogInv, PointerConsistent, ScopesOf
<1>3. \A r \in ScopesOf(b) : verStatus[b][r] \notin {"draft", "rejected", "none"}
  BY <1>2 DEF OffersInv, CatalogInv, DraftsTogether, RejectedTogether, ScopesOf
<1>. QED  BY <1>2, <1>3 DEF OffersInv, CatalogInv, TypeOK, ScopesOf

\* Steps that change versions and statuses of each upload like this keep the
\* invariant.
LEMMA FollowingInv ==
  ASSUME OffersInv, CatalogInv', VersionsOwned',
         \A c \in Batches : ShownOrSame(c),
         \A c \in Batches : StatusFollows(c)
  PROVE  OffersInv'
<1>1. \A c \in Batches : ScopesOf(c)' = ScopesOf(c)
  BY DEF ShownOrSame, ScopesOf
<1>2. RejectedTogether'
  BY <1>1 DEF OffersInv, RejectedTogether, ShownOrSame, ScopesOf
<1>3. RetiredWereShown'
  <2>. SUFFICES ASSUME NEW c \in Batches, batchStatus'[c] \in RestorableStatuses
                PROVE  /\ ScopesOf(c) # {}
                       /\ \A s \in ScopesOf(c) : verStatus'[c][s] \in Published
    BY <1>1 DEF RetiredWereShown
  <2>1. ScopesOf(c) # {} /\ \A s \in ScopesOf(c) : verStatus[c][s] \in Published
    BY ShownWerePublished DEF StatusFollows, OffersInv, RetiredWereShown
  <2>. QED  BY <2>1 DEF ShownOrSame, ScopesOf
<1>4. ActiveIsShown'
  BY DEF OffersInv, ActiveIsShown, StatusFollows
<1>. QED  BY <1>2, <1>3, <1>4 DEF OffersInv

\* What a move of pointers to versions that are not rejected makes of versions.
LEMMA MovedVersions ==
  ASSUME CatalogInv, NEW S \in SUBSET Scopes, NEW t, NEW o \in ValidFallback,
         \A s \in S : t[s] \in Batches => verStatus[t[s]][s] \notin {"none", "rejected"},
         NEW c \in Batches, NEW s \in Scopes
  PROVE  \/ StatusesAfter(S, t, o)[c][s] = verStatus[c][s]
         \/ /\ verStatus[c][s] \notin {"none", "rejected"}
            /\ StatusesAfter(S, t, o)[c][s] \in Published
<1>1. active[s] = c => verStatus[c][s] = "active"
  BY DEF CatalogInv, PointerConsistent
<1>. QED  BY <1>1, StatusesAfterAt

\* Publication: drafts become visible, what they replace is superseded.
LEMMA PublishOffers ==
  ASSUME OffersInv, NEW b \in Batches, Publish(b)
  PROVE  \A c \in Batches : ShownOrSame(c) /\ StatusFollows(c)
<1>. DEFINE S == ScopesOf(b)
            t == [s \in S |-> b]
<1>1. /\ S \in SUBSET Scopes /\ S # {}
      /\ \A s \in S : t[s] \in Batches => verStatus[t[s]][s] \notin {"none", "rejected"}
  BY DEF Publish, ScopesOf, OffersInv, CatalogInv, DraftsTogether
<1>2. active' = PointersAfter(S, t) /\ verStatus' = StatusesAfter(S, t, "superseded")
  BY DEF Publish
<1>3. \A s \in Scopes : active'[s] = IF s \in S THEN b ELSE active[s]
  BY <1>2, PointersAfterAt
<1>4. \A c \in Batches : StatusFollows(c)
  <2>. SUFFICES ASSUME NEW c \in Batches PROVE StatusFollows(c)
    OBVIOUS
  <2>1. CASE c = b
    <3>1. ActiveScopes(b)' # {}
      BY <1>1, <1>3 DEF ActiveScopes
    <3>. QED  BY <2>1, <3>1 DEF Publish, StatusFollows
  <2>2. CASE c # b /\ \E s \in S : active[s] = c
    <3>1. batchStatus'[c] = IF \E s \in Scopes : active'[s] = c THEN "active" ELSE "superseded"
      BY <2>2 DEF Publish, Visibility
    <3>. QED  BY <2>2, <3>1, <1>1 DEF StatusFollows, ActiveScopes
  <2>3. CASE c # b /\ ~\E s \in S : active[s] = c
    <3>1. batchStatus'[c] = batchStatus[c]
      BY <2>3 DEF Publish
    <3>. QED  BY <2>3, <3>1, <1>3 DEF StatusFollows, ActiveScopes
  <2>. QED  BY <2>1, <2>2, <2>3
<1>. HIDE DEF S, t
<1>5. \A c \in Batches : ShownOrSame(c)
  BY <1>1, <1>2, MovedVersions DEF ShownOrSame, OffersInv
<1>. QED  BY <1>4, <1>5

\* A rollback shows the predecessors again.
LEMMA RollbackOffers ==
  ASSUME OffersInv, NEW b \in Batches, Rollback(b)
  PROVE  \A c \in Batches : ShownOrSame(c) /\ StatusFollows(c)
<1>. DEFINE S == ScopesOf(b)
            t == [s \in S |-> verPrev[b][s]]
<1>1. /\ S \in SUBSET Scopes
      /\ \A s \in S : active[s] = b
      /\ \E s \in S : active[s] = b
  BY DEF Rollback, ScopesOf
<1>2. \A s \in S : t[s] \in Batches => verStatus[t[s]][s] \notin {"none", "rejected"}
  BY DEF Rollback, ScopesOf, OffersInv, CatalogInv, RollbackChainSound
<1>3. active' = PointersAfter(S, t) /\ verStatus' = StatusesAfter(S, t, "rolled_back")
  BY DEF Rollback
<1>4. \A s \in Scopes : active'[s] = IF s \in S THEN t[s] ELSE active[s]
  BY <1>3, PointersAfterAt
<1>5. \A c \in Batches : StatusFollows(c)
  <2>. SUFFICES ASSUME NEW c \in Batches PROVE StatusFollows(c)
    OBVIOUS
  <2>1. CASE c = b
    BY <2>1, <1>1 DEF Rollback, StatusFollows, ActiveScopes
  <2>2. CASE c # b /\ \E s \in S : t[s] = c
    <3>1. ActiveScopes(c)' # {}
      BY <2>2, <1>1, <1>4 DEF ActiveScopes
    <3>2. batchStatus'[c] = "active"
      BY <2>2, <3>1 DEF Rollback, Visibility, ActiveScopes
    <3>. QED  BY <3>1, <3>2 DEF StatusFollows
  <2>3. CASE c # b /\ ~\E s \in S : t[s] = c
    <3>1. batchStatus'[c] = batchStatus[c]
      BY <2>3 DEF Rollback
    <3>. QED  BY <2>3, <3>1, <1>1, <1>4 DEF StatusFollows, ActiveScopes
  <2>. QED  BY <2>1, <2>2, <2>3
<1>. HIDE DEF S, t
<1>6. \A c \in Batches : ShownOrSame(c)
  BY <1>1, <1>2, <1>3, MovedVersions DEF ShownOrSame, OffersInv
<1>. QED  BY <1>5, <1>6

\* A restoration shows the versions of the upload that are not rejected.
LEMMA RestoreOffers ==
  ASSUME OffersInv, NEW b \in Batches, Restore(b)
  PROVE  \A c \in Batches : ShownOrSame(c) /\ StatusFollows(c)
<1>. DEFINE S == ScopesOf(b) \ ActiveScopes(b)
            t == [s \in S |-> b]
<1>1. /\ S \in SUBSET Scopes /\ S # {}
      /\ \A s \in S : t[s] \in Batches => verStatus[t[s]][s] \notin {"none", "rejected"}
  BY DEF Restore, Restorable, ScopesOf
<1>2. active' = PointersAfter(S, t) /\ verStatus' = StatusesAfter(S, t, "rolled_back")
  BY DEF Restore
<1>3. \A s \in Scopes : active'[s] = IF s \in S THEN b ELSE active[s]
  BY <1>2, PointersAfterAt
<1>4. \A c \in Batches : StatusFollows(c)
  <2>. SUFFICES ASSUME NEW c \in Batches PROVE StatusFollows(c)
    OBVIOUS
  <2>1. CASE c = b
    <3>1. ActiveScopes(b)' # {}
      BY <1>1, <1>3 DEF ActiveScopes
    <3>2. batchStatus'[b] = "active"
      BY <3>1 DEF Restore, Visibility, ActiveScopes
    <3>. QED  BY <2>1, <3>1, <3>2 DEF StatusFollows
  <2>2. CASE c # b /\ \E s \in S : active[s] = c
    <3>1. batchStatus'[c] = IF \E s \in Scopes : active'[s] = c THEN "active" ELSE "rolled_back"
      BY <2>2 DEF Restore, Visibility
    <3>. QED  BY <2>2, <3>1, <1>1 DEF StatusFollows, ActiveScopes
  <2>3. CASE c # b /\ ~\E s \in S : active[s] = c
    <3>1. batchStatus'[c] = batchStatus[c]
      BY <2>3 DEF Restore
    <3>. QED  BY <2>3, <3>1, <1>3 DEF StatusFollows, ActiveScopes
  <2>. QED  BY <2>1, <2>2, <2>3
<1>. HIDE DEF S, t
<1>5. \A c \in Batches : ShownOrSame(c)
  BY <1>1, <1>2, MovedVersions DEF ShownOrSame, OffersInv
<1>. QED  BY <1>4, <1>5

\* Replacements were shown before, and are not versions of the upload itself.
LEMMA ReplacementsWereShown ==
  ASSUME NEW b \in Batches,
         NEW r \in NoReplacement(b) \cup PreviousReplacement(b) \cup SelectedReplacement(b)
                     \cup AutomaticReplacement(b),
         NEW s \in ActiveScopes(b)
  PROVE  \/ r[s] = NoBatch
         \/ r[s] \in Batches \ {b} /\ verStatus[r[s]][s] \in ValidFallback
BY DEF NoReplacement, PreviousReplacement, SelectedReplacement, AutomaticReplacement,
   PreviousVersion, Candidates

\* The status of the others when b's pointers go to their versions.
LEMMA OthersFollow ==
  ASSUME NEW b \in Batches, NEW r, NEW c \in Batches \ {b},
         active' = PointersAfter(ActiveScopes(b), r),
         batchStatus'[c] = IF \E s \in ActiveScopes(b) : r[s] = c
                           THEN "active" ELSE batchStatus[c]
  PROVE  StatusFollows(c)
<1>1. \A s \in Scopes : active'[s] = IF active[s] = b THEN r[s] ELSE active[s]
  BY PointersAfterAt DEF ActiveScopes
<1>. QED  BY <1>1 DEF StatusFollows, ActiveScopes

\* A deactivation shows versions of other uploads again, or nothing.
LEMMA DeactivateOffers ==
  ASSUME OffersInv, NEW b \in Batches, Deactivate(b)
  PROVE  \A c \in Batches : ShownOrSame(c) /\ StatusFollows(c)
<1>1. PICK r \in NoReplacement(b) \cup PreviousReplacement(b) \cup SelectedReplacement(b) :
        /\ ActiveScopes(b) # {}
        /\ active' = PointersAfter(ActiveScopes(b), r)
        /\ verStatus' = StatusesAfter(ActiveScopes(b), r, "deactivated")
        /\ batchStatus' = [c \in Batches |->
             CASE c = b -> "deactivated"
               [] c # b /\ (\E s \in ActiveScopes(b) : r[s] = c) -> "active"
               [] OTHER -> batchStatus[c]]
  BY DEF Deactivate
<1>2. \A s \in ActiveScopes(b) : r[s] \in Batches => verStatus[r[s]][s] \in ValidFallback
  BY ReplacementsWereShown, NoBatchAssumption
<1>3. ActiveScopes(b) \in SUBSET Scopes
  BY DEF ActiveScopes
<1>4. \A c \in Batches : ShownOrSame(c)
  <2>. DEFINE S == ActiveScopes(b)
  <2>1. S \in SUBSET Scopes /\ verStatus' = StatusesAfter(S, r, "deactivated")
    BY <1>1, <1>3
  <2>2. \A s \in S : r[s] \in Batches => verStatus[r[s]][s] \notin {"none", "rejected"}
    BY <1>2
  <2>. HIDE DEF S
  <2>. QED  BY <2>1, <2>2, MovedVersions DEF ShownOrSame, OffersInv
<1>5. StatusFollows(b)
  BY <1>1 DEF StatusFollows
<1>6. \A c \in Batches \ {b} : StatusFollows(c)
  BY <1>1, OthersFollow
<1>. QED  BY <1>4, <1>5, <1>6

\* A deletion removes the upload with its versions, and shows others again.
LEMMA DeleteOffersInv ==
  ASSUME OffersInv, NEW b \in Batches, Delete(b)
  PROVE  OffersInv'
<1>1. PICK r \in AutomaticReplacement(b) :
        /\ active' = PointersAfter(ActiveScopes(b), r)
        /\ verStatus' = [StatusesAfter(ActiveScopes(b), r, "deactivated")
                           EXCEPT ![b] = [s \in Scopes |-> "none"]]
        /\ batchStatus' = [c \in Batches |->
             CASE c = b -> "deleted"
               [] c # b /\ (\E s \in ActiveScopes(b) : r[s] = c) -> "active"
               [] OTHER -> batchStatus[c]]
  BY DEF Delete
<1>2. \A s \in ActiveScopes(b) : r[s] \in Batches => verStatus[r[s]][s] \in ValidFallback
  BY ReplacementsWereShown, NoBatchAssumption
<1>3. ActiveScopes(b) \in SUBSET Scopes
  BY DEF ActiveScopes
<1>4. /\ \A s \in Scopes : verStatus'[b][s] = "none"
      /\ \A c \in Batches \ {b} :
           verStatus'[c] = StatusesAfter(ActiveScopes(b), r, "deactivated")[c]
  BY <1>1 DEF StatusesAfter
<1>5. \A c \in Batches \ {b} : ShownOrSame(c)
  <2>. DEFINE S == ActiveScopes(b)
  <2>1. /\ S \in SUBSET Scopes
        /\ \A c \in Batches \ {b} : verStatus'[c] = StatusesAfter(S, r, "deactivated")[c]
    BY <1>3, <1>4
  <2>2. \A s \in S : r[s] \in Batches => verStatus[r[s]][s] \notin {"none", "rejected"}
    BY <1>2
  <2>. HIDE DEF S
  <2>3. ASSUME NEW c \in Batches \ {b}, NEW s \in Scopes
        PROVE  \/ verStatus'[c][s] = verStatus[c][s]
               \/ /\ verStatus[c][s] \notin {"none", "rejected"}
                  /\ verStatus'[c][s] \in Published
    <3>1. verStatus'[c][s] = StatusesAfter(S, r, "deactivated")[c][s]
      BY <2>1
    <3>2. CatalogInv /\ "deactivated" \in ValidFallback
      BY DEF OffersInv, ValidFallback
    <3>3. \/ StatusesAfter(S, r, "deactivated")[c][s] = verStatus[c][s]
          \/ /\ verStatus[c][s] \notin {"none", "rejected"}
             /\ StatusesAfter(S, r, "deactivated")[c][s] \in Published
      BY <2>1, <2>2, <3>2, MovedVersions
    <3>. QED  BY <3>1, <3>3
  <2>. QED  BY <2>3 DEF ShownOrSame
<1>6. \A c \in Batches \ {b} : StatusFollows(c)
  BY <1>1, OthersFollow
<1>7. batchStatus'[b] = "deleted"
  BY <1>1
<1>8. \A c \in Batches \ {b} : ScopesOf(c)' = ScopesOf(c)
  BY <1>5 DEF ShownOrSame, ScopesOf
<1>9. ScopesOf(b)' = {}
  BY <1>4 DEF ScopesOf
<1>10. CatalogInv'
  BY DeleteInv DEF OffersInv
<1>11. VersionsOwned'
  <2>. SUFFICES ASSUME NEW c \in Batches \ {b}, NEW s \in Scopes, verStatus[c][s] # "none"
                PROVE  Exists(c)'
    BY <1>4, <1>8 DEF VersionsOwned, ScopesOf
  <2>1. batchStatus'[c] \in {"active", batchStatus[c]}
    BY <1>1
  <2>. QED  BY <2>1 DEF OffersInv, VersionsOwned, Exists
<1>12. RejectedTogether'
  BY <1>5, <1>8, <1>9 DEF OffersInv, RejectedTogether, ShownOrSame, ScopesOf
<1>13. RetiredWereShown'
  <2>. SUFFICES ASSUME NEW c \in Batches \ {b}, batchStatus'[c] \in RestorableStatuses
                PROVE  /\ ScopesOf(c) # {}
                       /\ \A s \in ScopesOf(c) : verStatus'[c][s] \in Published
    BY <1>7, <1>8 DEF RetiredWereShown
  <2>1. ScopesOf(c) # {} /\ \A s \in ScopesOf(c) : verStatus[c][s] \in Published
    BY <1>6, ShownWerePublished DEF StatusFollows, OffersInv, RetiredWereShown
  <2>. QED  BY <2>1, <1>5 DEF ShownOrSame, ScopesOf
<1>14. ActiveIsShown'
  BY <1>6, <1>7 DEF OffersInv, ActiveIsShown, StatusFollows
<1>. QED  BY <1>10, <1>11, <1>12, <1>13, <1>14 DEF OffersInv

\* A status of an upload that is not shown, or that says nothing of versions,
\* changes nothing for the pages.
LEMMA StatusWriteOffers ==
  ASSUME OffersInv, CatalogInv', NEW b \in Batches,
         NEW st \in {"uploaded", "processing", "failed"},
         batchStatus' = [batchStatus EXCEPT ![b] = st],
         UNCHANGED <<verStatus, active>>
  PROVE  OffersInv'
<1>1. VersionsOwned'
  BY DEF OffersInv, VersionsOwned, Exists, CatalogInv, TypeOK
<1>2. \A c \in Batches : ShownOrSame(c)
  BY DEF ShownOrSame
<1>3. \A c \in Batches : StatusFollows(c)
  BY DEF StatusFollows, ActiveScopes, OffersInv, CatalogInv, TypeOK
<1>. QED  BY <1>1, <1>2, <1>3, FollowingInv

\* A rejection rejects all versions of a file.
LEMMA RejectOffers ==
  ASSUME OffersInv, NEW b \in Batches, Reject(b)
  PROVE  OffersInv'
<1>1. CatalogInv' /\ VersionsOwned'
  BY RejectInv, StepsLast DEF OffersInv
<1>2. /\ \A s \in Scopes : verStatus'[b][s] = IF verStatus[b][s] = "none" THEN "none" ELSE "rejected"
      /\ \A c \in Batches \ {b} : verStatus'[c] = verStatus[c]
  BY DEF Reject, ScopesOf, OffersInv, CatalogInv, TypeOK
<1>3. /\ batchStatus'[b] = "rejected"
      /\ \A c \in Batches \ {b} : batchStatus'[c] = batchStatus[c]
  BY DEF Reject, OffersInv, CatalogInv, TypeOK
<1>4. \A c \in Batches : ScopesOf(c)' = ScopesOf(c)
  BY <1>2 DEF ScopesOf
<1>5. RejectedTogether'
  BY <1>2, <1>4 DEF OffersInv, RejectedTogether, ScopesOf
<1>6. RetiredWereShown'
  BY <1>2, <1>3, <1>4 DEF OffersInv, RetiredWereShown, ScopesOf
<1>7. ActiveIsShown'
  BY <1>3 DEF Reject, OffersInv, ActiveIsShown, ActiveScopes
<1>. QED  BY <1>1, <1>5, <1>6, <1>7 DEF OffersInv

\* A preview replaces the versions of an upload by drafts.
LEMMA PersistOffers ==
  ASSUME OffersInv, NEW b \in Batches, NEW S \in SUBSET Scopes, NEW valid \in BOOLEAN,
         PersistPreview(b, S, valid)
  PROVE  OffersInv'
<1>1. CatalogInv' /\ VersionsOwned'
  BY PersistInv, StepsLast DEF OffersInv
<1>2. /\ \A s \in Scopes : verStatus'[b][s] \in {"none", "draft"}
      /\ \A c \in Batches \ {b} : verStatus'[c] = verStatus[c]
  BY DEF PersistPreview, Restaged, OffersInv, CatalogInv, TypeOK
<1>3. /\ batchStatus'[b] \in {"ready_to_publish", "validation_failed"}
      /\ \A c \in Batches \ {b} : batchStatus'[c] = batchStatus[c]
  BY DEF PersistPreview, OffersInv, CatalogInv, TypeOK
<1>4. \A c \in Batches \ {b} : ScopesOf(c)' = ScopesOf(c)
  BY <1>2 DEF ScopesOf
<1>5. RejectedTogether'
  BY <1>2, <1>4 DEF OffersInv, RejectedTogether, ScopesOf
<1>6. RetiredWereShown'
  BY <1>2, <1>3, <1>4 DEF OffersInv, RetiredWereShown, ScopesOf
<1>7. ActiveIsShown'
  BY <1>3 DEF PersistPreview, OffersInv, ActiveIsShown, ActiveScopes
<1>. QED  BY <1>1, <1>5, <1>6, <1>7 DEF OffersInv

\* Every transaction keeps the invariant.
LEMMA OffersInvStep ==
  ASSUME OffersInv, [CatalogNext]_catalogVars
  PROVE  OffersInv'
<1>0. CatalogInv'
  BY NextInv DEF OffersInv
<1>1. CASE UNCHANGED catalogVars
  BY <1>0, <1>1 DEF catalogVars, OffersInv, VersionsOwned, RejectedTogether, RetiredWereShown,
     ActiveIsShown, ScopesOf, ActiveScopes, Exists
<1>2. ASSUME NEW b \in Batches, ProcessingStep(b)
      PROVE  OffersInv'
  <2>1. CASE Upload(b) \/ MarkProcessing(b) \/ FailProcessing(b) \/ Requeue(b) \/ FailExhausted(b)
    <3>1. \E st \in {"uploaded", "processing", "failed"} :
            batchStatus' = [batchStatus EXCEPT ![b] = st]
      BY <2>1 DEF Upload, MarkProcessing, FailProcessing, Requeue, FailExhausted, SetBatchStatus
    <3>2. UNCHANGED <<verStatus, active>>
      BY <2>1 DEF Upload, MarkProcessing, FailProcessing, Requeue, FailExhausted, SetBatchStatus
    <3>. QED  BY <1>0, <3>1, <3>2, StatusWriteOffers
  <2>2. CASE \E S \in SUBSET Scopes, valid \in BOOLEAN : PersistPreview(b, S, valid)
    BY <2>2, PersistOffers
  <2>. QED  BY <1>2, <2>1, <2>2 DEF ProcessingStep
<1>3. ASSUME NEW b \in Batches, LifecycleStep(b)
      PROVE  OffersInv'
  <2>1. CASE Publish(b) \/ Rollback(b) \/ Restore(b) \/ Deactivate(b)
    <3>1. VersionsOwned'
      BY <2>1, StepsLast DEF OffersInv
    <3>2. \A c \in Batches : ShownOrSame(c) /\ StatusFollows(c)
      BY <2>1, PublishOffers, RollbackOffers, RestoreOffers, DeactivateOffers
    <3>. QED  BY <1>0, <3>1, <3>2, FollowingInv
  <2>. QED  BY <1>3, <2>1, RejectOffers, DeleteOffersInv DEF LifecycleStep
<1>. QED  BY <1>1, <1>2, <1>3 DEF CatalogNext

\* The invariant of the catalogue, with what the pages rely on.
LEMMA OffersInvCorrect == CatalogSpec => []OffersInv
<1>1. CatalogInit => OffersInv
  <2>. SUFFICES ASSUME CatalogInit PROVE OffersInv
    OBVIOUS
  <2>1. CatalogInv
    BY InitInv
  <2>. QED  BY <2>1 DEF CatalogInit, OffersInv, VersionsOwned, RejectedTogether,
         RetiredWereShown, ActiveIsShown, ScopesOf
<1>2. OffersInv /\ [CatalogNext]_catalogVars => OffersInv'
  BY OffersInvStep
<1>. QED  BY <1>1, <1>2, PTL DEF CatalogSpec

-----------------------------------------------------------------------------
(* What the pages offer *)

\* The number of active versions tells whether there are any.
LEMMA CountTells ==
  ASSUME NEW b \in Batches
  PROVE  /\ ActiveVersionCount(b) \in Nat
         /\ ActiveVersionCount(b) > 0 <=> ActiveScopes(b) # {}
<1>1. ActiveScopes(b) \subseteq Scopes
  BY DEF ActiveScopes
<1>2. IsFiniteSet(ActiveScopes(b))
  BY <1>1, FiniteTables, FS_Subset
<1>. QED  BY <1>2, FS_CardinalityType, FS_EmptySet DEF ActiveVersionCount

\* The page's and the transaction's conditions on versions and pointers.
LEMMA PageConditions ==
  ASSUME OffersInv, NEW b \in Batches
  PROVE  /\ ActiveVersions(b) = ActiveScopes(b)
         /\ ActiveScopes(b) \subseteq ScopesOf(b)
         /\ FullyActive(b) <=> ScopesOf(b) # {} /\ ScopesOf(b) \subseteq ActiveScopes(b)
         /\ AllRestorable(b) <=> ScopesOf(b) # {} /\ Restorable(b)
         /\ CanRestore(b) => ActiveScopes(b) = {} /\ AllRestorable(b)
<1>1. \A s \in Scopes : active[s] = b => verStatus[b][s] # "none"
  BY DEF OffersInv, CatalogInv, PointerConsistent
<1>2. ActiveVersions(b) = ActiveScopes(b) /\ ActiveScopes(b) \subseteq ScopesOf(b)
  BY <1>1 DEF ActiveVersions, ActiveScopes, ScopesOf
<1>3. FullyActive(b) <=> ScopesOf(b) # {} /\ ScopesOf(b) \subseteq ActiveScopes(b)
  BY DEF FullyActive, DetailVersions, ActiveScopes, ScopesOf
<1>4. AllRestorable(b) <=> ScopesOf(b) # {} /\ Restorable(b)
  <2>1. \A s \in ScopesOf(b) : verStatus[b][s] \in VersionStates
    BY DEF OffersInv, CatalogInv, TypeOK, ScopesOf
  <2>. QED  BY <2>1 DEF AllRestorable, DetailVersions, Restorable
<1>5. CanRestore(b) => ActiveScopes(b) = {} /\ AllRestorable(b)
  BY <1>4, CountTells DEF CanRestore, OffersInv, RetiredWereShown, Restorable
<1>. QED  BY <1>2, <1>3, <1>4, <1>5

\* The page computes the options for the replacement as the transaction does.
LEMMA SameOptions ==
  ASSUME OffersInv, NEW b \in Batches, ActiveScopes(b) # {}
  PROVE  /\ NoReplacement(b) # {}
         /\ PreviousAvailable(b) <=> PreviousReplacement(b) # {}
         /\ \A c \in Batches : c \in FallbackOptions(b) <=>
              \E t \in SelectedReplacement(b) : \A s \in ActiveScopes(b) : t[s] = c
<1>0. ActiveVersions(b) = ActiveScopes(b) /\ ActiveScopes(b) \subseteq Scopes
  BY PageConditions DEF ActiveScopes
<1>1. NoReplacement(b) # {}
  <2>1. [s \in ActiveScopes(b) |-> NoBatch] \in NoReplacement(b)
    BY DEF NoReplacement
  <2>. QED  BY <2>1
<1>2. ASSUME NEW s \in ActiveScopes(b)
      PROVE  AutomaticFallbacks(b, s) = PreviousVersion(b, s)
  <2>1. \A c \in Batches : verNumber[c][s] \in Nat
    BY <1>0, MaxVersionAssumption DEF OffersInv, CatalogInv, TypeOK
  <2>. QED  BY <2>1 DEF AutomaticFallbacks, PreviousVersion, LifecycleCandidates, Candidates
<1>3. PreviousAvailable(b) <=> PreviousReplacement(b) # {}
  <2>1. ASSUME PreviousAvailable(b)
        PROVE  PreviousReplacement(b) # {}
    <3>. DEFINE r == [s \in ActiveScopes(b) |-> CHOOSE c \in Batches : c \in PreviousVersion(b, s)]
    <3>1. ASSUME NEW s \in ActiveScopes(b)
          PROVE  r[s] \in Batches /\ r[s] \in PreviousVersion(b, s)
      <4>1. PreviousVersion(b, s) # {} /\ PreviousVersion(b, s) \subseteq Batches
        BY <2>1, <1>0, <1>2 DEF PreviousAvailable, PreviousVersion, Candidates
      <4>. QED  BY <4>1
    <3>2. r \in PreviousReplacement(b)
      BY <3>1 DEF PreviousReplacement
    <3>. QED  BY <3>2
  <2>2. ASSUME PreviousReplacement(b) # {}
        PROVE  PreviousAvailable(b)
    BY <2>2, <1>0, <1>2 DEF PreviousAvailable, PreviousReplacement
  <2>. QED  BY <2>1, <2>2
<1>4. ASSUME NEW c \in Batches
      PROVE  c \in FallbackOptions(b) <=>
               \E t \in SelectedReplacement(b) : \A s \in ActiveScopes(b) : t[s] = c
  <2>0. c \in FallbackOptions(b) <=> \A s \in ActiveScopes(b) : c \in Candidates(b, s)
    BY <1>0 DEF FallbackOptions, LifecycleCandidates, Candidates
  <2>1. ASSUME \A s \in ActiveScopes(b) : c \in Candidates(b, s)
        PROVE  \E t \in SelectedReplacement(b) : \A s \in ActiveScopes(b) : t[s] = c
    <3>1. [s \in ActiveScopes(b) |-> c] \in SelectedReplacement(b)
      BY <2>1 DEF SelectedReplacement
    <3>. QED  BY <3>1
  <2>2. ASSUME NEW t \in SelectedReplacement(b), \A s \in ActiveScopes(b) : t[s] = c
        PROVE  \A s \in ActiveScopes(b) : c \in Candidates(b, s)
    BY <2>2 DEF SelectedReplacement
  <2>. QED  BY <2>0, <2>1, <2>2
<1>. QED  BY <1>1, <1>3, <1>4

\* A request by its action.
LEMMA RequestCases ==
  ASSUME NEW r \in Requests
  PROVE  \/ /\ r.action \in {"restore", "rollback", DeleteActive, DeleteInactive}
            /\ r = Plain(r.action)
         \/ /\ r.action = "deactivate"
            /\ \/ r = Deactivation("none", NoBatch)
               \/ r = Deactivation("previous", NoBatch)
               \/ \E c \in Batches : r = Deactivation("selected", c)
<1>1. \/ \E a \in {"restore", "rollback", DeleteActive, DeleteInactive} : r = Plain(a)
      \/ r = Deactivation("none", NoBatch)
      \/ r = Deactivation("previous", NoBatch)
      \/ \E c \in Batches : r = Deactivation("selected", c)
  BY DEF Requests
<1>2. \A a : Plain(a).action = a
  BY DEF Plain
<1>3. \A m, c : Deactivation(m, c).action = "deactivate"
  BY DEF Deactivation
<1>. QED  BY <1>1, <1>2, <1>3

\* The forms of the replacement, as accepted by the transaction.
LEMMA ResolutionAccepted ==
  ASSUME OffersInv, NEW b \in Batches, NEW r \in Requests, r.action = "deactivate"
  PROVE  Accepts(b, r) <=> ActiveScopes(b) # {} /\ r \in ResolutionForms(b)
<1>0. Accepts(b, r) <=> ActiveScopes(b) # {} /\ Replacements(b, r) # {}
  BY DEF Accepts, DeleteActive, DeleteInactive
<1>. SUFFICES ASSUME ActiveScopes(b) # {}
              PROVE  Replacements(b, r) # {} <=> r \in ResolutionForms(b)
  BY <1>0
<1>1. CASE r = Deactivation("none", NoBatch)
  BY <1>1, SameOptions DEF Replacements, ResolutionForms, Deactivation
<1>2. CASE r = Deactivation("previous", NoBatch)
  <2>1. r \in ResolutionForms(b) <=> PreviousAvailable(b)
    BY <1>2 DEF ResolutionForms, Deactivation
  <2>2. Replacements(b, r) = PreviousReplacement(b)
    BY <1>2 DEF Replacements, Deactivation
  <2>. QED  BY <2>1, <2>2, SameOptions
<1>3. CASE \E c \in Batches : r = Deactivation("selected", c)
  <2>1. PICK c \in Batches : r = Deactivation("selected", c)
    BY <1>3
  <2>2. r \in ResolutionForms(b) <=> c \in FallbackOptions(b)
    BY <2>1 DEF ResolutionForms, Deactivation
  <2>3. Replacements(b, r) = {t \in SelectedReplacement(b) : \A s \in ActiveScopes(b) : t[s] = c}
    BY <2>1 DEF Replacements, Deactivation
  <2>. QED  BY <2>2, <2>3, SameOptions
<1>. QED  BY <1>1, <1>2, <1>3, RequestCases DEF DeleteActive, DeleteInactive

\* The forms of the replacement are requests to deactivate.
LEMMA ResolutionIsRequested ==
  ASSUME NEW b \in Batches, NEW r \in ResolutionForms(b)
  PROVE  r \in Requests /\ r.action = "deactivate"
BY DEF ResolutionForms, Requests, Deactivation, FallbackOptions

\* The form of the deletion, as accepted by the transaction.
LEMMA DeletionAccepted ==
  ASSUME NEW b \in Batches, NEW r \in Requests
  PROVE  /\ r \in DeletionForms(b) <=>
              r.action \in {DeleteActive, DeleteInactive} /\ Accepts(b, r)
         /\ DeletionForms(b) \subseteq Requests
         /\ DeletionAssessment(b).allowed => DeletionForms(b) # {}
<1>1. DeletionForms(b) = IF ~MayDelete(b) THEN {}
                         ELSE IF ActiveScopes(b) # {} THEN {Plain(DeleteActive)}
                         ELSE {Plain(DeleteInactive)}
  BY CountTells DEF DeletionForms, DeletionAssessment
<1>2. /\ r = Plain(DeleteActive) <=> r.action = DeleteActive
      /\ r = Plain(DeleteInactive) <=> r.action = DeleteInactive
  <2>1. Plain(DeleteActive).action = DeleteActive /\ Plain(DeleteInactive).action = DeleteInactive
    BY DEF Plain
  <2>. QED  BY <2>1, RequestCases DEF DeleteActive, DeleteInactive
<1>3. /\ r.action = DeleteActive => (Accepts(b, r) <=> MayDelete(b) /\ ActiveScopes(b) # {})
      /\ r.action = DeleteInactive => (Accepts(b, r) <=> MayDelete(b) /\ ActiveScopes(b) = {})
  BY DEF Accepts, DeleteActive, DeleteInactive
<1>4. Plain(DeleteActive).action # Plain(DeleteInactive).action
  BY DEF Plain, DeleteActive, DeleteInactive
<1>5. Plain(DeleteActive) \in Requests /\ Plain(DeleteInactive) \in Requests
  BY DEF Requests
<1>6. DeletionAssessment(b).allowed <=> MayDelete(b)
  BY DEF DeletionAssessment
<1>. QED  BY <1>1, <1>2, <1>3, <1>4, <1>5, <1>6

\* In each state the two pages offer what the transactions accept.
LEMMA OffersFollow == OffersInv => OffersAreAccepted
<1>. SUFFICES ASSUME OffersInv, NEW b \in Batches
              PROVE  LET accepted == {r \in Requests : Accepts(b, r)}
                         refusedUndo == {r \in {Plain("rollback")} : FullyActive(b) /\ FirstVersion(b)}
                     IN  /\ HistoryOffers(b) \cup DetailOffers(b) = accepted \cup refusedUndo
                         /\ ActiveVersionCount(b) = 0 => HistoryOffers(b) \subseteq DetailOffers(b)
                         /\ \A intent \in MenuIntents(b) : \E r \in HistoryOffers(b) :
                              \/ r.action = intent
                              \/ intent = "delete" /\ r.action \in {DeleteActive, DeleteInactive}
  BY DEF OffersAreAccepted
<1>. DEFINE offers == HistoryOffers(b) \cup DetailOffers(b)
<1>. USE DEF DeleteActive, DeleteInactive
<1>0. /\ Plain("restore").action = "restore" /\ Plain("rollback").action = "rollback"
      /\ Plain("restore") \in Requests /\ Plain("rollback") \in Requests
      /\ Plain("rollback") \notin ResolutionForms(b) /\ Plain("restore") \notin ResolutionForms(b)
      /\ Plain("rollback") \notin DeletionForms(b) /\ Plain("restore") \notin DeletionForms(b)
  <2>1. Plain("restore").action = "restore" /\ Plain("rollback").action = "rollback"
    BY DEF Plain
  <2>2. Plain("restore") \in Requests /\ Plain("rollback") \in Requests
    BY DEF Requests
  <2>. QED  BY <2>1, <2>2, ResolutionIsRequested, DeletionAccepted
<1>1. offers \subseteq Requests
  BY <1>0, ResolutionIsRequested, DeletionAccepted DEF HistoryOffers, DetailOffers
<1>2. Plain("restore") \in offers <=> ~FullyActive(b) /\ AllRestorable(b)
  BY <1>0, PageConditions DEF HistoryOffers, DetailOffers
<1>3. Accepts(b, Plain("restore")) <=> ~FullyActive(b) /\ AllRestorable(b)
  <2>1. \A r : r.action = "restore" =>
          (Accepts(b, r) <=> ScopesOf(b) \ ActiveScopes(b) # {} /\ Restorable(b))
    BY DEF Accepts
  <2>. QED  BY <2>1, <1>0, PageConditions
<1>4. Plain("rollback") \in offers <=> FullyActive(b)
  BY <1>0 DEF HistoryOffers, DetailOffers
<1>5. Accepts(b, Plain("rollback")) <=> FullyActive(b) /\ ~FirstVersion(b)
  <2>1. \A r : r.action = "rollback" =>
          (Accepts(b, r) <=> /\ ScopesOf(b) # {} /\ ScopesOf(b) \subseteq ActiveScopes(b)
                             /\ ~FirstVersion(b))
    BY DEF Accepts
  <2>. QED  BY <2>1, <1>0, PageConditions
<1>6. ASSUME NEW r \in Requests, r.action = "deactivate"
      PROVE  r \in offers <=> Accepts(b, r)
  <2>1. r \notin DeletionForms(b) /\ r # Plain("restore") /\ r # Plain("rollback")
    BY <1>6, <1>0, DeletionAccepted
  <2>2. r \in HistoryOffers(b) <=> ActiveScopes(b) # {} /\ r \in ResolutionForms(b)
    BY <2>1, CountTells DEF HistoryOffers, HasLifecycle
  <2>3. r \in DetailOffers(b) => ActiveScopes(b) # {} /\ r \in ResolutionForms(b)
    BY <2>1, PageConditions DEF DetailOffers
  <2>. QED  BY <1>6, <2>2, <2>3, ResolutionAccepted
<1>7. ASSUME NEW r \in Requests, r.action \in {DeleteActive, DeleteInactive}
      PROVE  r \in offers <=> Accepts(b, r)
  <2>1. r \notin ResolutionForms(b) /\ r # Plain("restore") /\ r # Plain("rollback")
    BY <1>7, <1>0, ResolutionIsRequested
  <2>2. r \in offers <=> r \in DeletionForms(b)
    BY <2>1 DEF HistoryOffers, DetailOffers
  <2>. QED  BY <1>7, <2>2, DeletionAccepted
<1>8. offers = {r \in Requests : Accepts(b, r)}
                 \cup {r \in {Plain("rollback")} : FullyActive(b) /\ FirstVersion(b)}
  <2>. HIDE DEF offers
  <2>1. ASSUME NEW r \in Requests
        PROVE  r \in offers <=>
                 Accepts(b, r) \/ (r = Plain("rollback") /\ FullyActive(b) /\ FirstVersion(b))
    <3>1. CASE r.action \in {"deactivate", DeleteActive, DeleteInactive}
      BY <3>1, <1>0, <1>6, <1>7
    <3>2. CASE r = Plain("restore")
      BY <3>2, <1>0, <1>2, <1>3
    <3>3. CASE r = Plain("rollback")
      BY <3>3, <1>4, <1>5
    <3>. QED  BY <3>1, <3>2, <3>3, RequestCases
  <2>. QED  BY <2>1, <1>0, <1>1
<1>9. ASSUME ActiveVersionCount(b) = 0
      PROVE  HistoryOffers(b) \subseteq DetailOffers(b)
  <2>1. ActiveScopes(b) = {} /\ ~HasLifecycle(b)
    BY <1>9, CountTells DEF HasLifecycle
  <2>2. CanRestore(b) => ~FullyActive(b) /\ AllRestorable(b)
    BY <2>1, PageConditions
  <2>. QED  BY <2>1, <2>2 DEF HistoryOffers, DetailOffers
<1>10. ASSUME NEW intent \in MenuIntents(b)
       PROVE  \E r \in HistoryOffers(b) :
                \/ r.action = intent
                \/ intent = "delete" /\ r.action \in {DeleteActive, DeleteInactive}
  <2>1. CASE intent = "restore" /\ CanRestore(b)
    BY <2>1, <1>0 DEF HistoryOffers
  <2>2. CASE intent = "deactivate" /\ HasLifecycle(b)
    <3>1. Deactivation("none", NoBatch) \in ResolutionForms(b)
      BY DEF ResolutionForms
    <3>. QED  BY <2>2, <3>1, ResolutionIsRequested DEF HistoryOffers
  <2>3. CASE intent = "delete" /\ DeletionAssessment(b).allowed
    <3>1. PICK r \in Requests : r \in DeletionForms(b) /\ r.action \in {DeleteActive, DeleteInactive}
      BY <2>3, DeletionAccepted, <1>0
    <3>. QED  BY <2>3, <3>1 DEF HistoryOffers
  <2>. QED  BY <2>1, <2>2, <2>3 DEF MenuIntents, HasLifecycle
<1>. QED  BY <1>8, <1>9, <1>10

\* The list of imports and the page of one offer together exactly what the
\* transactions would do if nothing changed before the request, with the undo
\* of a first version as the one exception.
THEOREM PagesOfferWhatIsAccepted == CatalogSpec => []OffersAreAccepted
BY OffersInvCorrect, OffersFollow, PTL

-----------------------------------------------------------------------------
(* What the history shows *)

\* Multiples of the size of a page.
LEMMA Multiples ==
  ASSUME NEW size \in Nat \ {0}
  PROVE  /\ \A p \in Nat : p * size \in Nat
         /\ \A p \in Nat \ {0} : (p - 1) * size \in Nat /\ p * size = (p - 1) * size + size
         /\ \A p, q \in Nat : p < q => p * size + size <= q * size
         /\ \A p, q \in Nat : p <= q => p * size <= q * size
<1>1. \A p \in Nat : p * size \in Nat
  OBVIOUS
<1>2. \A p \in Nat \ {0} : (p - 1) * size \in Nat /\ p * size = (p - 1) * size + size
  OBVIOUS
<1>3. ASSUME NEW p \in Nat, NEW q \in Nat, p < q
      PROVE  p * size + size <= q * size
  BY <1>3
<1>4. ASSUME NEW p \in Nat, NEW q \in Nat, p <= q
      PROVE  p * size <= q * size
  BY <1>1, <1>3, <1>4
<1>. QED  BY <1>1, <1>2, <1>3, <1>4

\* Division finds the page of a row.
LEMMA PageOfRow ==
  ASSUME NEW size \in Nat \ {0}, NEW i \in Nat
  PROVE  /\ i \div size \in Nat
         /\ (i \div size) * size <= i
         /\ i < (i \div size) * size + size
<1>1. i \div size \in Nat
  OBVIOUS
<1>2. (i \div size) * size <= i
  OBVIOUS
<1>3. i < (i \div size) * size + size
  OBVIOUS
<1>. QED  BY <1>1, <1>2, <1>3

\* The last page is full or the list ends on it.
LEMMA LastPageReaches ==
  ASSUME NEW size \in Nat \ {0}, NEW n \in Nat
  PROVE  /\ LastPage(n, size) \in Nat \ {0}
         /\ n <= LastPage(n, size) * size
         /\ n > 0 => (LastPage(n, size) - 1) * size < n
<1>1. CASE n = 0
  BY <1>1 DEF LastPage
<1>2. CASE n > 0
  <2>. DEFINE m == n + size - 1
              l == m \div size
  <2>1. m \in Nat /\ m >= size
    BY <1>2
  <2>. HIDE DEF m
  <2>2. l \in Nat /\ l * size <= m /\ m < l * size + size
    BY <2>1, PageOfRow
  <2>3. LastPage(n, size) = l
    BY <1>2 DEF LastPage, m
  <2>. HIDE DEF l
  <2>4. l # 0
    BY <2>1, <2>2
  <2>5. l * size = (l - 1) * size + size /\ (l - 1) * size \in Nat /\ l * size \in Nat
    BY <2>2, <2>4, Multiples
  <2>6. m = n + size - 1
    BY DEF m
  <2>. QED  BY <2>2, <2>3, <2>4, <2>5, <2>6
<1>. QED  BY <1>1, <1>2

\* Each row is on one page, wherever the list ends.
LEMMA RowsOnOnePage ==
  ASSUME NEW size \in Nat \ {0}, NEW n \in Nat, NEW i \in 1..n
  PROVE  \E page \in 1..LastPage(n, size) : \A p \in 1..LastPage(n, size) :
           i \in RowsOn(n, size, p) <=> p = page
<1>. DEFINE d == (i - 1) \div size
<1>1. i - 1 \in Nat
  OBVIOUS
<1>2. d \in Nat /\ d * size <= i - 1 /\ i - 1 < d * size + size
  BY <1>1, PageOfRow
<1>3. LastPage(n, size) \in Nat \ {0} /\ n <= LastPage(n, size) * size
  BY LastPageReaches
<1>. HIDE DEF d
<1>4. d + 1 \in 1..LastPage(n, size)
  <2>1. d * size < LastPage(n, size) * size
    <3>1. d * size \in Nat /\ LastPage(n, size) * size \in Nat
      BY <1>2, <1>3, Multiples
    <3>. QED  BY <1>2, <1>3, <3>1
  <2>2. ~(LastPage(n, size) <= d)
    BY <1>2, <1>3, <2>1, Multiples
  <2>. QED  BY <1>2, <1>3, <2>2
<1>5. ASSUME NEW p \in 1..LastPage(n, size)
      PROVE  i \in RowsOn(n, size, p) <=> p = d + 1
  <2>. DEFINE q == p - 1
  <2>1. q \in Nat /\ p = q + 1 /\ p * size = q * size + size /\ q * size \in Nat
    BY <1>3, Multiples
  <2>2. i \in RowsOn(n, size, p) <=> q * size < i /\ i <= q * size + size
    BY <2>1 DEF RowsOn
  <2>. HIDE DEF q
  <2>3. d * size \in Nat
    BY <1>2, Multiples
  <2>4. q < d => q * size + size <= d * size
    BY <1>2, <2>1, Multiples
  <2>5. d < q => d * size + size <= q * size
    BY <1>2, <2>1, Multiples
  <2>6. q = d \/ q < d \/ d < q
    BY <1>2, <2>1
  <2>7. CASE q = d
    BY <1>2, <2>1, <2>2, <2>3, <2>7
  <2>8. CASE q < d
    BY <1>2, <2>1, <2>2, <2>3, <2>4, <2>8
  <2>9. CASE d < q
    BY <1>2, <2>1, <2>2, <2>3, <2>5, <2>9
  <2>. QED  BY <2>6, <2>7, <2>8, <2>9
<1>. QED  BY <1>4, <1>5

\* A page shows the rows it announces.
LEMMA PageShowsItsRows ==
  ASSUME NEW size \in Nat \ {0}, NEW n \in Nat \ {0}, NEW page \in Nat \ {0}
  PROVE  RowsOn(n, size, page) = Showing(n, size, page)
<1>. DEFINE first == (page - 1) * size
            last == page * size
<1>1. first \in Nat /\ last \in Nat
  BY Multiples
<1>2. /\ RowsOn(n, size, page) = {i \in 1..n : first < i /\ i <= last}
      /\ Showing(n, size, page) = (first + 1)..(IF n < last THEN n ELSE last)
  BY DEF RowsOn, Showing
<1>. HIDE DEF first, last
<1>. QED  BY <1>1, <1>2

\* A page up to the last one has a row.
LEMMA PageHasRow ==
  ASSUME NEW size \in Nat \ {0}, NEW n \in Nat \ {0}, NEW page \in 1..LastPage(n, size)
  PROVE  RowsOn(n, size, page) # {}
<1>. DEFINE first == (page - 1) * size
<1>1. LastPage(n, size) \in Nat \ {0} /\ (LastPage(n, size) - 1) * size < n
  BY LastPageReaches
<1>2. page - 1 \in Nat /\ LastPage(n, size) - 1 \in Nat /\ page - 1 <= LastPage(n, size) - 1
  BY <1>1
<1>3. first \in Nat /\ (LastPage(n, size) - 1) * size \in Nat /\ page * size = first + size
  BY <1>1, <1>2, Multiples
<1>4. first <= (LastPage(n, size) - 1) * size
  BY <1>2, Multiples
<1>5. RowsOn(n, size, page) = {i \in 1..n : first < i /\ i <= first + size}
  BY <1>3 DEF RowsOn
<1>. HIDE DEF first
<1>6. first + 1 \in RowsOn(n, size, page)
  BY <1>1, <1>3, <1>4, <1>5
<1>. QED  BY <1>6

\* The pages of a list tile it, whatever its length and the size of a page.
LEMMA PagesDoTile == PagesTile
<1>. SUFFICES ASSUME NEW n \in 0..Cardinality(Batches), NEW size \in PageSizes
              PROVE  /\ \A i \in 1..n : \E page \in 1..LastPage(n, size) :
                          \A p \in 1..LastPage(n, size) : i \in RowsOn(n, size, p) <=> p = page
                     /\ \A page \in 1..LastPage(n, size) :
                          /\ n > 0 => RowsOn(n, size, page) = Showing(n, size, page)
                          /\ {page, page + 1} \cap 1..LastPage(n, size)
                               \subseteq PageLinks(n, size, page)
                          /\ n > 1 => RowsOn(n - 1, size, PageAfterDeletion(n - 1, size, page)) # {}
  BY DEF PagesTile
<1>1. n \in Nat /\ size \in Nat \ {0}
  BY FiniteTables, FS_CardinalityType, PageSizesAssumption
<1>2. \A i \in 1..n : \E page \in 1..LastPage(n, size) :
        \A p \in 1..LastPage(n, size) : i \in RowsOn(n, size, p) <=> p = page
  BY <1>1, RowsOnOnePage
<1>3. ASSUME NEW page \in 1..LastPage(n, size)
      PROVE  /\ n > 0 => RowsOn(n, size, page) = Showing(n, size, page)
             /\ {page, page + 1} \cap 1..LastPage(n, size) \subseteq PageLinks(n, size, page)
             /\ n > 1 => RowsOn(n - 1, size, PageAfterDeletion(n - 1, size, page)) # {}
  <2>1. page \in Nat \ {0}
    BY <1>1, LastPageReaches
  <2>2. n > 0 => RowsOn(n, size, page) = Showing(n, size, page)
    BY <1>1, <2>1, PageShowsItsRows
  <2>3. {page, page + 1} \cap 1..LastPage(n, size) \subseteq PageLinks(n, size, page)
    BY DEF PageLinks
  <2>4. ASSUME n > 1
        PROVE  RowsOn(n - 1, size, PageAfterDeletion(n - 1, size, page)) # {}
    <3>1. n - 1 \in Nat \ {0}
      BY <1>1, <2>4
    <3>2. LastPage(n - 1, size) \in Nat \ {0}
      BY <1>1, <3>1, LastPageReaches
    <3>3. PageAfterDeletion(n - 1, size, page) \in 1..LastPage(n - 1, size)
      BY <2>1, <3>2 DEF PageAfterDeletion
    <3>. QED  BY <1>1, <3>1, <3>3, PageHasRow
  <2>. QED  BY <2>2, <2>3, <2>4
<1>. QED  BY <1>2, <1>3

\* In each state the figures above the list count the rows they point out.
LEMMA HistoryFollows == OffersInv => HistoryAddsUp
<1>. SUFFICES ASSUME OffersInv PROVE HistoryAddsUp
  OBVIOUS
<1>1. ASSUME NEW b \in Matching("active")
      PROVE  DisplayStatus(b) = "active"
  <2>1. b \in Batches /\ batchStatus[b] = "active"
    BY DEF Matching, AnyStatus
  <2>. QED  BY <2>1, CountTells DEF OffersInv, ActiveIsShown, DisplayStatus
<1>. DEFINE Rows(h) == {b \in Matching(AnyStatus) : Highlighted(b, h)}
<1>2. Matching(AnyStatus) = {b \in Batches : Exists(b)}
  BY DEF Matching
<1>3. Matching(AnyStatus) = Rows("all")
  BY DEF Highlighted
<1>4. {active[s] : s \in Scopes} \ {NoBatch} = Rows("active")
  <2>1. ASSUME NEW b
        PROVE  b \in {active[s] : s \in Scopes} \ {NoBatch} <=>
                 b \in Batches /\ Exists(b) /\ ActiveVersionCount(b) > 0
    <3>1. ASSUME NEW s \in Scopes, b = active[s], b # NoBatch
          PROVE  b \in Batches /\ Exists(b) /\ ActiveScopes(b) # {}
      <4>1. b \in Batches
        BY <3>1 DEF OffersInv, CatalogInv, TypeOK
      <4>. QED  BY <3>1, <4>1, ShownExist DEF OffersInv, ActiveScopes
    <3>2. ASSUME b \in Batches, ActiveScopes(b) # {}
          PROVE  b \in {active[s] : s \in Scopes} \ {NoBatch}
      BY <3>2, NoBatchAssumption DEF ActiveScopes
    <3>. QED  BY <3>1, <3>2, CountTells
  <2>2. ASSUME NEW b
        PROVE  b \in Rows("active") <=> b \in Batches /\ Exists(b) /\ ActiveVersionCount(b) > 0
    BY <1>2 DEF Highlighted
  <2>. QED  BY <2>1, <2>2
<1>5. {b \in Batches : batchStatus[b] \in {"failed", "validation_failed"}} = Rows("failed")
  BY <1>2 DEF Highlighted, FailedStatuses, Exists
<1>6. {b \in Batches : batchStatus[b] \in {"uploaded", "processing", "draft", "ready_to_publish"}}
        = Rows("drafts")
  BY <1>2 DEF Highlighted, DraftStatuses, Exists
<1>7. /\ Cards["all"] = Cardinality(Rows("all"))
      /\ Cards["active"] = Cardinality(Rows("active"))
      /\ Cards["failed"] = Cardinality(Rows("failed"))
      /\ Cards["drafts"] = Cardinality(Rows("drafts"))
  <2>. HIDE DEF Rows
  <2>. QED  BY <1>3, <1>4, <1>5, <1>6 DEF Cards, Summary
<1>8. DOMAIN Cards = {"all", "active", "failed", "drafts"}
  BY DEF Cards
<1>9. \A h \in DOMAIN Cards : Cards[h] = Cardinality(Rows(h))
  <2>. HIDE DEF Rows
  <2>. QED  BY <1>7, <1>8
<1>. QED  BY <1>1, <1>9, PagesDoTile DEF HistoryAddsUp

\* The list of imports never misleads: pages, filter and figures say the same
\* as the rows.
THEOREM HistoryTellsTruth == CatalogSpec => []HistoryAddsUp
BY OffersInvCorrect, HistoryFollows, PTL

=============================================================================
