------------------------ MODULE DatasetVersionsProofs ------------------------
(***************************************************************************)
(* Theorems about the dataset catalogue, for any number of uploads, scopes *)
(* and versions.                                                           *)
(*                                                                         *)
(* The invariant is proved as one conjunction: a rollback is safe for the  *)
(* pointers (PointerConsistent) only because predecessors are published    *)
(* versions (RollbackChainSound), which a rejection keeps true only        *)
(* because a batch that can be rejected has nothing but drafts             *)
(* (DraftsTogether).                                                       *)
(***************************************************************************)
EXTENDS DatasetVersions, TLAPS

CatalogInv ==
  /\ TypeOK
  /\ PointerConsistent
  /\ RollbackChainSound
  /\ DraftsTogether
  /\ VersionNumbersUnique

USE DEF Published, ValidFallback, VersionStates, BatchStates, Processable, Reprocessable

-----------------------------------------------------------------------------
(* What moving the pointers of a set of scopes does, one entry at a time.  *)

\* The status of one version after a move of pointers.
LEMMA StatusesAfterAt ==
  ASSUME NEW S, NEW t, NEW o, NEW c \in Batches, NEW s \in Scopes
  PROVE  StatusesAfter(S, t, o)[c][s] =
           IF s \in S
           THEN IF t[s] = c THEN "active"
                ELSE IF active[s] = c THEN o ELSE verStatus[c][s]
           ELSE verStatus[c][s]
BY DEF StatusesAfter

\* The pointer of one scope after a move.
LEMMA PointersAfterAt ==
  ASSUME NEW S, NEW t, NEW s \in Scopes
  PROVE  PointersAfter(S, t)[s] = IF s \in S THEN t[s] ELSE active[s]
BY DEF PointersAfter

\* Every operation that moves pointers to existing versions keeps the tables
\* typed, and the pointers and statuses in agreement.
LEMMA MoveKeepsPointers ==
  ASSUME TypeOK, PointerConsistent,
         NEW S \in SUBSET Scopes, NEW t, NEW o \in ValidFallback,
         \A s \in S : t[s] \in Batches \cup {NoBatch},
         active' = PointersAfter(S, t),
         verStatus' = StatusesAfter(S, t, o)
  PROVE  /\ verStatus' \in [Batches -> [Scopes -> VersionStates \cup {"none"}]]
         /\ active' \in [Scopes -> Batches \cup {NoBatch}]
         /\ PointerConsistent'
<1>1. verStatus' \in [Batches -> [Scopes -> VersionStates \cup {"none"}]]
  BY DEF TypeOK, StatusesAfter
<1>2. active' \in [Scopes -> Batches \cup {NoBatch}]
  BY DEF TypeOK, PointersAfter
<1>3. ASSUME NEW b \in Batches, NEW s \in Scopes
      PROVE  active'[s] = b <=> verStatus'[b][s] = "active"
  BY StatusesAfterAt, PointersAfterAt DEF PointerConsistent, TypeOK
<1>. QED  BY <1>1, <1>2, <1>3 DEF PointerConsistent

\* Predecessors stay published: the status of a version changes only from one
\* published status to another, or from draft to active.
LEMMA MoveKeepsChain ==
  ASSUME TypeOK, PointerConsistent, RollbackChainSound,
         NEW S \in SUBSET Scopes, NEW t, NEW o \in ValidFallback,
         \A s \in S : t[s] \in Batches \cup {NoBatch},
         verStatus' = StatusesAfter(S, t, o),
         UNCHANGED <<verNumber, verPrev>>
  PROVE  RollbackChainSound'
<1>. SUFFICES ASSUME NEW b \in Batches, NEW s \in Scopes, verPrev[b][s] # NoBatch
              PROVE  /\ verStatus'[b][s] # "none"
                     /\ verStatus'[verPrev[b][s]][s] \in Published
                     /\ verNumber[verPrev[b][s]][s] < verNumber[b][s]
  BY DEF RollbackChainSound
<1>1. verPrev[b][s] \in Batches
  BY DEF TypeOK
<1>. QED
  BY <1>1, StatusesAfterAt DEF RollbackChainSound

-----------------------------------------------------------------------------
\* The empty tables satisfy the invariant.
LEMMA InitInv == CatalogInit => CatalogInv
<1>. SUFFICES ASSUME CatalogInit PROVE CatalogInv
  OBVIOUS
<1>1. TypeOK
  BY MaxVersionAssumption DEF CatalogInit, TypeOK
<1>2. PointerConsistent
  BY NoBatchAssumption DEF CatalogInit, PointerConsistent
<1>3. RollbackChainSound
  BY DEF CatalogInit, RollbackChainSound
<1>4. DraftsTogether /\ VersionNumbersUnique
  BY DEF CatalogInit, DraftsTogether, VersionNumbersUnique, ScopesOf
<1>. QED  BY <1>1, <1>2, <1>3, <1>4 DEF CatalogInv

-----------------------------------------------------------------------------
(* Steps that write statuses only *)

\* Writing a status of no consequence to the versions keeps the invariant.
LEMMA StatusWriteInv ==
  ASSUME CatalogInv, NEW b \in Batches,
         NEW st \in {"uploaded", "processing", "failed"},
         batchStatus' = [batchStatus EXCEPT ![b] = st],
         UNCHANGED <<verStatus, verNumber, verPrev, active>>
  PROVE  CatalogInv'
<1>1. TypeOK'
  BY DEF CatalogInv, TypeOK
<1>2. PointerConsistent'
  BY DEF CatalogInv, PointerConsistent
<1>3. RollbackChainSound'
  BY DEF CatalogInv, RollbackChainSound
<1>4. DraftsTogether'
  <2>1. \A c \in Batches : batchStatus'[c] \in Reprocessable => batchStatus[c] \in Reprocessable
    BY DEF CatalogInv, TypeOK
  <2>. QED  BY <2>1 DEF CatalogInv, DraftsTogether, ScopesOf
<1>5. VersionNumbersUnique'
  BY DEF CatalogInv, VersionNumbersUnique, ScopesOf
<1>. QED  BY <1>1, <1>2, <1>3, <1>4, <1>5 DEF CatalogInv

\* Rejection turns all drafts of an unpublished upload into rejected versions.
LEMMA RejectInv ==
  ASSUME CatalogInv, NEW b \in Batches, Reject(b)
  PROVE  CatalogInv'
<1>. USE DEF CatalogInv, Reject
<1>1. \A s \in Scopes : verStatus[b][s] \in {"none", "draft"}
  BY DEF DraftsTogether, ScopesOf
<1>2. \A c \in Batches, s \in Scopes :
        verStatus'[c][s] = IF c # b \/ verStatus[c][s] = "none"
                           THEN verStatus[c][s] ELSE "rejected"
  BY DEF TypeOK, ScopesOf
<1>3. TypeOK'
  BY DEF TypeOK
<1>4. PointerConsistent'
  BY <1>1, <1>2 DEF PointerConsistent
<1>5. RollbackChainSound'
  BY <1>1, <1>2 DEF RollbackChainSound, TypeOK
<1>6. DraftsTogether'
  <2>1. \A c \in Batches : batchStatus'[c] \in Reprocessable =>
          c # b /\ batchStatus[c] \in Reprocessable
    BY DEF TypeOK
  <2>. QED  BY <1>1, <1>2, <2>1 DEF DraftsTogether, ScopesOf
<1>7. VersionNumbersUnique'
  BY <1>2 DEF VersionNumbersUnique, ScopesOf
<1>. QED  BY <1>3, <1>4, <1>5, <1>6, <1>7

-----------------------------------------------------------------------------
(* Staging *)

\* The number a draft gets exceeds every other number in its scope.
LEMMA NextNumberExceeds ==
  ASSUME NEW b \in Batches, NEW s \in Scopes,
         \E n \in 1..MaxVersion : IsNextNumber(b, s, n)
  PROVE  /\ NextNumber(b, s) \in 1..MaxVersion
         /\ \A c \in Batches \ {b} : verNumber[c][s] < NextNumber(b, s)
BY DEF NextNumber, IsNextNumber

\* New drafts take fresh numbers and replace the visible versions.  References
\* to the deleted rows become NULL, so it does not matter what those were.
LEMMA PersistInv ==
  ASSUME CatalogInv, NEW b \in Batches, NEW S \in SUBSET Scopes,
         NEW valid \in BOOLEAN, PersistPreview(b, S, valid)
  PROVE  CatalogInv'
<1>. USE DEF CatalogInv
<1>0. \A s \in Scopes : active[s] # b
  BY DEF PersistPreview, ActiveScopes
<1>1. /\ \A s \in Scopes : verStatus'[b][s] = IF s \in S THEN "draft" ELSE "none"
      /\ \A c \in Batches \ {b} : verStatus'[c] = verStatus[c]
  BY DEF PersistPreview, Restaged, TypeOK
<1>2. /\ \A s \in Scopes : verNumber'[b][s] = IF s \in S THEN NextNumber(b, s) ELSE 0
      /\ \A c \in Batches \ {b} : verNumber'[c] = verNumber[c]
  BY DEF PersistPreview, Restaged, TypeOK
<1>3. /\ \A s \in Scopes : verPrev'[b][s] = IF s \in S THEN active[s] ELSE NoBatch
      /\ \A c \in Batches \ {b}, s \in Scopes :
           verPrev'[c][s] = IF verPrev[c][s] = b THEN NoBatch ELSE verPrev[c][s]
  BY DEF PersistPreview, Restaged, TypeOK
<1>4. \A s \in S : /\ NextNumber(b, s) \in 1..MaxVersion
                   /\ \A c \in Batches \ {b} : verNumber[c][s] < NextNumber(b, s)
  BY NextNumberExceeds DEF PersistPreview
<1>5. TypeOK'
  <2>1. batchStatus' \in [Batches -> BatchStates \cup {"absent", "deleted"}]
    BY DEF PersistPreview, TypeOK
  <2>2. verStatus' \in [Batches -> [Scopes -> VersionStates \cup {"none"}]]
    BY DEF PersistPreview, TypeOK, Restaged
  <2>3. verNumber' \in [Batches -> [Scopes -> 0..MaxVersion]]
    <3>1. Restaged(S, [s \in Scopes |-> 0], [s \in S |-> NextNumber(b, s)])
            \in [Scopes -> 0..MaxVersion]
      BY <1>4, MaxVersionAssumption DEF Restaged
    <3>. QED  BY <3>1 DEF PersistPreview, TypeOK
  <2>4. verPrev' \in [Batches -> [Scopes -> Batches \cup {NoBatch}]]
    BY DEF PersistPreview, TypeOK, Restaged
  <2>. QED  BY <2>1, <2>2, <2>3, <2>4 DEF PersistPreview, TypeOK
<1>6. PointerConsistent'
  <2>1. UNCHANGED active
    BY DEF PersistPreview
  <2>. QED  BY <1>0, <1>1, <2>1 DEF PointerConsistent
<1>7. RollbackChainSound'
  <2>. SUFFICES ASSUME NEW c \in Batches, NEW s \in Scopes, verPrev'[c][s] # NoBatch
                PROVE  /\ verStatus'[c][s] # "none"
                       /\ verStatus'[verPrev'[c][s]][s] \in Published
                       /\ verNumber'[verPrev'[c][s]][s] < verNumber'[c][s]
    BY DEF RollbackChainSound
  <2>1. CASE c = b
    <3>1. s \in S /\ verPrev'[c][s] = active[s] /\ active[s] \in Batches \ {b}
      BY <2>1, <1>0, <1>3 DEF TypeOK
    <3>2. verStatus[active[s]][s] = "active"
      BY <3>1 DEF PointerConsistent
    <3>. QED  BY <2>1, <3>1, <3>2, <1>1, <1>2, <1>4
  <2>2. CASE c # b
    <3>1. verPrev'[c][s] = verPrev[c][s] /\ verPrev[c][s] \in Batches \ {b}
      BY <2>2, <1>3 DEF TypeOK
    <3>. QED  BY <2>2, <3>1, <1>1, <1>2 DEF RollbackChainSound
  <2>. QED  BY <2>1, <2>2
<1>8. DraftsTogether'
  <2>. SUFFICES ASSUME NEW c \in Batches
                PROVE  /\ \/ \A s \in ScopesOf(c)' : verStatus'[c][s] = "draft"
                          \/ \A s \in ScopesOf(c)' : verStatus'[c][s] # "draft"
                       /\ batchStatus'[c] \in Reprocessable =>
                            \A s \in ScopesOf(c)' : verStatus'[c][s] = "draft"
    BY DEF DraftsTogether
  <2>1. CASE c = b
    BY <2>1, <1>1 DEF ScopesOf
  <2>2. CASE c # b
    <3>1. batchStatus'[c] = batchStatus[c]
      BY <2>2 DEF PersistPreview, TypeOK
    <3>. QED  BY <2>2, <3>1, <1>1 DEF ScopesOf, DraftsTogether
  <2>. QED  BY <2>1, <2>2
<1>9. VersionNumbersUnique'
  <2>. SUFFICES ASSUME NEW c \in Batches, NEW d \in Batches, NEW s \in Scopes,
                       c # d, verStatus'[c][s] # "none", verStatus'[d][s] # "none"
                PROVE  verNumber'[c][s] # verNumber'[d][s]
    BY DEF VersionNumbersUnique, ScopesOf
  <2>1. verNumber[c][s] \in Nat /\ verNumber[d][s] \in Nat
    BY MaxVersionAssumption DEF TypeOK
  <2>2. CASE c = b
    BY <2>1, <2>2, <1>1, <1>2, <1>4
  <2>3. CASE d = b
    BY <2>1, <2>3, <1>1, <1>2, <1>4
  <2>4. CASE c # b /\ d # b
    BY <2>4, <1>1, <1>2 DEF VersionNumbersUnique, ScopesOf
  <2>. QED  BY <2>2, <2>3, <2>4
<1>. QED  BY <1>5, <1>6, <1>7, <1>8, <1>9

-----------------------------------------------------------------------------
(* Moving pointers *)

\* What each of the four lifecycle operations has to show of itself.  `t` names
\* the batches whose versions become visible in S; a batch whose drafts become
\* visible has all of its versions in S.
LEMMA MoveInv ==
  ASSUME CatalogInv,
         NEW S \in SUBSET Scopes, NEW t, NEW o \in ValidFallback,
         \A s \in S : t[s] \in Batches \cup {NoBatch},
         \A s \in S : t[s] # NoBatch =>
           \/ verStatus[t[s]][s] \in Published
           \/ \A r \in ScopesOf(t[s]) : r \in S /\ t[r] = t[s],
         \A s \in S : t[s] # NoBatch => verStatus[t[s]][s] # "none",
         active' = PointersAfter(S, t),
         verStatus' = StatusesAfter(S, t, o),
         UNCHANGED <<verNumber, verPrev>>,
         batchStatus' \in [Batches -> BatchStates \cup {"absent", "deleted"}],
         \A c \in Batches : batchStatus'[c] \in Reprocessable =>
           /\ batchStatus[c] \in Reprocessable
           /\ \A s \in S : t[s] # c
  PROVE  CatalogInv'
<1>. USE DEF CatalogInv
<1>1. TypeOK' /\ PointerConsistent'
  BY MoveKeepsPointers DEF TypeOK
<1>2. RollbackChainSound'
  BY MoveKeepsChain
<1>3. \A c \in Batches, s \in Scopes :
        /\ verStatus'[c][s] = "none" <=> verStatus[c][s] = "none"
        /\ verStatus'[c][s] = "draft" => verStatus[c][s] = "draft"
        /\ ~(s \in S /\ t[s] = c) =>
             (verStatus[c][s] = "draft" => verStatus'[c][s] = "draft")
        /\ s \in S /\ t[s] = c => verStatus'[c][s] = "active"
  <2>1. \A c \in Batches, s \in Scopes :
          /\ verStatus'[c][s] = "none" => verStatus[c][s] = "none"
          /\ verStatus'[c][s] = "draft" => verStatus[c][s] = "draft"
          /\ ~(s \in S /\ t[s] = c) =>
               /\ verStatus[c][s] = "none" => verStatus'[c][s] = "none"
               /\ verStatus[c][s] = "draft" => verStatus'[c][s] = "draft"
    BY StatusesAfterAt DEF PointerConsistent, TypeOK
  <2>2. \A c \in Batches, s \in Scopes : s \in S /\ t[s] = c => verStatus'[c][s] = "active"
    BY StatusesAfterAt
  <2>3. \A c \in Batches, s \in Scopes : s \in S /\ t[s] = c => verStatus[c][s] # "none"
    BY NoBatchAssumption
  <2>. QED  BY <2>1, <2>2, <2>3
<1>4. DraftsTogether'
  <2>. SUFFICES ASSUME NEW c \in Batches
                PROVE  /\ \/ \A s \in ScopesOf(c)' : verStatus'[c][s] = "draft"
                          \/ \A s \in ScopesOf(c)' : verStatus'[c][s] # "draft"
                       /\ batchStatus'[c] \in Reprocessable =>
                            \A s \in ScopesOf(c)' : verStatus'[c][s] = "draft"
    BY DEF DraftsTogether
  <2>1. ScopesOf(c)' = ScopesOf(c)
    BY <1>3 DEF ScopesOf
  <2>2. CASE \E s \in S : t[s] = c
    <3>1. PICK s \in S : t[s] = c
      BY <2>2
    <3>2. c # NoBatch /\ s \in ScopesOf(c)
      BY <3>1, NoBatchAssumption DEF ScopesOf
    <3>3. \A r \in ScopesOf(c) : verStatus'[c][r] # "draft"
      <4>1. CASE verStatus[c][s] \in Published
        BY <4>1, <3>2, <1>3 DEF DraftsTogether, ScopesOf
      <4>2. CASE \A r \in ScopesOf(c) : r \in S /\ t[r] = c
        BY <4>2, <1>3 DEF ScopesOf
      <4>. QED  BY <4>1, <4>2, <3>1, <3>2
    <3>. QED  BY <2>1, <2>2, <3>3
  <2>3. CASE \A s \in S : t[s] # c
    BY <2>1, <2>3, <1>3 DEF DraftsTogether, ScopesOf
  <2>. QED  BY <2>2, <2>3
<1>5. VersionNumbersUnique'
  <2>1. \A c \in Batches : ScopesOf(c)' = ScopesOf(c)
    BY <1>3 DEF ScopesOf
  <2>. QED  BY <2>1 DEF VersionNumbersUnique
<1>. QED  BY <1>1, <1>2, <1>4, <1>5

\* Publication makes all drafts of a batch visible at once.
LEMMA PublishInv ==
  ASSUME CatalogInv, NEW b \in Batches, Publish(b)
  PROVE  CatalogInv'
<1>. DEFINE S == ScopesOf(b)
            t == [s \in S |-> b]
<1>1. /\ S \in SUBSET Scopes
      /\ \A s \in S : t[s] \in Batches \cup {NoBatch}
      /\ \A s \in S : t[s] # NoBatch =>
           \/ verStatus[t[s]][s] \in Published
           \/ \A r \in ScopesOf(t[s]) : r \in S /\ t[r] = t[s]
      /\ \A s \in S : t[s] # NoBatch => verStatus[t[s]][s] # "none"
  BY DEF ScopesOf
<1>2. /\ active' = PointersAfter(S, t)
      /\ verStatus' = StatusesAfter(S, t, "superseded")
      /\ UNCHANGED <<verNumber, verPrev>>
  BY DEF Publish
<1>3. batchStatus' \in [Batches -> BatchStates \cup {"absent", "deleted"}]
  BY DEF Publish, Visibility, CatalogInv, TypeOK
<1>4. \A c \in Batches : batchStatus'[c] \in Reprocessable =>
           /\ batchStatus[c] \in Reprocessable
           /\ \A s \in S : t[s] # c
  BY DEF Publish, Visibility
<1>. QED  BY <1>1, <1>2, <1>3, <1>4, MoveInv

\* A rollback returns to predecessors, which were published.
LEMMA RollbackInv ==
  ASSUME CatalogInv, NEW b \in Batches, Rollback(b)
  PROVE  CatalogInv'
<1>. DEFINE S == ScopesOf(b)
            t == [s \in S |-> verPrev[b][s]]
<1>0. S \in SUBSET Scopes
  BY DEF ScopesOf
<1>1. \A s \in S : t[s] \in Batches \cup {NoBatch} /\ verStatus[t[s]][s] \in Published
  BY <1>0 DEF Rollback, CatalogInv, TypeOK, RollbackChainSound
<1>2. /\ active' = PointersAfter(S, t)
      /\ verStatus' = StatusesAfter(S, t, "rolled_back")
      /\ UNCHANGED <<verNumber, verPrev>>
  BY DEF Rollback
<1>3. batchStatus' \in [Batches -> BatchStates \cup {"absent", "deleted"}]
  BY DEF Rollback, Visibility, CatalogInv, TypeOK
<1>4. \A c \in Batches : batchStatus'[c] \in Reprocessable =>
           /\ batchStatus[c] \in Reprocessable
           /\ \A s \in S : t[s] # c
  <2>1. ASSUME NEW c \in Batches, batchStatus'[c] \in Reprocessable
        PROVE  c # b /\ (\A s \in S : t[s] # c) /\ batchStatus'[c] = batchStatus[c]
    BY <2>1 DEF Rollback, Visibility
  <2>. QED  BY <2>1
<1>. QED  BY <1>0, <1>1, <1>2, <1>3, <1>4, MoveInv

\* A restoration moves pointers to versions that were published.
LEMMA RestoreInv ==
  ASSUME CatalogInv, NEW b \in Batches, Restore(b)
  PROVE  CatalogInv'
<1>. DEFINE S == ScopesOf(b) \ ActiveScopes(b)
            t == [s \in S |-> b]
<1>0. S \in SUBSET Scopes
  BY DEF ScopesOf
<1>1. \A s \in S : t[s] \in Batches \cup {NoBatch} /\ verStatus[t[s]][s] \in Published
  BY DEF Restore, Restorable, CatalogInv, TypeOK, ScopesOf
<1>2. /\ active' = PointersAfter(S, t)
      /\ verStatus' = StatusesAfter(S, t, "rolled_back")
      /\ UNCHANGED <<verNumber, verPrev>>
  BY DEF Restore
<1>3. batchStatus' \in [Batches -> BatchStates \cup {"absent", "deleted"}]
  BY DEF Restore, Visibility, CatalogInv, TypeOK
<1>4. \A c \in Batches : batchStatus'[c] \in Reprocessable =>
           /\ batchStatus[c] \in Reprocessable
           /\ \A s \in S : t[s] # c
  BY DEF Restore, Visibility
<1>. QED  BY <1>0, <1>1, <1>2, <1>3, <1>4, MoveInv

\* Fallbacks were published, and no pointer of the batch is left.
LEMMA DeactivateInv ==
  ASSUME CatalogInv, NEW b \in Batches, Deactivate(b)
  PROVE  CatalogInv'
<1>. DEFINE S == ActiveScopes(b)
<1>0. S \in SUBSET Scopes
  BY DEF ActiveScopes
<1>1. PICK r \in NoReplacement(b) \cup PreviousReplacement(b) \cup SelectedReplacement(b) :
        /\ active' = PointersAfter(S, r)
        /\ verStatus' = StatusesAfter(S, r, "deactivated")
        /\ batchStatus' = [c \in Batches |->
             CASE c = b -> "deactivated"
               [] c # b /\ (\E s \in S : r[s] = c) -> "active"
               [] OTHER -> batchStatus[c]]
        /\ UNCHANGED <<verNumber, verPrev>>
  BY DEF Deactivate
<1>2. \A s \in S : \/ r[s] = NoBatch
                   \/ r[s] \in Batches /\ verStatus[r[s]][s] \in Published
  BY DEF NoReplacement, PreviousReplacement, SelectedReplacement, PreviousVersion, Candidates
<1>3. batchStatus' \in [Batches -> BatchStates \cup {"absent", "deleted"}]
  BY <1>1 DEF CatalogInv, TypeOK
<1>4. \A c \in Batches : batchStatus'[c] \in Reprocessable =>
           /\ batchStatus[c] \in Reprocessable
           /\ \A s \in S : r[s] # c
  <2>1. \A s \in S : r[s] # b
    BY NoBatchAssumption DEF NoReplacement, PreviousReplacement, SelectedReplacement,
       PreviousVersion, Candidates
  <2>. QED  BY <1>1, <2>1
<1>5. /\ \A s \in S : r[s] \in Batches \cup {NoBatch}
      /\ \A s \in S : r[s] # NoBatch => verStatus[r[s]][s] \in Published
      /\ \A s \in S : r[s] # NoBatch => verStatus[r[s]][s] # "none"
  BY <1>2
<1>6. /\ active' = PointersAfter(S, r)
      /\ verStatus' = StatusesAfter(S, r, "deactivated")
      /\ UNCHANGED <<verNumber, verPrev>>
  BY <1>1
<1>. HIDE DEF S
<1>. QED  BY <1>0, <1>3, <1>4, <1>5, <1>6, MoveInv

-----------------------------------------------------------------------------
(* Deletion *)

\* Deleting b moves its pointers, removes its rows and gives the versions that
\* replaced b's the predecessors of b's: numbers still decrease along the
\* references, because they did along both of the joined ones.
LEMMA DeleteInv ==
  ASSUME CatalogInv, NEW b \in Batches, Delete(b)
  PROVE  CatalogInv'
<1>. USE DEF CatalogInv
<1>. DEFINE S == ActiveScopes(b)
<1>1. PICK r \in AutomaticReplacement(b) :
        /\ active' = PointersAfter(S, r)
        /\ verStatus' = [StatusesAfter(S, r, "deactivated")
                           EXCEPT ![b] = [s \in Scopes |-> "none"]]
        /\ verNumber' = [verNumber EXCEPT ![b] = [s \in Scopes |-> 0]]
        /\ verPrev' = [c \in Batches |-> [s \in Scopes |->
             IF c = b THEN NoBatch ELSE SuccessorsRewired(b, c, s)]]
        /\ batchStatus' = [c \in Batches |->
             CASE c = b -> "deleted"
               [] c # b /\ (\E s \in S : r[s] = c) -> "active"
               [] OTHER -> batchStatus[c]]
  BY DEF Delete
<1>2. \A s \in S : \/ r[s] = NoBatch
                   \/ r[s] \in Batches \ {b} /\ verStatus[r[s]][s] \in ValidFallback
  BY DEF AutomaticReplacement, PreviousVersion, Candidates
<1>3. \A s \in Scopes : s \in S <=> active[s] = b
  BY DEF ActiveScopes
<1>4. \A s \in Scopes : active'[s] = IF s \in S THEN r[s] ELSE active[s]
  BY <1>1, PointersAfterAt
<1>5. /\ \A s \in Scopes : verStatus'[b][s] = "none"
      /\ \A c \in Batches \ {b}, s \in Scopes :
           verStatus'[c][s] = IF s \in S /\ r[s] = c THEN "active" ELSE verStatus[c][s]
  <2>1. /\ \A s \in Scopes : verStatus'[b][s] = "none"
        /\ \A c \in Batches \ {b} : verStatus'[c] = StatusesAfter(S, r, "deactivated")[c]
    BY <1>1 DEF StatusesAfter
  <2>. QED  BY <2>1, <1>3, StatusesAfterAt
<1>6. /\ \A s \in Scopes : verNumber'[b][s] = 0
      /\ \A c \in Batches \ {b} : verNumber'[c] = verNumber[c]
  BY <1>1 DEF TypeOK
<1>7. /\ \A s \in Scopes : verPrev'[b][s] = NoBatch
      /\ \A c \in Batches \ {b}, s \in Scopes :
           verPrev'[c][s] = IF verPrev[c][s] = b THEN verPrev[b][s] ELSE verPrev[c][s]
  BY <1>1 DEF SuccessorsRewired
<1>. HIDE DEF S
<1>8. TypeOK'
  <2>1. batchStatus' \in [Batches -> BatchStates \cup {"absent", "deleted"}]
    BY <1>1 DEF TypeOK
  <2>2. verStatus' \in [Batches -> [Scopes -> VersionStates \cup {"none"}]]
    BY <1>1 DEF TypeOK, StatusesAfter
  <2>3. verNumber' \in [Batches -> [Scopes -> 0..MaxVersion]]
    BY <1>1, MaxVersionAssumption DEF TypeOK
  <2>4. verPrev' \in [Batches -> [Scopes -> Batches \cup {NoBatch}]]
    BY <1>1 DEF TypeOK, SuccessorsRewired
  <2>5. active' \in [Scopes -> Batches \cup {NoBatch}]
    BY <1>1, <1>2 DEF TypeOK, PointersAfter
  <2>. QED  BY <2>1, <2>2, <2>3, <2>4, <2>5 DEF TypeOK
<1>9. PointerConsistent'
  <2>. SUFFICES ASSUME NEW c \in Batches, NEW s \in Scopes
                PROVE  active'[s] = c <=> verStatus'[c][s] = "active"
    BY DEF PointerConsistent
  <2>1. CASE c = b
    BY <2>1, <1>2, <1>3, <1>4, <1>5, NoBatchAssumption
  <2>2. CASE c # b
    BY <2>2, <1>2, <1>3, <1>4, <1>5 DEF PointerConsistent
  <2>. QED  BY <2>1, <2>2
<1>10. RollbackChainSound'
  <2>. SUFFICES ASSUME NEW c \in Batches, NEW s \in Scopes, verPrev'[c][s] # NoBatch
                PROVE  /\ verStatus'[c][s] # "none"
                       /\ verStatus'[verPrev'[c][s]][s] \in Published
                       /\ verNumber'[verPrev'[c][s]][s] < verNumber'[c][s]
    BY DEF RollbackChainSound
  <2>. DEFINE d == verPrev'[c][s]
  <2>1. c # b
    BY <1>7
  <2>2. \A x, y \in Batches : verPrev[x][s] = y =>
          /\ verStatus[x][s] # "none"
          /\ verStatus[y][s] \in Published
          /\ verNumber[y][s] < verNumber[x][s]
    BY NoBatchAssumption DEF RollbackChainSound
  <2>3. \A x \in Batches : verNumber[x][s] \in Nat
    BY MaxVersionAssumption DEF TypeOK
  <2>4. /\ d \in Batches \ {b}
        /\ verStatus[c][s] # "none"
        /\ verStatus[d][s] \in Published
        /\ verNumber[d][s] < verNumber[c][s]
    <3>1. d \in Batches
      BY <2>1, <1>7 DEF TypeOK
    <3>2. CASE verPrev[c][s] = b
      BY <2>1, <2>2, <2>3, <3>1, <3>2, <1>7
    <3>3. CASE verPrev[c][s] # b
      BY <2>1, <2>2, <2>3, <3>1, <3>3, <1>7
    <3>. QED  BY <3>2, <3>3
  <2>. QED  BY <2>1, <2>4, <1>5, <1>6
<1>11. \A c \in Batches \ {b}, s \in Scopes :
         /\ verStatus'[c][s] = "none" <=> verStatus[c][s] = "none"
         /\ verStatus'[c][s] = "draft" <=> verStatus[c][s] = "draft"
  BY <1>2, <1>5, NoBatchAssumption
<1>12. DraftsTogether'
  <2>1. \A c \in Batches \ {b} : batchStatus'[c] \in Reprocessable =>
          batchStatus[c] \in Reprocessable
    BY <1>1
  <2>2. batchStatus'[b] \notin Reprocessable
    BY <1>1
  <2>3. \A c \in Batches \ {b} : ScopesOf(c)' = ScopesOf(c)
    BY <1>11 DEF ScopesOf
  <2>4. ScopesOf(b)' = {}
    BY <1>5 DEF ScopesOf
  <2>. QED  BY <2>1, <2>2, <2>3, <2>4, <1>11 DEF DraftsTogether, ScopesOf
<1>13. VersionNumbersUnique'
  BY <1>5, <1>6, <1>11 DEF VersionNumbersUnique, ScopesOf
<1>. QED  BY <1>8, <1>9, <1>10, <1>12, <1>13

-----------------------------------------------------------------------------
(* The invariant of the specification *)

\* Every transaction keeps the invariant.
LEMMA NextInv ==
  ASSUME CatalogInv, [CatalogNext]_catalogVars
  PROVE  CatalogInv'
<1>1. CASE UNCHANGED catalogVars
  BY <1>1 DEF catalogVars, CatalogInv, TypeOK, PointerConsistent, RollbackChainSound,
     DraftsTogether, VersionNumbersUnique, ScopesOf
<1>2. ASSUME NEW b \in Batches, ProcessingStep(b)
      PROVE  CatalogInv'
  <2>1. CASE Upload(b)
    BY <2>1, StatusWriteInv DEF Upload
  <2>2. CASE MarkProcessing(b)
    BY <2>2, StatusWriteInv DEF MarkProcessing, SetBatchStatus
  <2>3. CASE FailProcessing(b)
    BY <2>3, StatusWriteInv DEF FailProcessing, SetBatchStatus
  <2>4. CASE Requeue(b)
    BY <2>4, StatusWriteInv DEF Requeue, SetBatchStatus
  <2>5. CASE FailExhausted(b)
    BY <2>5, StatusWriteInv DEF FailExhausted, SetBatchStatus
  <2>6. CASE \E S \in SUBSET Scopes, valid \in BOOLEAN : PersistPreview(b, S, valid)
    BY <2>6, PersistInv
  <2>. QED  BY <1>2, <2>1, <2>2, <2>3, <2>4, <2>5, <2>6 DEF ProcessingStep
<1>3. ASSUME NEW b \in Batches, LifecycleStep(b)
      PROVE  CatalogInv'
  BY <1>3, PublishInv, RejectInv, RollbackInv, RestoreInv, DeactivateInv, DeleteInv
     DEF LifecycleStep
<1>. QED  BY <1>1, <1>2, <1>3 DEF CatalogNext

\* In every state the catalogue can reach, however the transactions of
\* workers and administrators follow each other, all five facts hold at once.
THEOREM CatalogInvariant == CatalogSpec => []CatalogInv
<1>1. CatalogInit => CatalogInv
  BY InitInv
<1>2. CatalogInv /\ [CatalogNext]_catalogVars => CatalogInv'
  BY NextInv
<1>. QED  BY <1>1, <1>2, PTL DEF CatalogSpec

\* The tables keep their types.
THEOREM TypeCorrect == CatalogSpec => []TypeOK
<1>1. CatalogInv => TypeOK
  BY DEF CatalogInv
<1>. QED  BY <1>1, CatalogInvariant, PTL

\* Pointers and version statuses, written by five different transactions,
\* always agree.
THEOREM PointersAgree == CatalogSpec => []PointerConsistent
<1>1. CatalogInv => PointerConsistent
  BY DEF CatalogInv
<1>. QED  BY <1>1, CatalogInvariant, PTL

\* The numbers computed under the scope lock never collide in the unique index,
\* and an undo, and an undo of an undo, only ever finds an older version that
\* has been visible before.
THEOREM HistoryStaysInLine == CatalogSpec => []HistoryInLine
<1>1. CatalogInv => HistoryInLine
  BY DEF CatalogInv, HistoryInLine
<1>. QED  BY <1>1, CatalogInvariant, PTL

\* A file's datasets are drafts together or not at all.
THEOREM AllOrNothing == CatalogSpec => []DraftsTogether
<1>1. CatalogInv => DraftsTogether
  BY DEF CatalogInv
<1>. QED  BY <1>1, CatalogInvariant, PTL

-----------------------------------------------------------------------------
(* What a step may never do *)

\* A scope keeps its version, gets one that was visible before, or gets, by
\* publication, the draft of a ready batch that was staged against the
\* version it replaces.
LEMMA WhereAPointerGoes ==
  ASSUME CatalogInv, CatalogNext, NEW b \in Batches, NEW s \in Scopes, active'[s] = b
  PROVE  \/ active[s] = b
         \/ verStatus[b][s] \in Published
         \/ /\ batchStatus[b] = "ready_to_publish"
            /\ verStatus[b][s] = "draft"
            /\ active[s] = verPrev[b][s]
<1>. USE DEF CatalogInv
<1>1. PICK c \in Batches : ProcessingStep(c) \/ LifecycleStep(c)
  BY DEF CatalogNext
<1>2. CASE ProcessingStep(c) \/ Reject(c)
  BY <1>2 DEF ProcessingStep, Upload, MarkProcessing, FailProcessing, Requeue, FailExhausted,
     SetBatchStatus, PersistPreview, Reject
<1>3. CASE Publish(c)
  <2>1. CASE s \in ScopesOf(c)
    <3>1. b = c
      BY <1>3, <2>1, PointersAfterAt DEF Publish
    <3>. QED  BY <1>3, <2>1, <3>1 DEF Publish, DraftsTogether, ScopesOf
  <2>2. CASE s \notin ScopesOf(c)
    BY <1>3, <2>2, PointersAfterAt DEF Publish
  <2>. QED  BY <2>1, <2>2
<1>4. CASE Rollback(c)
  <2>1. CASE s \in ScopesOf(c)
    <3>1. b = verPrev[c][s]
      BY <1>4, <2>1, PointersAfterAt DEF Rollback
    <3>. QED  BY <3>1, NoBatchAssumption DEF RollbackChainSound
  <2>2. CASE s \notin ScopesOf(c)
    BY <1>4, <2>2, PointersAfterAt DEF Rollback
  <2>. QED  BY <2>1, <2>2
<1>5. CASE Restore(c)
  <2>. DEFINE S == ScopesOf(c) \ ActiveScopes(c)
  <2>1. CASE s \in S
    <3>1. b = c
      BY <1>5, <2>1, PointersAfterAt DEF Restore
    <3>. QED  BY <1>5, <2>1, <3>1 DEF Restore, Restorable, ScopesOf, TypeOK
  <2>2. CASE s \notin S
    BY <1>5, <2>2, PointersAfterAt DEF Restore
  <2>. QED  BY <2>1, <2>2
<1>6. CASE Deactivate(c) \/ Delete(c)
  <2>1. PICK r \in NoReplacement(c) \cup PreviousReplacement(c) \cup SelectedReplacement(c)
                     \cup AutomaticReplacement(c) :
          active' = PointersAfter(ActiveScopes(c), r)
    BY <1>6 DEF Deactivate, Delete
  <2>2. \A x \in ActiveScopes(c) : r[x] = NoBatch \/ verStatus[r[x]][x] \in ValidFallback
    BY DEF NoReplacement, PreviousReplacement, SelectedReplacement, AutomaticReplacement,
       PreviousVersion, Candidates
  <2>. QED  BY <2>1, <2>2, PointersAfterAt, NoBatchAssumption
<1>. QED  BY <1>1, <1>2, <1>3, <1>4, <1>5, <1>6 DEF LifecycleStep

\* No undo, fallback or deletion ever shows data nobody reviewed: what has
\* never been visible becomes visible by publication only.
THEOREM Reveals == CatalogSpec => OnlyPublicationReveals
<1>. DEFINE A == \A b \in Batches, s \in Scopes :
       verStatus[b][s] \in {"none", "draft", "rejected"} /\ active'[s] = b =>
         /\ batchStatus[b] = "ready_to_publish"
         /\ verStatus[b][s] = "draft"
         /\ active[s] = verPrev[b][s]
<1>1. CatalogInv /\ [CatalogNext]_catalogVars => [A]_catalogVars
  <2>. SUFFICES ASSUME CatalogInv, CatalogNext, NEW b \in Batches, NEW s \in Scopes,
                       verStatus[b][s] \in {"none", "draft", "rejected"}, active'[s] = b
                PROVE  /\ batchStatus[b] = "ready_to_publish"
                       /\ verStatus[b][s] = "draft"
                       /\ active[s] = verPrev[b][s]
    OBVIOUS
  <2>1. active[s] # b
    BY DEF CatalogInv, PointerConsistent
  <2>. QED  BY <2>1, WhereAPointerGoes
<1>. QED  BY <1>1, CatalogInvariant, PTL DEF CatalogSpec, OnlyPublicationReveals

\* Deleting an upload from the middle of a scope's history never cuts what its
\* successors can be rolled back to.
THEOREM HistoryKept == CatalogSpec => DeletionKeepsHistory
<1>. DEFINE A == \A b, c \in Batches, s \in Scopes :
       /\ batchStatus[b] # "deleted" /\ batchStatus'[b] = "deleted"
       /\ verPrev[c][s] = b /\ verPrev[b][s] # NoBatch
       => verPrev'[c][s] # NoBatch
<1>1. CatalogInv /\ [CatalogNext]_catalogVars => [A]_catalogVars
  <2>. SUFFICES ASSUME CatalogInv, CatalogNext,
                       NEW b \in Batches, NEW c \in Batches, NEW s \in Scopes,
                       batchStatus[b] # "deleted", batchStatus'[b] = "deleted",
                       verPrev[c][s] = b, verPrev[b][s] # NoBatch
                PROVE  verPrev'[c][s] # NoBatch
    OBVIOUS
  <2>. USE DEF CatalogInv, TypeOK
  <2>1. PICK x \in Batches : ProcessingStep(x) \/ LifecycleStep(x)
    BY DEF CatalogNext
  <2>2. CASE Delete(x)
    <3>1. x = b
      BY <2>2 DEF Delete
    <3>2. c # b
      BY MaxVersionAssumption DEF RollbackChainSound
    <3>. QED  BY <2>2, <3>1, <3>2 DEF Delete, SuccessorsRewired
  <2>3. CASE ProcessingStep(x)
    BY <2>3 DEF ProcessingStep, Upload, MarkProcessing, FailProcessing, Requeue, FailExhausted,
       SetBatchStatus, PersistPreview
  <2>4. CASE Publish(x) \/ Reject(x) \/ Rollback(x) \/ Restore(x) \/ Deactivate(x)
    BY <2>4 DEF Publish, Reject, Rollback, Restore, Deactivate, Visibility
  <2>. QED  BY <2>1, <2>2, <2>3, <2>4 DEF LifecycleStep
<1>. QED  BY <1>1, CatalogInvariant, PTL DEF CatalogSpec, DeletionKeepsHistory

-----------------------------------------------------------------------------
(* Which uploads a transaction can make exist, or unprocessed *)

\* The foreign key of importBatchId: versions go with their upload.
VersionsOwned ==
  \A b \in Batches, s \in Scopes : verStatus[b][s] # "none" => Exists(b)

\* What a transaction other than upload, deletion and requeueing does to an upload.
Lasting(c) ==
  \/ batchStatus'[c] = batchStatus[c]
  \/ Exists(c) /\ batchStatus'[c] \notin {"absent", "deleted", "uploaded"}

\* Versions that a move of pointers changes exist before it.
LEMMA MoveKeepsVersions ==
  ASSUME CatalogInv, VersionsOwned, NEW S \in SUBSET Scopes, NEW t, NEW o,
         \A s \in S : t[s] \in Batches => verStatus[t[s]][s] # "none",
         verStatus' = StatusesAfter(S, t, o)
  PROVE  \A c \in Batches, s \in Scopes :
           verStatus'[c][s] # "none" => verStatus[c][s] # "none"
<1>. SUFFICES ASSUME NEW c \in Batches, NEW s \in Scopes, verStatus'[c][s] # "none"
              PROVE  verStatus[c][s] # "none"
  OBVIOUS
<1>1. CASE s \in S /\ t[s] = c
  BY <1>1
<1>2. CASE active[s] = c
  BY <1>2 DEF CatalogInv, PointerConsistent
<1>3. CASE ~(s \in S /\ t[s] = c) /\ active[s] # c
  BY <1>3, StatusesAfterAt
<1>. QED  BY <1>1, <1>2, <1>3

\* The batches whose versions are shown or hidden exist.
LEMMA ShownExist ==
  ASSUME CatalogInv, VersionsOwned, NEW c \in Batches, NEW s \in Scopes, active[s] = c
  PROVE  Exists(c)
BY DEF CatalogInv, PointerConsistent, VersionsOwned

\* Publication shows the versions of a ready batch, which exists.
LEMMA PublishLasts ==
  ASSUME CatalogInv, VersionsOwned, NEW b \in Batches, Publish(b)
  PROVE  /\ \A c \in Batches : Lasting(c)
         /\ \A c \in Batches, s \in Scopes :
              verStatus'[c][s] # "none" => verStatus[c][s] # "none"
<1>. DEFINE S == ScopesOf(b)
            t == [s \in S |-> b]
<1>1. S \in SUBSET Scopes /\ \A s \in S : verStatus[t[s]][s] # "none"
  BY DEF ScopesOf
<1>2. verStatus' = StatusesAfter(S, t, "superseded")
  BY DEF Publish
<1>3. \A c \in Batches : Lasting(c)
  <2>. SUFFICES ASSUME NEW c \in Batches
                PROVE  Lasting(c)
    OBVIOUS
  <2>1. CASE c = b
    BY <2>1 DEF Publish, Lasting, Exists
  <2>2. CASE c # b /\ \E s \in S : active[s] = c
    BY <2>2, ShownExist, <1>1 DEF Publish, Lasting, Visibility
  <2>3. CASE c # b /\ ~\E s \in S : active[s] = c
    BY <2>3 DEF Publish, Lasting
  <2>. QED  BY <2>1, <2>2, <2>3
<1>. HIDE DEF S, t
<1>. QED  BY <1>1, <1>2, <1>3, MoveKeepsVersions

\* A rollback shows predecessors, which exist.
LEMMA RollbackLasts ==
  ASSUME CatalogInv, VersionsOwned, NEW b \in Batches, Rollback(b)
  PROVE  /\ \A c \in Batches : Lasting(c)
         /\ \A c \in Batches, s \in Scopes :
              verStatus'[c][s] # "none" => verStatus[c][s] # "none"
<1>. DEFINE S == ScopesOf(b)
            t == [s \in S |-> verPrev[b][s]]
<1>1. S \in SUBSET Scopes /\ S # {}
  BY DEF ScopesOf, Rollback
<1>2. ASSUME NEW s \in S
      PROVE  t[s] \in Batches /\ verStatus[t[s]][s] # "none"
  <2>1. s \in Scopes /\ t[s] = verPrev[b][s] /\ verPrev[b][s] # NoBatch
    BY DEF Rollback, ScopesOf
  <2>2. verPrev[b][s] \in Batches
    BY <2>1 DEF CatalogInv, TypeOK
  <2>3. verStatus[verPrev[b][s]][s] \in Published
    BY <2>1 DEF CatalogInv, RollbackChainSound
  <2>. QED  BY <2>1, <2>2, <2>3
<1>3. verStatus' = StatusesAfter(S, t, "rolled_back")
  BY DEF Rollback
<1>4. Exists(b)
  BY <1>1 DEF ScopesOf, VersionsOwned
<1>5. \A c \in Batches : Lasting(c)
  <2>. SUFFICES ASSUME NEW c \in Batches
                PROVE  Lasting(c)
    OBVIOUS
  <2>1. CASE c = b
    BY <2>1, <1>4 DEF Rollback, Lasting
  <2>2. CASE c # b /\ \E s \in S : t[s] = c
    <3>1. Exists(c)
      BY <2>2, <1>1, <1>2 DEF VersionsOwned
    <3>. QED  BY <2>2, <3>1 DEF Rollback, Lasting, Visibility
  <2>3. CASE c # b /\ ~\E s \in S : t[s] = c
    BY <2>3 DEF Rollback, Lasting
  <2>. QED  BY <2>1, <2>2, <2>3
<1>. HIDE DEF S, t
<1>. QED  BY <1>1, <1>2, <1>3, <1>5, MoveKeepsVersions

\* A restoration shows versions of its batch, which exists.
LEMMA RestoreLasts ==
  ASSUME CatalogInv, VersionsOwned, NEW b \in Batches, Restore(b)
  PROVE  /\ \A c \in Batches : Lasting(c)
         /\ \A c \in Batches, s \in Scopes :
              verStatus'[c][s] # "none" => verStatus[c][s] # "none"
<1>. DEFINE S == ScopesOf(b) \ ActiveScopes(b)
            t == [s \in S |-> b]
<1>1. S \in SUBSET Scopes /\ S # {} /\ \A s \in S : verStatus[t[s]][s] # "none"
  BY DEF ScopesOf, Restore
<1>2. verStatus' = StatusesAfter(S, t, "rolled_back")
  BY DEF Restore
<1>3. Exists(b)
  BY <1>1 DEF ScopesOf, VersionsOwned
<1>4. \A c \in Batches : Lasting(c)
  <2>. SUFFICES ASSUME NEW c \in Batches
                PROVE  Lasting(c)
    OBVIOUS
  <2>1. CASE c = b
    BY <2>1, <1>3 DEF Restore, Lasting, Visibility
  <2>2. CASE c # b /\ \E s \in S : active[s] = c
    BY <2>2, ShownExist, <1>1 DEF Restore, Lasting, Visibility
  <2>3. CASE c # b /\ ~\E s \in S : active[s] = c
    BY <2>3 DEF Restore, Lasting
  <2>. QED  BY <2>1, <2>2, <2>3
<1>. HIDE DEF S, t
<1>. QED  BY <1>1, <1>2, <1>4, MoveKeepsVersions

\* A deactivation shows fallbacks, which exist.
LEMMA DeactivateLasts ==
  ASSUME CatalogInv, VersionsOwned, NEW b \in Batches, Deactivate(b)
  PROVE  /\ \A c \in Batches : Lasting(c)
         /\ \A c \in Batches, s \in Scopes :
              verStatus'[c][s] # "none" => verStatus[c][s] # "none"
<1>. DEFINE S == ActiveScopes(b)
<1>1. S \in SUBSET Scopes
  BY DEF ActiveScopes
<1>2. PICK r \in NoReplacement(b) \cup PreviousReplacement(b) \cup SelectedReplacement(b) :
        /\ Exists(b)
        /\ verStatus' = StatusesAfter(S, r, "deactivated")
        /\ batchStatus' = [c \in Batches |->
             CASE c = b -> "deactivated"
               [] c # b /\ (\E s \in S : r[s] = c) -> "active"
               [] OTHER -> batchStatus[c]]
  BY DEF Deactivate
<1>3. \A s \in S : r[s] \in Batches => verStatus[r[s]][s] # "none"
  <2>1. \A s \in S : r[s] = NoBatch \/ verStatus[r[s]][s] \in ValidFallback
    BY DEF NoReplacement, PreviousReplacement, SelectedReplacement, PreviousVersion, Candidates
  <2>. QED  BY <2>1, NoBatchAssumption
<1>4. \A c \in Batches : Lasting(c)
  <2>. SUFFICES ASSUME NEW c \in Batches
                PROVE  Lasting(c)
    OBVIOUS
  <2>1. CASE c = b
    BY <2>1, <1>2 DEF Lasting
  <2>2. CASE c # b /\ \E s \in S : r[s] = c
    <3>1. Exists(c)
      BY <2>2, <1>1, <1>3 DEF VersionsOwned
    <3>. QED  BY <2>2, <3>1, <1>2 DEF Lasting
  <2>3. CASE c # b /\ ~\E s \in S : r[s] = c
    BY <2>3, <1>2 DEF Lasting
  <2>. QED  BY <2>1, <2>2, <2>3
<1>. HIDE DEF S
<1>. QED  BY <1>1, <1>2, <1>3, <1>4, MoveKeepsVersions

\* Nothing but an upload, a deletion and a requeueing makes an upload appear,
\* disappear or wait again.
LEMMA StepsLast ==
  ASSUME CatalogInv, VersionsOwned, NEW b \in Batches,
         \/ MarkProcessing(b) \/ FailProcessing(b) \/ FailExhausted(b)
         \/ \E S \in SUBSET Scopes, valid \in BOOLEAN : PersistPreview(b, S, valid)
         \/ Publish(b) \/ Reject(b) \/ Rollback(b) \/ Restore(b) \/ Deactivate(b)
  PROVE  VersionsOwned' /\ \A c \in Batches : Lasting(c)
<1>1. ASSUME \A c \in Batches : Lasting(c),
             \A c \in Batches, s \in Scopes :
               verStatus'[c][s] # "none" => verStatus[c][s] # "none"
      PROVE  VersionsOwned'
  BY <1>1 DEF VersionsOwned, Lasting, Exists
<1>2. CASE MarkProcessing(b) \/ FailProcessing(b) \/ FailExhausted(b)
  <2>0. \/ batchStatus' = [batchStatus EXCEPT ![b] = "processing"]
        \/ batchStatus' = [batchStatus EXCEPT ![b] = "failed"]
    BY <1>2 DEF MarkProcessing, FailProcessing, FailExhausted, SetBatchStatus
  <2>1. \A c \in Batches : Lasting(c)
    <3>1. Exists(b)
      BY <1>2 DEF MarkProcessing, FailProcessing, FailExhausted, SetBatchStatus
    <3>. QED  BY <2>0, <3>1 DEF Lasting, CatalogInv, TypeOK
  <2>2. UNCHANGED verStatus
    BY <1>2 DEF MarkProcessing, FailProcessing, FailExhausted, SetBatchStatus
  <2>. QED  BY <1>1, <2>1, <2>2
<1>3. ASSUME NEW S \in SUBSET Scopes, NEW valid \in BOOLEAN, PersistPreview(b, S, valid)
      PROVE  VersionsOwned' /\ \A c \in Batches : Lasting(c)
  <2>0. batchStatus'[b] \in {"ready_to_publish", "validation_failed"}
    BY <1>3 DEF PersistPreview, CatalogInv, TypeOK
  <2>1. Exists(b) /\ Exists(b)'
    BY <1>3, <2>0 DEF PersistPreview, Exists
  <2>3. \A c \in Batches \ {b} : verStatus'[c] = verStatus[c] /\ batchStatus'[c] = batchStatus[c]
    BY <1>3 DEF PersistPreview, CatalogInv, TypeOK
  <2>2. \A c \in Batches : Lasting(c)
    BY <2>0, <2>1, <2>3 DEF Lasting
  <2>. QED  BY <2>1, <2>2, <2>3 DEF VersionsOwned, Exists
<1>4. CASE Reject(b)
  <2>1. \A c \in Batches : Lasting(c)
    BY <1>4 DEF Reject, Lasting, Exists, CatalogInv, TypeOK
  <2>2. \A c \in Batches, s \in Scopes :
          verStatus'[c][s] # "none" => verStatus[c][s] # "none"
    BY <1>4 DEF Reject, ScopesOf, CatalogInv, TypeOK
  <2>. QED  BY <1>1, <2>1, <2>2
<1>5. CASE Publish(b) \/ Rollback(b) \/ Restore(b) \/ Deactivate(b)
  BY <1>5, <1>1, PublishLasts, RollbackLasts, RestoreLasts, DeactivateLasts
<1>. QED  BY <1>2, <1>3, <1>4, <1>5

=============================================================================
