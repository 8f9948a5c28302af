------------------------ MODULE QueueDelivery_proofs ------------------------
(***************************************************************************)
(* Proofs about the deliveries of a task, for any sets of items, targets   *)
(* and groups and any bounds.                                              *)
(***************************************************************************)
EXTENDS QueueDelivery, WellFoundedInduction, TLAPS

\* One operation is active at most, only its items are worked at.
RunInv ==
  /\ live # NoOp => op[live].status = "RUNNING"
  /\ \A o, p \in Op : Active(o) /\ Active(p) => o = p
  /\ \A o \in Op : ~Present(o) => op[o].items = {}
  /\ \A i \in Item : i \notin Items => exec[i].at = "idle"

\* What the checkpoint, the history and the staging of an item say about its
\* package, wherever its submitOne is.
Evidence(i) ==
  /\ published[i] <= 1
  /\ published[i] > 0 => ckpt[i].phase \notin Rebuildable
  /\ ckpt[i].phase \in {"TARGET_COMMITTED", "COMPLETE"} => published[i] > 0
  /\ ckpt[i].phase \in Uncertain => published[i] > 0 \/ targetTemp[i] = "complete"
  /\ targetTemp[i] # "absent" => published[i] = 0
  /\ (ckpt[i].phase = "COMPLETE") <=> (hist[i] = "SUCCESS")

\* What submitOne knows of the item where it is.
Knows(i) ==
  /\ exec[i].at = "prepare" => ckpt[i].phase \in Rebuildable
  /\ exec[i].at \in {"clear", "build", "verify", "intend"} => ckpt[i].phase \in Rebuildable \ {"NONE"}
  /\ exec[i].at \in {"verify", "intend", "rename"} => targetTemp[i] = "complete"
  /\ exec[i].at \in {"rename", "receipt", "doubt"} => ckpt[i].phase \in Uncertain
  /\ exec[i].at = "receipt" => published[i] > 0
  /\ exec[i].at \in {"archive", "archived", "unarchived"} => ckpt[i].phase = "TARGET_COMMITTED"
  /\ exec[i].at = "archived" => i \in {Cell(i).base} \cup Cell(i).merged
  /\ exec[i].at = "ended" => ckpt[i].phase \notin Uncertain /\ hist[i] # "NONE"

ItemInv == \A i \in Item : Evidence(i) /\ Knows(i)

\* Only a package that was published is seen in a queue, only one that is in
\* the queue is in the archive.
PlaceInv ==
  /\ \A t \in Target, n \in Name : target[t][n] # NoItem => published[target[t][n]] > 0
  /\ \A n \in Name : /\ archive[n].base # NoItem => ckpt[archive[n].base].phase # "NONE"
                     /\ \A i \in archive[n].merged : ckpt[i].phase # "NONE"
  /\ ArchiveAgrees

\* A checkpoint belongs to an operation that has the item.
OwnerInv ==
  /\ \A i \in Item : ckpt[i].phase # "NONE" => ckpt[i].owner \in Op /\ i \in op[ckpt[i].owner].items
  /\ OwnerKeepsLock

Inv == TypeOK /\ RunInv /\ ItemInv /\ PlaceInv /\ OwnerInv

---------------------------------------------------------------------------
(* Writing the records of an item. *)

\* submitOne of item i goes to place p, whatever error it carries.
Went(i, p) ==
  /\ exec' \in [Item -> Executions]
  /\ exec'[i].at = p
  /\ \A j \in Item \ {i} : exec'[j] = exec[j]

\* The checkpoint of item i gets a phase.
Phased(i, phase) ==
  /\ ckpt' \in [Item -> Checkpoints]
  /\ ckpt'[i].phase = phase
  /\ ckpt'[i].owner = ckpt[i].owner /\ ckpt'[i].name = ckpt[i].name
  /\ ckpt'[i].sel = ckpt[i].sel /\ ckpt'[i].par = ckpt[i].par
  /\ \A j \in Item \ {i} : ckpt'[j] = ckpt[j]

(* A record of where submitOne is. *)
LEMMA WentFacts ==
  ASSUME TypeOK, NEW i \in Item, NEW r \in Executions, exec' = [exec EXCEPT ![i] = r]
  PROVE  Went(i, r.at)
BY DEF TypeOK, Went

(* A plain step of submitOne. *)
LEMMA GotoFacts ==
  ASSUME TypeOK, NEW i \in Item, NEW p \in Place, Goto(i, p)
  PROVE  Went(i, p)
<1> DEFINE r == [exec[i] EXCEPT !.at = p]
<1>1. exec \in [Item -> Executions] /\ exec[i] \in Executions
  BY DEF TypeOK
<1>2. r \in Executions /\ r.at = p
  BY <1>1 DEF Executions
<1>3. exec' = [exec EXCEPT ![i] = r]
  BY <1>1 DEF Goto
<1> HIDE DEF r
<1> QED
  BY <1>2, <1>3, WentFacts

(* A step with an error, to where it is handled. *)
LEMMA ErrorFacts ==
  ASSUME TypeOK, NEW i \in Item, NEW p \in Place, NEW err \in Error,
         exec' = [exec EXCEPT ![i].at = p, ![i].err = err]
  PROVE  Went(i, p)
<1> DEFINE r == [exec[i] EXCEPT !.at = p, !.err = err]
<1>1. exec \in [Item -> Executions] /\ exec[i] \in Executions
  BY DEF TypeOK
<1>2. r \in Executions /\ r.at = p
  BY <1>1 DEF Executions
<1>3. exec' = [exec EXCEPT ![i] = r]
  BY <1>1
<1> HIDE DEF r
<1> QED
  BY <1>2, <1>3, WentFacts

(* An error is caught, or thrown. *)
LEMMA ThrowFacts ==
  ASSUME TypeOK, NEW i \in Item, ThrowRaw(i) \/ \E err \in Error : Throw(i, err)
  PROVE  \E p \in {"caught", "thrown"} : Went(i, p)
<1>1. PICK err \in Error : Throw(i, err)
  BY DEF ThrowRaw, RawErrors, Error
<1> DEFINE p == IF exec[i].fresh THEN "caught" ELSE "thrown"
<1>2. p \in {"caught", "thrown"} /\ p \in Place
  BY DEF Place
<1>3. exec' = [exec EXCEPT ![i].at = p, ![i].err = err]
  BY <1>1 DEF Throw
<1> HIDE DEF p
<1> QED
  BY <1>2, <1>3, ErrorFacts

(* An error escapes from submitOne. *)
LEMMA EscapeFacts ==
  ASSUME TypeOK, NEW i \in Item, NEW err \in Error, Escape(i, err)
  PROVE  Went(i, "thrown")
BY ErrorFacts DEF Escape, Place

(* A phase is saved. *)
LEMMA PhaseFacts ==
  ASSUME TypeOK, NEW i \in Item, NEW phase \in Phase, ckpt' = [ckpt EXCEPT ![i].phase = phase]
  PROVE  Phased(i, phase)
<1> DEFINE c == [ckpt[i] EXCEPT !.phase = phase]
<1>1. ckpt \in [Item -> Checkpoints] /\ ckpt[i] \in Checkpoints
  BY DEF TypeOK
<1>2. /\ c \in Checkpoints /\ c.phase = phase /\ c.owner = ckpt[i].owner /\ c.name = ckpt[i].name
      /\ c.sel = ckpt[i].sel /\ c.par = ckpt[i].par
  BY <1>1 DEF Checkpoints
<1>3. ckpt' = [ckpt EXCEPT ![i] = c]
  BY <1>1
<1> HIDE DEF c
<1> QED
  BY <1>1, <1>2, <1>3 DEF Phased

(* A set of names that is not empty has a first one. *)
LEMMA FirstFreeFacts ==
  ASSUME NEW t \in Target, Free(t) # {}
  PROVE  FirstFree(t) \in Free(t) /\ FirstFree(t) \in Name
<1> DEFINE R == OpToRel(<, Nat)
           S == Free(t)
<1>0. S \subseteq Nat /\ S # {} /\ S \subseteq Name
  BY DEF Free, Name
<1>1. IsWellFoundedOn(R, Nat)
  BY NatLessThanWellFounded
<1>2. PICK n \in S : \A m \in S : ~(<<m, n>> \in R)
  <2> HIDE DEF R, S
  <2> QED
    BY <1>0, <1>1, WFMin
<1>3. \A m \in S : n <= m
  <2>1. \A m \in S : ~(m < n)
    BY <1>0, <1>2 DEF OpToRel
  <2> QED
    BY <1>0, <2>1
<1> QED
  BY <1>0, <1>3 DEF FirstFree

---------------------------------------------------------------------------
(* The steps of submitOne, each with what it leaves the item with. *)

\* The archive only gains packages and parameters.
ArchiveGrows ==
  \A n \in Name : /\ archive[n].base # NoItem => archive'[n].base = archive[n].base
                  /\ archive[n].merged \subseteq archive'[n].merged

\* A step for item i touches no other one.
ItemStep(i) ==
  /\ \E p \in Place : Went(i, p)
  /\ \A j \in Item \ {i} : /\ ckpt'[j] = ckpt[j] /\ hist'[j] = hist[j]
                           /\ targetTemp'[j] = targetTemp[j] /\ published'[j] = published[j]
  /\ ArchiveGrows
  /\ Evidence(i)' /\ Knows(i)'

(* The types and the invariants, for one item. *)
LEMMA ItemFacts ==
  ASSUME Inv, NEW i \in Item
  PROVE  /\ i # NoItem /\ TargetOf[i] \in Target /\ ckpt[i].name \in Name /\ ckpt[i].phase \in Phase
         /\ ckpt[i] \in Checkpoints /\ exec[i] \in Executions /\ row[i] \in Rows
         /\ published[i] \in Nat /\ targetTemp[i] \in Temps /\ Cell(i) \in Cells
         /\ Evidence(i) /\ Knows(i)
BY DeliveryAssumption DEF Inv, TypeOK, Checkpoints, Cell, ItemInv

(* A step that leaves all but the place as it was. *)
LEMMA PlainStep ==
  ASSUME Inv, NEW i \in Item, NEW p \in Place, Went(i, p),
         UNCHANGED <<ckpt, hist, targetTemp, published, archive>>, Knows(i)'
  PROVE  ItemStep(i)
BY ItemFacts DEF ItemStep, ArchiveGrows, Evidence

(* Where an error is handled nothing is known of the item. *)
LEMMA ErrorStep ==
  ASSUME Inv, NEW i \in Item, NEW p \in {"caught", "thrown", "fail"}, Went(i, p),
         UNCHANGED <<ckpt, hist, targetTemp, published, archive>>
  PROVE  ItemStep(i)
<1>1. Knows(i)'
  BY DEF Knows, Went
<1> QED
  BY <1>1, PlainStep DEF Place

(* As ThrowRaw and Throw are used: nothing but the place changes. *)
LEMMA ThrowStep ==
  ASSUME Inv, NEW i \in Item, ThrowRaw(i) \/ (\E err \in Error : Throw(i, err)),
         UNCHANGED <<ckpt, hist, targetTemp, published, archive>>
  PROVE  ItemStep(i)
<1>1. PICK p \in {"caught", "thrown"} : Went(i, p)
  BY ThrowFacts DEF Inv
<1> QED
  BY <1>1, ErrorStep

(* What directories and checkpoint tell is true, so that the way on is right. *)
LEMMA ReconcileStep ==
  ASSUME Inv, NEW i \in Item, Reconcile(i)
  PROVE  ItemStep(i)
<1> DEFINE p == IF ckpt[i].phase = "COMPLETE" THEN "ended"
                ELSE IF ckpt[i].phase = "TARGET_COMMITTED" THEN "archive"
                ELSE IF Delivered(i) THEN "receipt"
                ELSE IF Staged(i) THEN "rename" ELSE "doubt"
<1>1. p \in Place
  BY DEF Place
<1>2. UNCHANGED <<ckpt, hist, targetTemp, published, archive>> /\ Goto(i, p)
  BY DEF Reconcile, store, disk, staging, public
<1>3. Went(i, p)
  BY <1>1, <1>2, GotoFacts DEF Inv
<1>4. ckpt[i].phase \notin Rebuildable /\ ckpt[i].phase \in Phase /\ Evidence(i) /\ i # NoItem
  BY ItemFacts DEF Reconcile
<1>5. Delivered(i) => published[i] > 0
  BY <1>4, ItemFacts DEF Delivered, Inv, PlaceInv
<1>6. Staged(i) => targetTemp[i] = "complete"
  BY DEF Staged
<1>7. exec'[i].at = p
  BY <1>3 DEF Went
<1>8. Knows(i)'
  <2>1. /\ p = "ended" => ckpt[i].phase = "COMPLETE"
        /\ p = "archive" => ckpt[i].phase = "TARGET_COMMITTED"
        /\ p \in {"receipt", "rename", "doubt"} => ckpt[i].phase \in Uncertain
        /\ p = "receipt" => published[i] > 0
        /\ p = "rename" => targetTemp[i] = "complete"
        /\ p \in {"ended", "archive", "receipt", "rename", "doubt"}
    BY <1>4, <1>5, <1>6 DEF Phase
  <2>2. p = "ended" => ckpt[i].phase \notin Uncertain /\ hist[i] # "NONE"
    BY <1>4, <2>1 DEF Uncertain, Evidence
  <2> HIDE DEF p
  <2> QED
    BY <1>2, <1>7, <2>1, <2>2 DEF Knows
<1> HIDE DEF p
<1> QED
  BY <1>1, <1>2, <1>3, <1>8, PlainStep

(* A refusal leaves everything as it was. *)
LEMMA RefuseStep ==
  ASSUME Inv, NEW i \in Item, Refuse(i)
  PROVE  ItemStep(i)
<1>1. exec' = [exec EXCEPT ![i].at = "fail", ![i].err = "permanent"]
  BY SMTT(30) DEF Refuse
<1>2. Went(i, "fail")
  BY <1>1, ErrorFacts DEF Inv, Place, Error
<1>3. UNCHANGED <<ckpt, hist, targetTemp, published, archive>>
  BY DEF Refuse, store, disk, staging, public
<1> QED
  BY <1>2, <1>3, ErrorStep

(* Only what may be built is packaged. *)
LEMMA PackageStep ==
  ASSUME Inv, NEW i \in Item, Package(i)
  PROVE  ItemStep(i)
<1>1. UNCHANGED <<ckpt, hist, targetTemp, published, archive>>
  BY DEF Package, disk, staging, public
<1>2. CASE ThrowRaw(i)
  BY <1>1, <1>2, ThrowStep
<1>3. CASE exec' = [exec EXCEPT ![i].at = "prepare", ![i].fresh = TRUE]
  <2> DEFINE r == [exec[i] EXCEPT !.at = "prepare", !.fresh = TRUE]
  <2>1. r \in Executions /\ r.at = "prepare"
    BY ItemFacts DEF Executions, Place
  <2>2. exec' = [exec EXCEPT ![i] = r]
    BY <1>3 DEF Inv, TypeOK
  <2> HIDE DEF r
  <2>3. Went(i, "prepare")
    BY <2>1, <2>2, WentFacts DEF Inv
  <2>4. Knows(i)'
    BY <1>1, <2>3 DEF Knows, Went, Package
  <2> QED
    BY <1>1, <2>3, <2>4, PlainStep DEF Place
<1> QED
  BY <1>2, <1>3 DEF Package

(* The first checkpoint of an item is written, or found. *)
LEMMA PrepareStep ==
  ASSUME Inv, NEW i \in Item, Prepare(i)
  PROVE  ItemStep(i) /\ ckpt' \in [Item -> Checkpoints]
<1>1. UNCHANGED <<hist, targetTemp, published, archive>>
  BY DEF Prepare, disk, staging, public
<1>2. ckpt \in [Item -> Checkpoints] /\ ckpt[i].phase \in Rebuildable
  BY ItemFacts DEF Inv, TypeOK, Knows, Prepare, At
<1>3. CASE UNCHANGED ckpt /\ (ThrowRaw(i) \/ \E err \in Error : Throw(i, err))
  BY <1>1, <1>2, <1>3, ThrowStep
<1>4. CASE Goto(i, "clear") /\ UNCHANGED ckpt /\ ckpt[i].phase # "NONE"
  <2>1. Went(i, "clear")
    BY <1>4, GotoFacts DEF Inv, Place
  <2>2. Knows(i)'
    BY <1>2, <1>4, <2>1 DEF Knows, Went
  <2> QED
    BY <1>1, <1>2, <1>4, <2>1, <2>2, PlainStep DEF Place
<1>5. ASSUME Goto(i, "clear"), ~NameTaken(i), ckpt[i].phase = "NONE",
             ckpt' = [ckpt EXCEPT ![i] = [phase |-> "PREPARING", owner |-> live, name |-> FirstFree(TargetOf[i]),
                                          sel |-> row[i].sel, par |-> row[i].par]]
      PROVE  ItemStep(i) /\ ckpt' \in [Item -> Checkpoints]
  <2> DEFINE c == [phase |-> "PREPARING", owner |-> live, name |-> FirstFree(TargetOf[i]),
                   sel |-> row[i].sel, par |-> row[i].par]
  <2>1. FirstFree(TargetOf[i]) \in Name
    BY <1>5, FirstFreeFacts, ItemFacts DEF NameTaken
  <2>2. c \in Checkpoints /\ c.phase = "PREPARING"
    <3>1. row[i].sel \in Selection /\ row[i].par \in Parameters /\ live \in Op \cup {NoOp}
      BY ItemFacts DEF Rows, Inv, TypeOK
    <3>2. "PREPARING" \in Phase
      BY DEF Phase, Rebuildable
    <3> QED
      BY <2>1, <3>1, <3>2 DEF Checkpoints
  <2> HIDE DEF c
  <2>3. ckpt' \in [Item -> Checkpoints] /\ ckpt'[i].phase = "PREPARING" /\ \A j \in Item \ {i} : ckpt'[j] = ckpt[j]
    BY <1>2, <1>5, <2>2 DEF c
  <2>4. Went(i, "clear")
    BY <1>5, GotoFacts DEF Inv, Place
  <2>5. Knows(i)'
    BY <2>3, <2>4 DEF Knows, Went, Rebuildable
  <2>6. Evidence(i)'
    BY <1>1, <1>5, <2>3, ItemFacts DEF Evidence, Rebuildable, Uncertain
  <2> QED
    BY <1>1, <2>3, <2>4, <2>5, <2>6 DEF ItemStep, ArchiveGrows, Place
<1> QED
  BY <1>3, <1>4, <1>5 DEF Prepare, Error

(* Staging is only cleared of what may be built again. *)
LEMMA ClearStep ==
  ASSUME Inv, NEW i \in Item, Clear(i)
  PROVE  ItemStep(i)
<1>1. UNCHANGED <<ckpt, hist, published, archive>> /\ targetTemp' = [targetTemp EXCEPT ![i] = "partial"]
  BY DEF Clear, store, public
<1>2. Went(i, "build")
  BY GotoFacts DEF Clear, Inv, Place
<1>3. ckpt[i].phase \in Rebuildable \ {"NONE"} /\ targetTemp \in [Item -> Temps]
  BY ItemFacts DEF Knows, Clear, At, Inv, TypeOK
<1>4. targetTemp'[i] = "partial" /\ \A j \in Item \ {i} : targetTemp'[j] = targetTemp[j]
  BY <1>1, <1>3
<1>5. Knows(i)'
  BY <1>1, <1>2, <1>3 DEF Knows, Went
<1>6. published[i] = 0
  BY <1>3, ItemFacts DEF Evidence
<1>7. Evidence(i)'
  BY <1>1, <1>3, <1>4, <1>6, ItemFacts DEF Evidence, Rebuildable, Uncertain
<1> QED
  BY <1>1, <1>2, <1>4, <1>5, <1>7 DEF ItemStep, ArchiveGrows, Place

(* A package is built of what has not been published. *)
LEMMA BuildStep ==
  ASSUME Inv, NEW i \in Item, Build(i)
  PROVE  ItemStep(i)
<1>1. UNCHANGED <<ckpt, hist, published, archive>>
  BY DEF Build, store, public
<1>2. CASE targetTemp' = [targetTemp EXCEPT ![i] = "complete"] /\ Goto(i, "verify")
  <2>1. Went(i, "verify")
    BY <1>2, GotoFacts DEF Inv, Place
  <2>2. ckpt[i].phase \in Rebuildable \ {"NONE"} /\ targetTemp \in [Item -> Temps]
    BY ItemFacts DEF Knows, Build, At, Inv, TypeOK
  <2>3. targetTemp'[i] = "complete" /\ \A j \in Item \ {i} : targetTemp'[j] = targetTemp[j]
    BY <1>2, <2>2
  <2>4. Knows(i)'
    BY <1>1, <2>1, <2>2, <2>3 DEF Knows, Went
  <2>5. published[i] = 0
    BY <2>2, ItemFacts DEF Evidence
  <2>6. Evidence(i)'
    BY <1>1, <2>2, <2>3, <2>5, ItemFacts DEF Evidence, Rebuildable, Uncertain
  <2> QED
    BY <1>1, <2>1, <2>3, <2>4, <2>6 DEF ItemStep, ArchiveGrows, Place
<1>3. CASE ThrowRaw(i) /\ UNCHANGED targetTemp
  BY <1>1, <1>3, ThrowStep
<1> QED
  BY <1>2, <1>3 DEF Build

(* A phase is saved, and submitOne goes on, or it is not. *)
LEMMA SaveStep ==
  ASSUME Inv, NEW i \in Item, NEW phase \in Phase, NEW p \in Place, SaveCheckpoint(i, phase, p)
  PROVE  /\ UNCHANGED <<hist, targetTemp, published, archive, target, op, live>>
         /\ \/ Phased(i, phase) /\ Went(i, p)
            \/ UNCHANGED ckpt /\ ItemStep(i)
<1>1. UNCHANGED <<hist, targetTemp, published, archive, target, op, live>>
  BY DEF SaveCheckpoint, disk, staging, public
<1>2. CASE ckpt' = [ckpt EXCEPT ![i].phase = phase] /\ Goto(i, p)
  BY <1>1, <1>2, PhaseFacts, GotoFacts DEF Inv
<1>3. CASE ThrowRaw(i) /\ UNCHANGED ckpt
  BY <1>1, <1>3, ThrowStep
<1> QED
  BY <1>1, <1>2, <1>3 DEF SaveCheckpoint

(* The package is complete when the checkpoint says so. *)
LEMMA VerifyStep ==
  ASSUME Inv, NEW i \in Item, Verify(i)
  PROVE  ItemStep(i) /\ ckpt' \in [Item -> Checkpoints]
<1>1. SaveCheckpoint(i, "VERIFIED", "intend") /\ ckpt[i].phase \in Rebuildable \ {"NONE"}
        /\ targetTemp[i] = "complete" /\ Evidence(i)
  BY ItemFacts DEF Verify, At, Knows
<1>2. UNCHANGED <<hist, targetTemp, published, archive>>
  BY <1>1, SaveStep DEF Phase, Rebuildable, Place
<1>3. CASE Phased(i, "VERIFIED") /\ Went(i, "intend")
  BY <1>1, <1>2, <1>3 DEF ItemStep, ArchiveGrows, Phased, Went, Place, Evidence, Knows, Rebuildable, Uncertain
<1>4. CASE UNCHANGED ckpt /\ ItemStep(i)
  BY <1>4 DEF Inv, TypeOK
<1> QED
  BY <1>1, <1>3, <1>4, SaveStep DEF Phase, Rebuildable, Place, Phased

(* The intent is recorded while the package is complete. *)
LEMMA IntendStep ==
  ASSUME Inv, NEW i \in Item, Intend(i)
  PROVE  ItemStep(i) /\ ckpt' \in [Item -> Checkpoints]
<1>1. SaveCheckpoint(i, "COMMIT_INTENT", "rename") /\ ckpt[i].phase \in Rebuildable \ {"NONE"}
        /\ targetTemp[i] = "complete" /\ Evidence(i)
  BY ItemFacts DEF Intend, At, Knows
<1>2. UNCHANGED <<hist, targetTemp, published, archive>>
  BY <1>1, SaveStep DEF Phase, Uncertain, Place
<1>3. CASE Phased(i, "COMMIT_INTENT") /\ Went(i, "rename")
  BY <1>1, <1>2, <1>3 DEF ItemStep, ArchiveGrows, Phased, Went, Place, Evidence, Knows, Rebuildable, Uncertain
<1>4. CASE UNCHANGED ckpt /\ ItemStep(i)
  BY <1>4 DEF Inv, TypeOK
<1> QED
  BY <1>1, <1>3, <1>4, SaveStep DEF Phase, Uncertain, Place, Phased

(* A package is renamed once: staging is empty from then on. *)
LEMMA RenameStep ==
  ASSUME Inv, NEW i \in Item, Rename(i)
  PROVE  ItemStep(i)
<1>1. UNCHANGED <<ckpt, hist, archive>>
  BY DEF Rename, store
<1>2. /\ ckpt[i].phase \in Uncertain /\ targetTemp[i] = "complete" /\ published[i] = 0 /\ Evidence(i)
      /\ published \in [Item -> Nat] /\ targetTemp \in [Item -> Temps]
  BY ItemFacts DEF Rename, At, Knows, Evidence, Inv, TypeOK
<1>3. CASE Enter(i)
  <2>1. /\ published'[i] = 1 /\ targetTemp'[i] = "absent"
        /\ \A j \in Item \ {i} : published'[j] = published[j] /\ targetTemp'[j] = targetTemp[j]
    BY <1>2, <1>3 DEF Enter
  <2>2. Evidence(i)'
    BY <1>1, <1>2, <2>1 DEF Evidence, Rebuildable, Uncertain
  <2>3. CASE Goto(i, "receipt")
    <3>1. Went(i, "receipt")
      BY <2>3, GotoFacts DEF Inv, Place
    <3>2. Knows(i)'
      BY <1>1, <1>2, <2>1, <3>1 DEF Knows, Went
    <3> QED
      BY <1>1, <2>1, <2>2, <3>1, <3>2 DEF ItemStep, ArchiveGrows, Place
  <2>4. CASE ThrowRaw(i)
    <3>1. PICK p \in {"caught", "thrown"} : Went(i, p)
      BY <2>4, ThrowFacts DEF Inv
    <3>2. Knows(i)'
      BY <3>1 DEF Knows, Went
    <3> QED
      BY <1>1, <2>1, <2>2, <3>1, <3>2 DEF ItemStep, ArchiveGrows, Place
  <2>5. CASE UNCHANGED <<public, targetTemp>>
    BY <1>2, <2>1, <2>5 DEF public
  <2> QED
    BY <2>3, <2>4, <2>5 DEF Rename
<1>4. CASE UNCHANGED <<public, targetTemp>> /\ (ThrowRaw(i) \/ Throw(i, "unknown"))
  <2>1. UNCHANGED published
    BY <1>4 DEF public
  <2> QED
    BY <1>1, <1>4, <2>1, ThrowStep DEF Error
<1> QED
  BY <1>3, <1>4 DEF Rename

(* The commit is recorded of what was published. *)
LEMMA ReceiptStep ==
  ASSUME Inv, NEW i \in Item, Receipt(i)
  PROVE  ItemStep(i) /\ ckpt' \in [Item -> Checkpoints]
<1>1. SaveCheckpoint(i, "TARGET_COMMITTED", "archive") /\ ckpt[i].phase \in Uncertain
        /\ published[i] > 0 /\ Evidence(i)
  BY ItemFacts DEF Receipt, At, Knows
<1>2. UNCHANGED <<hist, targetTemp, published, archive>>
  BY <1>1, SaveStep DEF Phase, Place
<1>3. CASE Phased(i, "TARGET_COMMITTED") /\ Went(i, "archive")
  BY <1>1, <1>2, <1>3 DEF ItemStep, ArchiveGrows, Phased, Went, Place, Evidence, Knows, Rebuildable, Uncertain
<1>4. CASE UNCHANGED ckpt /\ ItemStep(i)
  BY <1>4 DEF Inv, TypeOK
<1> QED
  BY <1>1, <1>3, <1>4, SaveStep DEF Phase, Place, Phased

(* A doubt stays uncertain. *)
LEMMA DoubtStep ==
  ASSUME Inv, NEW i \in Item, Doubt(i)
  PROVE  ItemStep(i) /\ ckpt' \in [Item -> Checkpoints]
<1>1. UNCHANGED <<hist, targetTemp, published, archive>>
  BY DEF Doubt, disk, staging, public
<1>2. ckpt[i].phase \in Uncertain /\ Evidence(i)
  BY ItemFacts DEF Doubt, At, Knows
<1>3. CASE ckpt' = [ckpt EXCEPT ![i].phase = "NEEDS_ATTENTION"] /\ Throw(i, "unknown")
  <2>1. Phased(i, "NEEDS_ATTENTION")
    BY <1>3, PhaseFacts DEF Inv, Phase, Uncertain
  <2>2. PICK p \in {"caught", "thrown"} : Went(i, p)
    BY <1>3, ThrowFacts DEF Inv, Error
  <2>3. Knows(i)'
    BY <2>2 DEF Knows, Went
  <2>4. Evidence(i)'
    BY <1>1, <1>2, <2>1 DEF Evidence, Phased, Rebuildable, Uncertain
  <2> QED
    BY <1>1, <2>1, <2>2, <2>3, <2>4 DEF ItemStep, ArchiveGrows, Place, Phased
<1>4. CASE ThrowRaw(i) /\ UNCHANGED ckpt
  <2>1. ckpt' \in [Item -> Checkpoints]
    BY <1>4 DEF Inv, TypeOK
  <2> QED
    BY <1>1, <1>4, <2>1, ThrowStep
<1> QED
  BY <1>3, <1>4 DEF Doubt

(* Renaming, and adding parameters, only add to the archive. *)
LEMMA ArchiveStep ==
  ASSUME Inv, NEW i \in Item, Archive(i)
  PROVE  /\ ItemStep(i) /\ archive' \in [Name -> Cells]
         /\ \/ UNCHANGED archive
            \/ /\ Cell(i).base = NoItem /\ archive'[ckpt[i].name] = [Cell(i) EXCEPT !.base = i]
               /\ \A n \in Name \ {ckpt[i].name} : archive'[n] = archive[n]
            \/ /\ Compatible(i) /\ archive'[ckpt[i].name] = [Cell(i) EXCEPT !.merged = @ \cup {i}]
               /\ \A n \in Name \ {ckpt[i].name} : archive'[n] = archive[n]
<1> DEFINE n == ckpt[i].name
<1>1. UNCHANGED <<ckpt, hist, targetTemp, published>>
  BY DEF Archive, store, public
<1>2. /\ archive \in [Name -> Cells] /\ n \in Name /\ Cell(i) \in Cells /\ Cell(i) = archive[n]
      /\ ckpt[i].phase = "TARGET_COMMITTED" /\ Evidence(i)
  BY ItemFacts DEF Inv, TypeOK, Archive, ArchiveTurn, At, Knows, Cell
<1>3. Went(i, "archived")
  BY GotoFacts DEF Archive, Inv, Place
<1>4. Evidence(i)'
  BY <1>1, <1>2 DEF Evidence
<1>5. ASSUME ArchiveGrows, i \in {archive'[n].base} \cup archive'[n].merged PROVE ItemStep(i)
  <2>1. Knows(i)'
    BY <1>1, <1>2, <1>3, <1>5 DEF Knows, Went, Cell
  <2> QED
    BY <1>1, <1>3, <1>4, <1>5, <2>1 DEF ItemStep, Place
<1>6. CASE Archived(i) /\ UNCHANGED archive
  <2>1. Cell(i).base = i
    BY <1>6 DEF Archived
  <2> QED
    BY <1>2, <1>5, <1>6, <2>1 DEF ArchiveGrows
<1>7. CASE Cell(i).base = NoItem /\ archive' = [archive EXCEPT ![n].base = i]
  <2> DEFINE c == [Cell(i) EXCEPT !.base = i]
  <2>1. c \in Cells /\ c.base = i /\ c.merged = Cell(i).merged
    BY <1>2 DEF Cells
  <2>2. archive' = [archive EXCEPT ![n] = c]
    BY <1>2, <1>7
  <2> HIDE DEF c
  <2>3. archive' \in [Name -> Cells] /\ archive'[n] = c /\ \A m \in Name \ {n} : archive'[m] = archive[m]
    BY <1>2, <2>1, <2>2
  <2>4. ArchiveGrows
    BY <1>2, <1>7, <2>1, <2>3 DEF ArchiveGrows
  <2> QED
    BY <1>5, <1>7, <2>1, <2>3, <2>4 DEF c
<1>8. CASE Compatible(i) /\ archive' = [archive EXCEPT ![n].merged = @ \cup {i}]
  <2> DEFINE c == [Cell(i) EXCEPT !.merged = @ \cup {i}]
  <2>1. c \in Cells /\ c.base = Cell(i).base /\ c.merged = Cell(i).merged \cup {i}
    BY <1>2 DEF Cells
  <2>2. archive' = [archive EXCEPT ![n] = c]
    BY <1>2, <1>8
  <2> HIDE DEF c
  <2>3. archive' \in [Name -> Cells] /\ archive'[n] = c /\ \A m \in Name \ {n} : archive'[m] = archive[m]
    BY <1>2, <2>1, <2>2
  <2>4. ArchiveGrows
    BY <1>2, <2>1, <2>3 DEF ArchiveGrows
  <2> QED
    BY <1>5, <1>8, <2>1, <2>3, <2>4 DEF c
<1> QED
  BY <1>6, <1>7, <1>8 DEF Archive

(* A failing archive changes nothing but the way on. *)
LEMMA ArchiveFailsStep ==
  ASSUME Inv, NEW i \in Item, ArchiveFails(i)
  PROVE  ItemStep(i)
<1>1. UNCHANGED <<ckpt, hist, targetTemp, published, archive>>
  BY DEF ArchiveFails, store, disk, staging, public
<1>2. Went(i, "unarchived")
  BY GotoFacts DEF ArchiveFails, Inv, Place
<1>3. ckpt[i].phase = "TARGET_COMMITTED"
  BY ItemFacts DEF ArchiveFails, ArchiveTurn, At, Knows
<1>4. Knows(i)'
  BY <1>1, <1>2, <1>3 DEF Knows, Went
<1> QED
  BY <1>1, <1>2, <1>4, PlainStep DEF Place

(* The history says SUCCESS of what was archived. *)
LEMMA RecordStep ==
  ASSUME Inv, NEW i \in Item, Record(i)
  PROVE  /\ ItemStep(i) /\ ckpt' \in [Item -> Checkpoints] /\ hist' \in [Item -> Result \cup {"NONE"}]
         /\ \/ UNCHANGED <<ckpt, hist>>
            \/ /\ ckpt[i].phase = "TARGET_COMMITTED" /\ hist'[i] \in {"SUCCESS", "PARTIAL_SUCCESS"}
               /\ \E phase \in (Phase \ Uncertain) \ Rebuildable : Phased(i, phase)
               /\ hist'[i] = "SUCCESS" => i \in {Cell(i).base} \cup Cell(i).merged
<1> DEFINE done == exec[i].at = "archived"
           phase == IF done THEN "COMPLETE" ELSE "TARGET_COMMITTED"
           result == IF done THEN "SUCCESS" ELSE "PARTIAL_SUCCESS"
<1>1. UNCHANGED <<targetTemp, published, archive>>
  BY DEF Record, disk, staging, public
<1>2. /\ ckpt[i].phase = "TARGET_COMMITTED" /\ Evidence(i)
      /\ done => i \in {Cell(i).base} \cup Cell(i).merged
  BY ItemFacts DEF Record, At, Knows
<1>3. hist \in [Item -> Result \cup {"NONE"}] /\ ckpt \in [Item -> Checkpoints]
  BY DEF Inv, TypeOK
<1>4. CASE ThrowRaw(i) /\ UNCHANGED <<ckpt, hist>>
  BY <1>1, <1>3, <1>4, ThrowStep
<1>5. CASE /\ ckpt' = [ckpt EXCEPT ![i].phase = phase] /\ hist' = [hist EXCEPT ![i] = result]
           /\ Goto(i, "ended")
  <2>1. /\ phase \in (Phase \ Uncertain) \ Rebuildable /\ result \in {"SUCCESS", "PARTIAL_SUCCESS"}
        /\ phase \notin Uncertain /\ phase \notin Rebuildable
    BY DEF Phase, Uncertain, Rebuildable
  <2>2. (phase = "COMPLETE") <=> (result = "SUCCESS")
    OBVIOUS
  <2>3. result = "SUCCESS" => done
    OBVIOUS
  <2> HIDE DEF phase, result
  <2> HIDE DEF done
  <2>4. Phased(i, phase) /\ Went(i, "ended")
    BY <1>5, <2>1, PhaseFacts, GotoFacts DEF Inv, Place
  <2>5. /\ hist' \in [Item -> Result \cup {"NONE"}] /\ hist'[i] = result
        /\ \A j \in Item \ {i} : hist'[j] = hist[j]
    BY <1>3, <1>5, <2>1 DEF Result
  <2>6. Knows(i)'
    <3>1. exec'[i].at = "ended" /\ ckpt'[i].phase \notin Uncertain /\ hist'[i] # "NONE"
      BY <2>1, <2>4, <2>5 DEF Went, Phased
    <3> QED
      BY <3>1 DEF Knows
  <2>7. Evidence(i)'
    <3>1. /\ ckpt'[i].phase \notin Uncertain /\ ckpt'[i].phase \notin Rebuildable
          /\ (ckpt'[i].phase = "COMPLETE") <=> (hist'[i] = "SUCCESS")
      BY <2>1, <2>2, <2>4, <2>5 DEF Phased
    <3>2. published'[i] = published[i] /\ targetTemp'[i] = targetTemp[i] /\ published[i] > 0
      BY <1>1, <1>2 DEF Evidence
    <3> QED
      BY <1>2, <3>1, <3>2 DEF Evidence
  <2>8. ItemStep(i)
    BY <1>1, <2>4, <2>5, <2>6, <2>7 DEF ItemStep, ArchiveGrows, Phased, Place
  <2> QED
    BY <1>2, <2>1, <2>3, <2>4, <2>5, <2>8 DEF Phased
<1> QED
  BY <1>4, <1>5 DEF Record

(* Errors are handled without touching the evidence. *)
LEMMA CatchStep ==
  ASSUME Inv, NEW i \in Item, Catch(i)
  PROVE  ItemStep(i)
<1>1. UNCHANGED <<ckpt, hist, targetTemp, published, archive>>
  BY DEF Catch, store, disk, staging, public
<1>2. exec[i].err \in Error
  BY ItemFacts DEF Executions
<1>3. Went(i, "thrown") \/ Went(i, "fail")
  BY <1>2, EscapeFacts, GotoFacts DEF Catch, Inv, Place, Error
<1> QED
  BY <1>1, <1>3, ErrorStep

(* A failure is told only of what may be built again. *)
LEMMA FailStep ==
  ASSUME Inv, NEW i \in Item, Fail(i)
  PROVE  /\ ItemStep(i) /\ hist' \in [Item -> Result \cup {"NONE"}]
         /\ \/ UNCHANGED hist
            \/ hist'[i] \in {"FAILED", "SKIPPED_CONFLICT"} /\ ckpt[i].phase \in Rebuildable
<1>1. UNCHANGED <<ckpt, targetTemp, published, archive>>
  BY DEF Fail, disk, staging, public
<1>2. hist \in [Item -> Result \cup {"NONE"}] /\ Evidence(i)
  BY ItemFacts DEF Inv, TypeOK
<1>3. CASE UNCHANGED hist /\ \E err \in Error : Escape(i, err)
  <2>1. Went(i, "thrown")
    BY <1>3, EscapeFacts DEF Inv
  <2> QED
    BY <1>1, <1>2, <1>3, <2>1, ErrorStep
<1>4. CASE /\ ~Undeniable(i) /\ Goto(i, "ended")
           /\ hist' = [hist EXCEPT ![i] = IF exec[i].err = "conflict" THEN "SKIPPED_CONFLICT" ELSE "FAILED"]
  <2>1. ckpt[i].phase \in Rebuildable
    BY <1>4 DEF Undeniable
  <2>2. Went(i, "ended")
    BY <1>4, GotoFacts DEF Inv, Place
  <2>3. /\ hist' \in [Item -> Result \cup {"NONE"}] /\ hist'[i] \in {"FAILED", "SKIPPED_CONFLICT"}
        /\ \A j \in Item \ {i} : hist'[j] = hist[j]
    BY <1>2, <1>4 DEF Result
  <2>4. Knows(i)'
    BY <1>1, <2>1, <2>2, <2>3 DEF Knows, Went, Rebuildable, Uncertain
  <2>5. Evidence(i)'
    BY <1>1, <1>2, <2>1, <2>3 DEF Evidence, Rebuildable
  <2> QED
    BY <1>1, <2>1, <2>2, <2>3, <2>4, <2>5 DEF ItemStep, ArchiveGrows, Place
<1> QED
  BY <1>3, <1>4 DEF Fail, RawErrors, Error

---------------------------------------------------------------------------
(* What a step of submitOne does to checkpoints, queues and the archive. *)

\* An item gets its checkpoint from the operation that is run, and keeps all
\* but the phase of it.
CheckpointMoves(i) ==
  /\ ckpt' \in [Item -> Checkpoints]
  /\ \/ UNCHANGED ckpt
     \/ ckpt[i].phase = "NONE" /\ ckpt'[i].phase = "PREPARING" /\ ckpt'[i].owner = live
     \/ ckpt[i].phase # "NONE" /\ \E phase \in Phase \ {"NONE"} : Phased(i, phase)

(* Steps are taken for the items of the operation that is run. *)
LEMMA Busy ==
  ASSUME Inv, NEW i \in Item, Submit(i)
  PROVE  i \in Items /\ live \in Op /\ i \in op[live].items /\ op[live].status = "RUNNING" /\ UNCHANGED <<op, live>>
<1>1. i \in Items
  BY DEF Submit, Reconcile, Refuse, Package, Prepare, Clear, Build, Verify, Intend, Rename, Receipt,
         Doubt, Archive, ArchiveFails, ArchiveTurn, Record, Catch, Fail, Turn, At
<1>2. UNCHANGED <<op, live>>
  BY DEF Submit, Reconcile, Refuse, Package, Prepare, Clear, Build, Verify, Intend, Rename, Receipt,
         Doubt, Archive, ArchiveFails, Record, Catch, Fail, SaveCheckpoint, store
<1> QED
  BY <1>1, <1>2 DEF Items, Inv, TypeOK, RunInv

(* All the steps, with what is left of the types of the state. *)
LEMMA SubmitStep ==
  ASSUME Inv, NEW i \in Item, Submit(i)
  PROVE  /\ ItemStep(i) /\ CheckpointMoves(i)
         /\ hist' \in [Item -> Result \cup {"NONE"}] /\ archive' \in [Name -> Cells]
         /\ hist'[i] = "SUCCESS" /\ hist[i] # "SUCCESS" =>
              /\ ckpt[i].phase = "TARGET_COMMITTED"
              /\ i \in {Cell(i).base} \cup Cell(i).merged
<1>0. hist \in [Item -> Result \cup {"NONE"}] /\ ckpt \in [Item -> Checkpoints] /\ archive \in [Name -> Cells]
  BY DEF Inv, TypeOK
<1>1. ASSUME Reconcile(i) \/ Refuse(i) \/ Package(i) \/ Clear(i) \/ Build(i) \/ Rename(i) \/ ArchiveFails(i) \/ Catch(i)
      PROVE  ItemStep(i) /\ UNCHANGED <<ckpt, hist, archive>>
  <2>1. ItemStep(i)
    BY <1>1, ReconcileStep, RefuseStep, PackageStep, ClearStep, BuildStep, RenameStep, ArchiveFailsStep, CatchStep
  <2>2. UNCHANGED <<ckpt, hist, archive>>
    BY <1>1 DEF Reconcile, Refuse, Package, Clear, Build, Rename, ArchiveFails, Catch, store, disk
  <2> QED
    BY <2>1, <2>2
<1>2. CASE Prepare(i)
  <2>1. ItemStep(i) /\ ckpt' \in [Item -> Checkpoints]
    BY <1>2, PrepareStep
  <2>2. UNCHANGED <<hist, archive>>
    BY <1>2 DEF Prepare, disk
  <2>3. CASE UNCHANGED ckpt
    BY <1>0, <2>1, <2>2, <2>3 DEF CheckpointMoves
  <2>4. CASE /\ ckpt[i].phase = "NONE"
             /\ ckpt' = [ckpt EXCEPT ![i] = [phase |-> "PREPARING", owner |-> live, name |-> FirstFree(TargetOf[i]),
                                             sel |-> row[i].sel, par |-> row[i].par]]
    <3>1. ckpt'[i].phase = "PREPARING" /\ ckpt'[i].owner = live
      BY <1>0, <2>4
    <3> QED
      BY <1>0, <2>1, <2>2, <2>4, <3>1 DEF CheckpointMoves
  <2> QED
    BY <1>2, <2>3, <2>4 DEF Prepare
<1>3. ASSUME Verify(i) \/ Intend(i) \/ Receipt(i) \/ Doubt(i)
      PROVE  ItemStep(i) /\ CheckpointMoves(i) /\ UNCHANGED <<hist, archive>>
  <2>1. ItemStep(i) /\ ckpt' \in [Item -> Checkpoints]
    BY <1>3, VerifyStep, IntendStep, ReceiptStep, DoubtStep
  <2>2. UNCHANGED <<hist, archive>>
    BY <1>3 DEF Verify, Intend, Receipt, Doubt, SaveCheckpoint, disk
  <2>3. ckpt[i].phase # "NONE"
    BY <1>3, ItemFacts DEF Verify, Intend, Receipt, Doubt, At, Knows, Uncertain
  <2>4. \/ UNCHANGED ckpt
        \/ \E phase \in {"VERIFIED", "COMMIT_INTENT", "TARGET_COMMITTED", "NEEDS_ATTENTION"} :
             ckpt' = [ckpt EXCEPT ![i].phase = phase]
    BY <1>3 DEF Verify, Intend, Receipt, Doubt, SaveCheckpoint
  <2>5. \/ UNCHANGED ckpt
        \/ \E phase \in Phase \ {"NONE"} : Phased(i, phase)
    BY <2>4, PhaseFacts DEF Inv, Phase, Uncertain, Rebuildable
  <2> QED
    BY <2>1, <2>2, <2>3, <2>5 DEF CheckpointMoves
<1>4. CASE Archive(i)
  <2>1. UNCHANGED <<ckpt, hist>>
    BY <1>4 DEF Archive, store
  <2> QED
    BY <1>0, <1>4, <2>1, ArchiveStep DEF CheckpointMoves
<1>5. CASE Record(i)
  <2>1. UNCHANGED archive
    BY <1>5 DEF Record, disk
  <2>2. /\ ItemStep(i) /\ ckpt' \in [Item -> Checkpoints] /\ hist' \in [Item -> Result \cup {"NONE"}]
        /\ \/ UNCHANGED <<ckpt, hist>>
           \/ /\ ckpt[i].phase = "TARGET_COMMITTED" /\ hist'[i] \in {"SUCCESS", "PARTIAL_SUCCESS"}
              /\ \E phase \in (Phase \ Uncertain) \ Rebuildable : Phased(i, phase)
              /\ hist'[i] = "SUCCESS" => i \in {Cell(i).base} \cup Cell(i).merged
    BY <1>5, RecordStep
  <2>3. CheckpointMoves(i)
    <3>1. CASE UNCHANGED <<ckpt, hist>>
      BY <1>0, <3>1 DEF CheckpointMoves
    <3>2. CASE ckpt[i].phase = "TARGET_COMMITTED" /\ \E phase \in (Phase \ Uncertain) \ Rebuildable : Phased(i, phase)
      <4>1. PICK phase \in (Phase \ Uncertain) \ Rebuildable : Phased(i, phase)
        BY <3>2
      <4>2. phase \in Phase \ {"NONE"} /\ ckpt[i].phase # "NONE"
        BY <3>2 DEF Rebuildable
      <4> QED
        BY <2>2, <4>1, <4>2 DEF CheckpointMoves
    <3> QED
      BY <2>2, <3>1, <3>2
  <2> QED
    BY <1>0, <2>1, <2>2, <2>3
<1>6. CASE Fail(i)
  <2>1. UNCHANGED <<ckpt, archive>>
    BY <1>6 DEF Fail, disk
  <2>2. ItemStep(i) /\ hist' \in [Item -> Result \cup {"NONE"}] /\ (UNCHANGED hist \/ hist'[i] # "SUCCESS")
    BY <1>6, FailStep
  <2> QED
    BY <1>0, <2>1, <2>2 DEF CheckpointMoves
<1> QED
  BY <1>0, <1>1, <1>2, <1>3, <1>4, <1>5, <1>6 DEF Submit, CheckpointMoves

(* The other items know what they knew. *)
LEMMA SubmitItems ==
  ASSUME Inv, NEW i \in Item, Submit(i)
  PROVE  ItemInv'
<1>1. ItemStep(i)
  BY SubmitStep
<1>2. ASSUME NEW j \in Item \ {i} PROVE Evidence(j)' /\ Knows(j)'
  <2>1. /\ ckpt'[j] = ckpt[j] /\ hist'[j] = hist[j] /\ exec'[j] = exec[j]
        /\ targetTemp'[j] = targetTemp[j] /\ published'[j] = published[j]
    BY <1>1 DEF ItemStep, Went
  <2>2. Evidence(j) /\ Knows(j) /\ ckpt[j].name \in Name /\ j # NoItem
    BY ItemFacts
  <2>3. j \in {Cell(j).base} \cup Cell(j).merged => j \in {Cell(j)'.base} \cup Cell(j)'.merged
    BY <1>1, <2>1, <2>2 DEF ItemStep, ArchiveGrows, Cell
  <2>4. Evidence(j)'
    BY <2>1, <2>2 DEF Evidence
  <2> QED
    BY <2>1, <2>2, <2>3, <2>4 DEF Knows
<1> QED
  BY <1>1, <1>2 DEF ItemInv, ItemStep

(* Queues and archive only hold what they should. *)
LEMMA SubmitPlaces ==
  ASSUME Inv, NEW i \in Item, Submit(i)
  PROVE  PlaceInv' /\ target' \in [Target -> [Name -> Item \cup {NoItem}]] /\ published' \in [Item -> Nat]
<1>0. /\ target \in [Target -> [Name -> Item \cup {NoItem}]] /\ published \in [Item -> Nat]
      /\ TargetOf[i] \in Target /\ ckpt[i].name \in Name /\ i # NoItem /\ NoItem \notin Item
      /\ archive \in [Name -> Cells]
  BY ItemFacts, DeliveryAssumption DEF Inv, TypeOK
<1>1. ItemStep(i) /\ CheckpointMoves(i) /\ ArchiveGrows
  BY SubmitStep DEF ItemStep
<1>2. /\ target' \in [Target -> [Name -> Item \cup {NoItem}]] /\ published' \in [Item -> Nat]
      /\ \A t \in Target, n \in Name : target'[t][n] # NoItem => published'[target'[t][n]] > 0
  <2>1. CASE Enter(i)
    <3>1. /\ target' = [target EXCEPT ![TargetOf[i]][ckpt[i].name] = i]
          /\ published' = [published EXCEPT ![i] = @ + 1]
      BY <2>1 DEF Enter
    <3>2. target' \in [Target -> [Name -> Item \cup {NoItem}]]
      BY <1>0, <3>1
    <3>3. \A t \in Target, n \in Name : target'[t][n] = i \/ target'[t][n] = target[t][n]
      BY <1>0, <3>1
    <3>4. /\ published' \in [Item -> Nat] /\ published'[i] = published[i] + 1
          /\ \A j \in Item \ {i} : published'[j] = published[j]
      BY <1>0, <3>1
    <3> QED
      BY <1>0, <3>2, <3>3, <3>4 DEF Inv, PlaceInv
  <2>2. CASE UNCHANGED <<target, published>>
    BY <1>0, <2>2 DEF Inv, PlaceInv
  <2>3. Enter(i) \/ UNCHANGED <<target, published>>
    BY DEF Submit, Reconcile, Refuse, Package, Prepare, Clear, Build, Verify, Intend, Rename, Receipt,
         Doubt, Archive, ArchiveFails, Record, Catch, Fail, SaveCheckpoint, disk, public
  <2> QED
    BY <2>1, <2>2, <2>3
<1>3. /\ \A j \in Item : ckpt[j].phase # "NONE" => /\ ckpt'[j].phase # "NONE" /\ ckpt'[j].sel = ckpt[j].sel
                                                   /\ ckpt'[j].name = ckpt[j].name
      /\ \A j \in Item \ {i} : ckpt'[j] = ckpt[j] /\ hist'[j] = hist[j]
  BY <1>1 DEF CheckpointMoves, Phased, ItemStep
<1>4. \A j \in Item : ckpt[j].name \in Name /\ j # NoItem /\ (hist[j] = "SUCCESS" => ckpt[j].phase # "NONE")
  BY ItemFacts DEF Evidence
<1>5. \A n \in Name : archive[n].base \in Item \cup {NoItem} /\ archive[n].merged \subseteq Item
  BY <1>0 DEF Cells
<1>6. SuccessIsArchived'
  <2>1. SUFFICES ASSUME NEW j \in Item, hist'[j] = "SUCCESS"
                 PROVE  j \in {Cell(j)'.base} \cup Cell(j)'.merged
    BY DEF SuccessIsArchived
  <2>2. ckpt[j].phase # "NONE" /\ j \in {Cell(j).base} \cup Cell(j).merged
    <3>1. CASE hist[j] = "SUCCESS"
      BY <1>4, <3>1 DEF Inv, PlaceInv, ArchiveAgrees, SuccessIsArchived
    <3>2. CASE hist[j] # "SUCCESS"
      BY <1>3, <2>1, <3>2, SubmitStep
    <3> QED
      BY <3>1, <3>2
  <2>3. Cell(j)' = archive'[ckpt[j].name]
    BY <1>3, <2>2 DEF Cell
  <2> QED
    BY <1>1, <1>4, <2>2, <2>3 DEF Cell, ArchiveGrows
<1>7. /\ ArchiveOfOneSelection'
      /\ \A n \in Name : /\ archive'[n].base # NoItem => ckpt'[archive'[n].base].phase # "NONE"
                         /\ \A j \in archive'[n].merged : ckpt'[j].phase # "NONE"
  <2>0. \A n \in Name :
          /\ archive[n].base # NoItem => ckpt[archive[n].base].phase # "NONE"
          /\ \A j \in archive[n].merged : /\ ckpt[j].phase # "NONE"
                                          /\ archive[n].base # NoItem /\ GroupOf[archive[n].base] = GroupOf[j]
                                          /\ ckpt[archive[n].base].sel = ckpt[j].sel
    BY DEF Inv, PlaceInv, ArchiveAgrees, ArchiveOfOneSelection
  <2> DEFINE Good(n) == /\ archive'[n].base # NoItem => ckpt'[archive'[n].base].phase # "NONE"
                        /\ \A j \in archive'[n].merged :
                             /\ ckpt'[j].phase # "NONE"
                             /\ archive'[n].base # NoItem /\ GroupOf[archive'[n].base] = GroupOf[j]
                             /\ ckpt'[archive'[n].base].sel = ckpt'[j].sel
  <2>1. ASSUME NEW n \in Name, archive'[n] = archive[n] PROVE Good(n)
    <3>1. archive[n].base # NoItem => archive[n].base \in Item
      BY <1>5
    <3>2. \A j \in archive[n].merged : j \in Item
      BY <1>5
    <3> QED
      BY <1>3, <2>0, <2>1, <3>1, <3>2
  <2>2. CASE UNCHANGED archive
    BY <2>1, <2>2 DEF ArchiveOfOneSelection
  <2>3. CASE Archive(i)
    <3>1. ckpt' = ckpt /\ ckpt[i].phase # "NONE"
      BY <2>3, ItemFacts DEF Archive, store, ArchiveTurn, At, Knows
    <3>2. PICK n \in Name : n = ckpt[i].name
      BY <1>0
    <3>3. CASE /\ Cell(i).base = NoItem /\ archive'[n] = [Cell(i) EXCEPT !.base = i]
               /\ \A m \in Name \ {n} : archive'[m] = archive[m]
      <4>1. Cell(i).merged = {}
        BY <1>0, <2>0, <3>2, <3>3 DEF Cell
      <4>2. archive'[n].base = i /\ archive'[n].merged = {}
        BY <1>0, <3>2, <3>3, <4>1 DEF Cell, Cells
      <4>3. Good(n)
        <5>1. i \in Item /\ i # NoItem /\ ckpt'[i].phase # "NONE"
          BY <1>0, <3>1
        <5> QED
          BY <4>2, <5>1
      <4>4. \A m \in Name : Good(m)
        <5> HIDE DEF Good
        <5> QED
          BY <2>1, <3>2, <3>3, <4>3
      <4> QED
        BY <4>4 DEF ArchiveOfOneSelection
    <3>4. CASE /\ Compatible(i) /\ archive'[n] = [Cell(i) EXCEPT !.merged = @ \cup {i}]
               /\ \A m \in Name \ {n} : archive'[m] = archive[m]
      <4>1. archive'[n].base = archive[n].base /\ archive'[n].merged = archive[n].merged \cup {i}
        BY <1>0, <3>2, <3>4 DEF Cell, Cells
      <4>2. /\ archive[n].base \in Item /\ archive[n].base # NoItem
            /\ GroupOf[archive[n].base] = GroupOf[i] /\ ckpt[archive[n].base].sel = ckpt[i].sel
        BY <1>0, <3>2, <3>4 DEF Compatible, Cell
      <4>3. Good(n)
        BY <1>0, <2>0, <3>1, <4>1, <4>2
      <4>4. \A m \in Name : Good(m)
        <5> HIDE DEF Good
        <5> QED
          BY <2>1, <3>2, <3>4, <4>3
      <4> QED
        BY <4>4 DEF ArchiveOfOneSelection
    <3> QED
      BY <2>2, <2>3, <3>2, <3>3, <3>4, ArchiveStep
  <2>4. Archive(i) \/ UNCHANGED archive
    BY DEF Submit, Reconcile, Refuse, Package, Prepare, Clear, Build, Verify, Intend, Rename, Receipt,
         Doubt, ArchiveFails, Record, Catch, Fail, SaveCheckpoint, disk
  <2> QED
    BY <2>2, <2>3, <2>4
<1> QED
  BY <1>2, <1>6, <1>7 DEF PlaceInv, ArchiveAgrees

(* Who is running owns the checkpoints that become uncertain, or is not alone. *)
LEMMA SubmitOwners ==
  ASSUME Inv, NEW i \in Item, Submit(i)
  PROVE  OwnerInv' /\ RunInv'
<1>1. i \in Items /\ live \in Op /\ i \in op[live].items /\ op[live].status = "RUNNING" /\ UNCHANGED <<op, live>>
  BY Busy
<1>2. ItemStep(i) /\ CheckpointMoves(i)
  BY SubmitStep
<1>3. \A j \in Item \ {i} : ckpt'[j] = ckpt[j] /\ exec'[j] = exec[j]
  BY <1>2 DEF ItemStep, Went
<1>4. \A j \in Item : ckpt'[j].phase # "NONE" => ckpt'[j].owner \in Op /\ j \in op[ckpt'[j].owner].items
  <2>1. \A j \in Item : ckpt[j].phase # "NONE" => ckpt[j].owner \in Op /\ j \in op[ckpt[j].owner].items
    BY DEF Inv, OwnerInv
  <2>2. ckpt'[i].phase # "NONE" => ckpt'[i].owner \in Op /\ i \in op[ckpt'[i].owner].items
    BY <1>1, <1>2, <2>1 DEF CheckpointMoves, Phased
  <2> QED
    BY <1>3, <2>1, <2>2
<1>5. OwnerKeepsLock'
  <2>1. SUFFICES ASSUME NEW j \in Item, ckpt'[j].phase \in Uncertain,
                        \A o \in Op : j \in op[o].items => o = ckpt'[j].owner
                 PROVE  op[ckpt'[j].owner].status \in ActiveStatus
    BY <1>1 DEF OwnerKeepsLock, Active
  <2>2. CASE j = i
    BY <1>1, <2>1, <2>2 DEF ActiveStatus
  <2>3. CASE j # i
    BY <1>3, <2>1, <2>3 DEF Inv, OwnerInv, OwnerKeepsLock, Active
  <2> QED
    BY <2>2, <2>3
<1>6. RunInv'
  <2>1. Items' = Items
    BY <1>1 DEF Items
  <2> QED
    BY <1>1, <1>3, <2>1 DEF Inv, RunInv, Active, Present
<1> QED
  BY <1>1, <1>4, <1>5, <1>6 DEF OwnerInv

---------------------------------------------------------------------------
(* The steps that are not of a submitOne: they read checkpoints, history   *)
(* and archive, and write none of them.                                    *)

\* submitOne of every item is left where it is, or has not begun, or is over.
PlacesKept ==
  \/ UNCHANGED exec
  \/ \A i \in Item : exec'[i].at \in {"idle", "todo", "thrown"}

(* What is known of the items is still known. *)
LEMMA OtherItems ==
  ASSUME Inv, UNCHANGED <<ckpt, hist, published, archive>>, PlacesKept,
         \/ UNCHANGED targetTemp
         \/ UNCHANGED exec /\ \E i \in Item : SweepStaging(i)
  PROVE  ItemInv'
<1> SUFFICES ASSUME NEW j \in Item PROVE Evidence(j)' /\ Knows(j)'
  BY DEF ItemInv
<1>1. Evidence(j) /\ Knows(j)
  BY DEF Inv, ItemInv
<1>2. \/ targetTemp'[j] = targetTemp[j]
      \/ UNCHANGED exec /\ targetTemp'[j] = "absent" /\ ckpt[j].phase \in {"NONE", "COMPLETE"}
  BY DEF SweepStaging, Sweepable, Inv, TypeOK
<1>3. Evidence(j)'
  BY <1>1, <1>2 DEF Evidence, Uncertain
<1>4. CASE exec'[j].at \in {"idle", "todo", "thrown"}
  BY <1>3, <1>4 DEF Knows
<1>5. CASE UNCHANGED exec
  <2>1. Cell(j)' = Cell(j)
    BY DEF Cell
  <2> QED
    BY <1>1, <1>2, <1>3, <1>5, <2>1 DEF Knows, Rebuildable, Uncertain
<1> QED
  BY <1>3, <1>4, <1>5 DEF PlacesKept

(* Queues are only emptied. *)
LEMMA OtherPlaces ==
  ASSUME Inv, UNCHANGED <<ckpt, hist, published, archive>>,
         UNCHANGED target \/ \E t \in Target, n \in Name : Take(t, n)
  PROVE  PlaceInv' /\ target' \in [Target -> [Name -> Item \cup {NoItem}]]
<1>1. /\ target' \in [Target -> [Name -> Item \cup {NoItem}]]
      /\ \A t \in Target, n \in Name : target'[t][n] \in {NoItem, target[t][n]}
  <2>1. target \in [Target -> [Name -> Item \cup {NoItem}]]
    BY DEF Inv, TypeOK
  <2>2. CASE UNCHANGED target
    BY <2>1, <2>2
  <2>3. ASSUME NEW t \in Target, NEW n \in Name, target' = [target EXCEPT ![t][n] = NoItem]
        PROVE  /\ target' \in [Target -> [Name -> Item \cup {NoItem}]]
               /\ \A s \in Target, m \in Name : target'[s][m] \in {NoItem, target[s][m]}
    BY <2>1, <2>3
  <2> QED
    BY <2>2, <2>3 DEF Take
<1>2. \A t \in Target, n \in Name : target'[t][n] # NoItem => published'[target'[t][n]] > 0
  BY <1>1 DEF Inv, PlaceInv
<1>3. ArchiveAgrees'
  BY DEF Inv, PlaceInv, ArchiveAgrees, SuccessIsArchived, ArchiveOfOneSelection, Cell
<1> QED
  BY <1>1, <1>2, <1>3 DEF Inv, PlaceInv

---------------------------------------------------------------------------
(* Operations. *)

\* The row of one operation changes.
Rowed(o) ==
  /\ op' \in [Op -> Operations]
  /\ \A p \in Op \ {o} : op'[p] = op[p]

(* Only the status of an operation changes. *)
LEMMA StatusFacts ==
  ASSUME Inv, NEW o \in Op, NEW s \in Status, op' = [op EXCEPT ![o].status = s]
  PROVE  Rowed(o) /\ op'[o].status = s /\ op'[o].items = op[o].items
<1> DEFINE r == [op[o] EXCEPT !.status = s]
<1>1. op \in [Op -> Operations] /\ op[o] \in Operations
  BY DEF Inv, TypeOK
<1>2. r \in Operations /\ r.status = s /\ r.items = op[o].items
  BY <1>1 DEF Operations
<1>3. op' = [op EXCEPT ![o] = r]
  BY <1>1
<1> HIDE DEF r
<1> QED
  BY <1>1, <1>2, <1>3 DEF Rowed

(* Without an active operation there is no run, and no item is worked at. *)
LEMMA NoRun ==
  ASSUME Inv, \A o \in Op : Active(o) => o # live
  PROVE  live = NoOp /\ Items = {} /\ \A i \in Item : exec[i].at = "idle"
<1>1. live = NoOp
  BY DEF Inv, TypeOK, RunInv, Active, ActiveStatus
<1> QED
  BY <1>1 DEF Items, Inv, RunInv

\* The parts of the invariant that relate operations to checkpoints.
OpsInv == op \in [Op -> Operations] /\ live \in Op \cup {NoOp} /\ RunInv /\ OwnerInv

(* An operation is accepted while none is active. *)
LEMMA AcceptOps ==
  ASSUME Inv, NEW o \in Op, NEW kind \in {"BATCH", "RETRY", "DIRECT"}, NEW items \in SUBSET Item,
         NEW policy \in Policies, Accept(o, kind, items, policy)
  PROVE  OpsInv'
<1> DEFINE r == [status |-> "QUEUED", kind |-> kind, items |-> items, policy |-> policy, attempt |-> 0]
<1>1. UNCHANGED <<ckpt, live, exec>> /\ Unlocked /\ ~Present(o) /\ op' = [op EXCEPT ![o] = r]
  BY DEF Accept
<1>2. r \in Operations /\ r.status = "QUEUED"
  BY DeliveryAssumption DEF Operations, Status, ActiveStatus
<1> HIDE DEF r
<1>3. Rowed(o) /\ op'[o] = r
  BY <1>1, <1>2 DEF Rowed, Inv, TypeOK
<1>4. op[o].items = {}
  BY <1>1 DEF Inv, RunInv
<1>5. live = NoOp /\ Items = {} /\ \A i \in Item : exec[i].at = "idle"
  BY <1>1, NoRun DEF Unlocked
<1>6. RunInv'
  <2>1. \A p, q \in Op : Active(p)' /\ Active(q)' => p = q
    BY <1>1, <1>3 DEF Rowed, Active, Unlocked
  <2>2. \A p \in Op : ~Present(p)' => op'[p].items = {}
    BY <1>2, <1>3 DEF Rowed, Present, Inv, RunInv
  <2> QED
    BY <1>1, <1>5, <2>1, <2>2 DEF RunInv
<1>7. \A i \in Item : ckpt[i].phase # "NONE" => /\ ckpt[i].owner \in Op /\ i \in op[ckpt[i].owner].items
                                                /\ ckpt[i].owner # o
  BY <1>4 DEF Inv, OwnerInv
<1>8. OwnerKeepsLock'
  <2>1. SUFFICES ASSUME NEW i \in Item, ckpt[i].phase \in Uncertain,
                        \A p \in Op : i \in op'[p].items => p = ckpt[i].owner
                 PROVE  FALSE
    BY <1>1 DEF OwnerKeepsLock
  <2>2. \A p \in Op : i \in op[p].items => p = ckpt[i].owner
    BY <1>3, <1>4, <2>1 DEF Rowed
  <2>3. ckpt[i].owner \in Op /\ Active(ckpt[i].owner)
    BY <1>7, <2>1, <2>2 DEF Inv, OwnerInv, OwnerKeepsLock, Uncertain
  <2> QED
    BY <1>1, <2>3 DEF Unlocked
<1> QED
  BY <1>1, <1>3, <1>6, <1>7, <1>8 DEF OpsInv, OwnerInv, Rowed, Inv, TypeOK

(* The status of the operation that may act changes, an active one stays so. *)
LEMMA StatusOps ==
  ASSUME Inv, NEW o \in Op, Rowed(o), op'[o].items = op[o].items, UNCHANGED ckpt,
         op'[o].status \in ActiveStatus, \A p \in Op \ {o} : ~Active(p),
         live' \in {NoOp, o}, live' = o => op'[o].status = "RUNNING",
         \A i \in Item : exec'[i].at = "idle"
  PROVE  OpsInv'
<1>1. \A p \in Op : op'[p].items = op[p].items /\ (Active(p) => Active(p)')
  BY DEF Rowed, Active
<1>2. RunInv'
  <2>1. \A p, q \in Op : Active(p)' /\ Active(q)' => p = q
    BY DEF Rowed, Active
  <2>2. \A p \in Op : ~Present(p)' => op'[p].items = {}
    BY DEF Rowed, Present, ActiveStatus, Inv, RunInv
  <2> QED
    BY <2>1, <2>2 DEF RunInv, NoOp
<1>3. OwnerInv'
  <2>1. \A i \in Item : ckpt[i].phase # "NONE" => ckpt[i].owner \in Op /\ i \in op'[ckpt[i].owner].items
    BY <1>1 DEF Inv, OwnerInv
  <2>2. OwnerKeepsLock'
    <3>1. SUFFICES ASSUME NEW i \in Item, ckpt[i].phase \in Uncertain,
                          \A p \in Op : i \in op'[p].items => p = ckpt[i].owner
                   PROVE  op'[ckpt[i].owner].status \in ActiveStatus
      BY DEF OwnerKeepsLock, Active
    <3>2. \A p \in Op : i \in op[p].items => p = ckpt[i].owner
      BY <1>1, <3>1
    <3>3. ckpt[i].owner \in Op /\ Active(ckpt[i].owner)
      BY <2>1, <3>1, <3>2 DEF Inv, OwnerInv, OwnerKeepsLock, Uncertain
    <3> QED
      BY <1>1, <3>3 DEF Active
  <2> QED
    BY <2>1, <2>2 DEF OwnerInv
<1> QED
  BY <1>2, <1>3 DEF OpsInv, Rowed

(* A retry: the operation was not run, and no other one is active. *)
LEMMA RequeueOps ==
  ASSUME Inv, NEW o \in Op, Requeue(o)
  PROVE  OpsInv'
<1>1. Rowed(o) /\ op'[o].status = "QUEUED" /\ op'[o].items = op[o].items
  BY StatusFacts DEF Requeue, Status, ActiveStatus
<1>2. live = NoOp /\ \A i \in Item : exec[i].at = "idle"
  BY NoRun DEF Requeue
<1>3. UNCHANGED <<ckpt, live, exec>> /\ \A p \in Op \ {o} : ~Active(p)
  BY DEF Requeue
<1> QED
  BY <1>1, <1>2, <1>3, StatusOps DEF ActiveStatus, NoOp, Op

(* A step that leaves the operations alone. *)
LEMMA SameOps ==
  ASSUME Inv, UNCHANGED <<op, live, ckpt>>, \A i \in Item : i \notin Items => exec'[i].at = "idle"
  PROVE  OpsInv'
<1>1. Items' = Items
  BY DEF Items
<1>2. RunInv'
  BY <1>1 DEF Inv, RunInv, Active, Present
<1>3. OwnerInv'
  BY DEF Inv, OwnerInv, OwnerKeepsLock, Active
<1> QED
  BY <1>2, <1>3 DEF OpsInv, Inv, TypeOK

(* A run begins while no other operation is active. *)
LEMMA BeginOps ==
  ASSUME Inv, NEW o \in Op, Begin(o)
  PROVE  OpsInv'
<1>1. UNCHANGED <<ckpt, exec>> /\ live = NoOp /\ op[o].status \in {"QUEUED", "RETRY_WAIT"}
  BY DEF Begin
<1>2. Items = {} /\ \A i \in Item : exec[i].at = "idle"
  BY <1>1 DEF Items, Inv, RunInv
<1>3. CASE UNCHANGED <<op, live>>
  BY <1>1, <1>2, <1>3, SameOps
<1>4. CASE live' = o /\ op' = [op EXCEPT ![o].status = "RUNNING",
                                       ![o].attempt = IF @ > RetryLimit THEN @ ELSE @ + 1]
  <2> DEFINE r == [op[o] EXCEPT !.status = "RUNNING", !.attempt = IF @ > RetryLimit THEN @ ELSE @ + 1]
  <2>1. op \in [Op -> Operations] /\ op[o] \in Operations
    BY DEF Inv, TypeOK
  <2>2. RetryLimit \in Nat /\ op[o].attempt \in 0..(RetryLimit + 1)
    BY <2>1, DeliveryAssumption DEF Operations
  <2>3. (IF op[o].attempt > RetryLimit THEN op[o].attempt ELSE op[o].attempt + 1) \in 0..(RetryLimit + 1)
    BY <2>2
  <2>4. r \in Operations /\ r.status = "RUNNING" /\ r.items = op[o].items
    BY <2>1, <2>3 DEF Operations, Status, ActiveStatus
  <2>5. op' = [op EXCEPT ![o] = r]
    BY <1>4, <2>1
  <2> HIDE DEF r
  <2>6. Rowed(o) /\ op'[o].status = "RUNNING" /\ op'[o].items = op[o].items
    BY <2>1, <2>4, <2>5 DEF Rowed
  <2>7. \A p \in Op \ {o} : ~Active(p)
    BY <1>1 DEF Inv, RunInv, Active, ActiveStatus
  <2> QED
    BY <1>1, <1>2, <1>4, <2>6, <2>7, StatusOps DEF ActiveStatus
<1> QED
  BY <1>3, <1>4 DEF Begin

(* How a run ends: its results, or an error. *)
LEMMA EndFacts ==
  ASSUME Inv, End
  PROVE  /\ live \in Op /\ live' = NoOp /\ UNCHANGED <<ckpt, hist, published, archive, targetTemp, target>>
         /\ exec' = [i \in Item |-> Idle] /\ (\A i \in Items : Over(i))
         /\ \/ UNCHANGED op
            \/ \E s \in Status \ {"ABSENT"} :
                 /\ op' = [op EXCEPT ![live].status = s]
                 /\ \/ Thrown = {} /\ s = ResultStatus
                    \/ s # "SUCCEEDED" /\ (\/ Thrown = {}
                                           \/ \A i \in Item : ckpt[i].owner = live /\ ckpt[i].phase \in Uncertain
                                                => s = "NEEDS_ATTENTION")
<1>1. /\ live \in Op /\ live' = NoOp /\ UNCHANGED <<ckpt, hist, published, archive, targetTemp, target>>
      /\ exec' = [i \in Item |-> Idle] /\ (\A i \in Items : Over(i))
  BY DEF End, Inv, TypeOK, disk, staging, public
<1>2. ResultStatus \in Status \ {"ABSENT"}
  BY DEF ResultStatus, Status, ActiveStatus
<1>3. \A err, a : LET s == ErrorStatus(live, err, a) IN
        /\ s \in Status \ {"ABSENT"} /\ s # "SUCCEEDED"
        /\ \A i \in Item : ckpt[i].owner = live /\ ckpt[i].phase \in Uncertain => s = "NEEDS_ATTENTION"
  BY DEF ErrorStatus, Status, ActiveStatus
<1>4. CASE \E s \in Outcomes : op' = [op EXCEPT ![live].status = s]
  <2>1. PICK s \in Outcomes : op' = [op EXCEPT ![live].status = s]
    BY <1>4
  <2>2. CASE Thrown = {}
    BY <1>1, <1>2, <2>1, <2>2 DEF Outcomes
  <2>3. CASE Thrown # {}
    <3>1. PICK i \in Thrown : s = ErrorStatus(live, exec[i].err, op[live].attempt)
      BY <2>1, <2>3 DEF Outcomes
    <3> QED
      BY <1>1, <1>3, <2>1, <3>1
  <2> QED
    BY <2>2, <2>3
<1>5. CASE \E err \in RawErrors : op' = [op EXCEPT ![live].status = ErrorStatus(live, err, op[live].attempt)]
  BY <1>1, <1>3, <1>5
<1>6. CASE UNCHANGED op
  BY <1>1, <1>6
<1> QED
  BY <1>4, <1>5, <1>6 DEF End

(* An operation that may have published what it cannot confirm ends with an *)
(* error, and needs attention.                                              *)
LEMMA EndOps ==
  ASSUME Inv, End
  PROVE  OpsInv'
<1> DEFINE o == live
<1>1. /\ live \in Op /\ live' = NoOp /\ UNCHANGED ckpt /\ \A i \in Items : Over(i)
      /\ exec' = [i \in Item |-> Idle] /\ live # NoOp /\ Items = op[live].items
  BY EndFacts DEF Op, NoOp, Items, End
<1>2. \A i \in Item : exec'[i].at = "idle"
  BY <1>1 DEF Idle
<1>3. /\ live # NoOp => op[live].status = "RUNNING"
      /\ \A p, q \in Op : Active(p) /\ Active(q) => p = q
      /\ \A p \in Op : ~Present(p) => op[p].items = {}
      /\ op \in [Op -> Operations]
  BY DEF Inv, RunInv, TypeOK
<1>4. \A p \in Op : Active(p) => p = live
  BY <1>1, <1>3 DEF Active, ActiveStatus
<1>5. /\ \A i \in Item : ckpt[i].phase # "NONE" => ckpt[i].owner \in Op /\ i \in op[ckpt[i].owner].items
      /\ OwnerKeepsLock
  BY DEF Inv, OwnerInv
<1>6. CASE UNCHANGED op
  <2>1. RunInv'
    BY <1>1, <1>2, <1>3, <1>6 DEF RunInv, Active, Present
  <2>2. OwnerInv'
    BY <1>1, <1>5, <1>6 DEF OwnerInv, OwnerKeepsLock, Active
  <2> QED
    BY <1>1, <1>3, <1>6, <2>1, <2>2 DEF OpsInv
<1>7. ASSUME NEW s \in Status \ {"ABSENT"}, op' = [op EXCEPT ![live].status = s],
             \/ Thrown = {}
             \/ \A i \in Item : ckpt[i].owner = live /\ ckpt[i].phase \in Uncertain => s = "NEEDS_ATTENTION"
      PROVE  OpsInv'
  <2>0. Rowed(live) /\ op'[live].status = s /\ op'[live].items = op[live].items
    BY <1>1, <1>7, StatusFacts
  <2>1. \A p \in Op : op'[p].items = op[p].items /\ (p # live => op'[p] = op[p])
    BY <2>0 DEF Rowed
  <2>2. RunInv'
    <3>1. \A p, q \in Op : Active(p)' /\ Active(q)' => p = q
      BY <1>4, <2>1 DEF Active
    <3>2. \A p \in Op : ~Present(p)' => op'[p].items = {}
      BY <1>3, <2>0, <2>1 DEF Present
    <3> QED
      BY <1>1, <1>2, <3>1, <3>2 DEF RunInv
  <2>3. OwnerKeepsLock'
    <3>1. SUFFICES ASSUME NEW i \in Item, ckpt[i].phase \in Uncertain,
                          \A p \in Op : i \in op[p].items => p = ckpt[i].owner
                   PROVE  op'[ckpt[i].owner].status \in ActiveStatus
      BY <1>1, <2>1 DEF OwnerKeepsLock, Active
    <3>2. ckpt[i].owner = live /\ i \in Items
      BY <1>1, <1>4, <1>5, <3>1 DEF OwnerKeepsLock, Uncertain
    <3>3. exec[i].at # "ended" /\ Over(i)
      BY <1>1, <3>1, <3>2, ItemFacts DEF Knows
    <3>4. Thrown # {}
      BY <3>2, <3>3 DEF Over, Thrown
    <3> QED
      BY <1>7, <2>0, <3>1, <3>2, <3>4 DEF ActiveStatus
  <2> QED
    BY <1>1, <1>5, <2>0, <2>1, <2>2, <2>3 DEF OpsInv, OwnerInv, Rowed
<1> QED
  BY <1>6, <1>7, EndFacts

(* A crash queues what was running. *)
LEMMA CrashOps ==
  ASSUME Inv, Crash
  PROVE  OpsInv'
<1>1. /\ op' = [o \in Op |-> IF op[o].status = "RUNNING" THEN [op[o] EXCEPT !.status = "QUEUED"] ELSE op[o]]
      /\ live' = NoOp /\ UNCHANGED ckpt /\ \A i \in Item : exec'[i].at = "idle"
  BY DEF Crash, Idle
<1>2. ASSUME NEW o \in Op
      PROVE  /\ op'[o] \in Operations /\ op'[o].items = op[o].items
             /\ Active(o)' = Active(o) /\ Present(o)' = Present(o)
  <2>1. op[o] \in Operations
    BY DEF Inv, TypeOK
  <2> QED
    BY <1>1, <2>1 DEF Operations, Active, Present, ActiveStatus, Status
<1>3. op' \in [Op -> Operations]
  BY <1>1, <1>2
<1>4. RunInv'
  BY <1>1, <1>2 DEF Inv, RunInv
<1>5. OwnerInv'
  <2>1. \A i \in Item : ckpt[i].phase # "NONE" => ckpt[i].owner \in Op /\ i \in op'[ckpt[i].owner].items
    BY <1>2 DEF Inv, OwnerInv
  <2>2. SUFFICES ASSUME NEW i \in Item, ckpt[i].phase \in Uncertain,
                        \A p \in Op : i \in op'[p].items => p = ckpt[i].owner
                 PROVE  op'[ckpt[i].owner].status \in ActiveStatus
    BY <1>1, <2>1 DEF OwnerInv, OwnerKeepsLock, Active
  <2>3. ckpt[i].owner \in Op /\ Active(ckpt[i].owner)
    BY <1>2, <2>1, <2>2 DEF Inv, OwnerInv, OwnerKeepsLock, Uncertain
  <2> QED
    BY <1>2, <2>3 DEF Active
<1> QED
  BY <1>1, <1>3, <1>4, <1>5 DEF OpsInv

---------------------------------------------------------------------------
(* Types of what is left. *)

\* Rows, locks, staging.
RestTypes ==
  /\ row \in [Item -> Rows] /\ locks \subseteq Target /\ writeFailure \in BOOLEAN
  /\ targetTemp \in [Item -> Temps] /\ archiveTemp \in [Item -> Temps]

\* The bounds of the exploration.
BudgetTypes ==
  /\ edits \in 0..MaxEdits /\ faults \in 0..MaxFaults
  /\ crashes \in 0..MaxCrash /\ writeFails \in 0..MaxWriteFail

\* A counter stays, or is counted up within its bound.
Counts(old, new, bound) == new = old \/ (old < bound /\ new = old + 1)

(* Counters stay within their bounds. *)
LEMMA BudgetFacts ==
  ASSUME Inv, Counts(edits, edits', MaxEdits), Counts(faults, faults', MaxFaults),
         Counts(crashes, crashes', MaxCrash), Counts(writeFails, writeFails', MaxWriteFail)
  PROVE  BudgetTypes'
<1>1. MaxEdits \in Nat /\ MaxFaults \in Nat /\ MaxCrash \in Nat /\ MaxWriteFail \in Nat
  BY DeliveryAssumption
<1> QED
  BY <1>1 DEF Inv, TypeOK, BudgetTypes, Counts

(* A write of the state file, with or without success. *)
LEMMA WriteFacts ==
  ASSUME Inv, Committed \/ Lost \/ UNCHANGED <<writeFailure, writeFails>>
  PROVE  writeFailure' \in BOOLEAN /\ Counts(writeFails, writeFails', MaxWriteFail)
BY DEF Committed, Lost, Inv, TypeOK, Counts

(* Where an item is, is written to its row. *)
LEMMA MarkedFacts ==
  ASSUME Inv, NEW i \in Item, NEW s \in LiveRow \cup {"NONE", "GONE", "FROZEN"}
  PROVE  Marked(i, s) \in [Item -> Rows] /\ [row EXCEPT ![i].status = s] \in [Item -> Rows]
<1> DEFINE r == [row[i] EXCEPT !.status = s]
<1>1. row \in [Item -> Rows] /\ row[i] \in Rows
  BY DEF Inv, TypeOK
<1>2. r \in Rows
  BY <1>1 DEF Rows
<1>3. [row EXCEPT ![i].status = s] = [row EXCEPT ![i] = r]
  BY <1>1
<1> HIDE DEF r
<1> QED
  BY <1>1, <1>2, <1>3 DEF Marked

(* Counters of the steps of submitOne. *)
LEMMA SubmitBudget ==
  ASSUME Inv, NEW i \in Item, Submit(i)
  PROVE  BudgetTypes' /\ writeFailure' \in BOOLEAN
<1>1. edits' = edits /\ crashes' = crashes
  BY DEF Submit, Reconcile, Refuse, Package, Prepare, Clear, Build, Verify, Intend, Rename, Receipt,
         Doubt, Archive, ArchiveFails, Record, Catch, Fail, SaveCheckpoint, budget
<1>2. faults' = faults \/ Fault
  BY DEF Submit, Reconcile, Refuse, Package, Prepare, Clear, Build, Verify, Intend, Rename, Receipt,
         Doubt, Archive, ArchiveFails, Record, Catch, Fail, SaveCheckpoint, budget
<1>3. Committed \/ Lost \/ UNCHANGED <<writeFailure, writeFails>>
  BY DEF Submit, Reconcile, Refuse, Package, Prepare, Clear, Build, Verify, Intend, Rename, Receipt,
         Doubt, Archive, ArchiveFails, Record, Catch, Fail, SaveCheckpoint, budget
<1> QED
  BY <1>1, <1>2, <1>3, WriteFacts, BudgetFacts DEF Counts, Fault

(* Rows, locks and staging keep their types. *)
LEMMA SubmitRest ==
  ASSUME Inv, NEW i \in Item, Submit(i)
  PROVE  RestTypes'
<1>0. /\ row \in [Item -> Rows] /\ locks \subseteq Target /\ TargetOf[i] \in Target
      /\ targetTemp \in [Item -> Temps] /\ archiveTemp \in [Item -> Temps]
  BY ItemFacts DEF Inv, TypeOK
<1>1. row' \in [Item -> Rows]
  <2>1. \/ UNCHANGED row
        \/ row' \in {Marked(i, "PACKAGING"), Marked(i, "FAILED"), Marked(i, "GONE")}
    <3>1. CASE Package(i)
      BY <3>1 DEF Package
    <3>2. CASE Record(i)
      <4>1. UNCHANGED row \/ row' = Marked(i, IF exec[i].at = "archived" THEN "GONE" ELSE "FAILED")
        BY <3>2 DEF Record
      <4> QED
        BY <4>1
    <3>3. CASE Fail(i)
      BY <3>3 DEF Fail
    <3>4. CASE ~Package(i) /\ ~Record(i) /\ ~Fail(i)
      BY <3>4 DEF Submit, Reconcile, Refuse, Prepare, Clear, Build, Verify, Intend, Rename, Receipt,
                  Doubt, Archive, ArchiveFails, Catch, SaveCheckpoint, store
    <3> QED
      BY <3>1, <3>2, <3>3, <3>4
  <2>2. \A s \in {"PACKAGING", "FAILED", "GONE"} : Marked(i, s) \in [Item -> Rows]
    BY MarkedFacts DEF LiveRow
  <2> QED
    BY <1>0, <2>1, <2>2
<1>2. locks' \subseteq Target
  <2>1. locks' \in {locks, locks \cup {TargetOf[i]}, locks \ {TargetOf[i]}}
    BY DEF Submit, Reconcile, Refuse, Package, Prepare, Clear, Build, Verify, Intend, Rename, Receipt,
           Doubt, Archive, ArchiveFails, Record, Catch, Fail, SaveCheckpoint, Release
  <2> QED
    BY <1>0, <2>1
<1>3. targetTemp' \in [Item -> Temps]
  <2>1. UNCHANGED targetTemp \/ \E s \in Temps : targetTemp' = [targetTemp EXCEPT ![i] = s]
    BY DEF Submit, Reconcile, Refuse, Package, Prepare, Clear, Build, Verify, Intend, Rename, Receipt,
           Doubt, Archive, ArchiveFails, Record, Catch, Fail, SaveCheckpoint, Enter, disk, staging, Temps
  <2> QED
    BY <1>0, <2>1
<1>4. archiveTemp' \in [Item -> Temps]
  <2>1. UNCHANGED archiveTemp \/ \E s \in Temps : archiveTemp' = [archiveTemp EXCEPT ![i] = s]
    BY DEF Submit, Reconcile, Refuse, Package, Prepare, Clear, Build, Verify, Intend, Rename, Receipt,
           Doubt, Archive, ArchiveFails, Record, Catch, Fail, SaveCheckpoint, disk, staging, Temps
  <2> QED
    BY <1>0, <2>1
<1> QED
  BY <1>1, <1>2, <1>3, <1>4, SubmitBudget DEF RestTypes

(* A step of a submitOne. *)
LEMMA SubmitInv ==
  ASSUME Inv, NEW i \in Item, Submit(i)
  PROVE  Inv'
<1>1. TypeOK'
  <2>1. exec' \in [Item -> Executions] /\ hist' \in [Item -> Result \cup {"NONE"}]
          /\ ckpt' \in [Item -> Checkpoints] /\ archive' \in [Name -> Cells]
    BY SubmitStep DEF ItemStep, Went, CheckpointMoves
  <2>2. op' \in [Op -> Operations] /\ live' \in Op \cup {NoOp}
    BY Busy DEF Inv, TypeOK
  <2>3. target' \in [Target -> [Name -> Item \cup {NoItem}]] /\ published' \in [Item -> Nat]
    BY SubmitPlaces
  <2> QED
    BY <2>1, <2>2, <2>3, SubmitRest, SubmitBudget DEF TypeOK, RestTypes, BudgetTypes
<1> QED
  BY <1>1, SubmitItems, SubmitPlaces, SubmitOwners DEF Inv

---------------------------------------------------------------------------
(* The other steps, and all of them. *)

\* What a step that is not of a submitOne has to show besides its operations.
OtherStep ==
  /\ UNCHANGED <<ckpt, hist, published, archive>> /\ exec' \in [Item -> Executions]
  /\ PlacesKept
  /\ UNCHANGED targetTemp \/ (UNCHANGED exec /\ \E i \in Item : SweepStaging(i))
  /\ UNCHANGED target \/ (\E t \in Target, n \in Name : Take(t, n))
  /\ RestTypes' /\ BudgetTypes' /\ OpsInv'

(* Such a step preserves the invariant. *)
LEMMA OtherInv ==
  ASSUME Inv, OtherStep
  PROVE  Inv'
<1>1. ItemInv'
  BY OtherItems DEF OtherStep
<1>2. PlaceInv' /\ target' \in [Target -> [Name -> Item \cup {NoItem}]]
  BY OtherPlaces DEF OtherStep
<1>3. TypeOK'
  BY <1>2 DEF OtherStep, RestTypes, BudgetTypes, OpsInv, Inv, TypeOK
<1> QED
  BY <1>1, <1>2, <1>3 DEF OtherStep, OpsInv, Inv

(* A step of a user, or of n8n, which leaves the runs alone. *)
LEMMA OutsideStep ==
  ASSUME Inv, UNCHANGED <<ckpt, hist, exec, disk, locks>>, OpsInv', row' \in [Item -> Rows],
         Committed \/ Lost \/ UNCHANGED <<writeFailure, writeFails>>,
         Counts(edits, edits', MaxEdits), UNCHANGED <<faults, crashes>>
  PROVE  OtherStep
<1>1. UNCHANGED <<published, archive, target, targetTemp, archiveTemp>>
  BY DEF disk, staging, public
<1>2. BudgetTypes' /\ writeFailure' \in BOOLEAN
  BY WriteFacts, BudgetFacts DEF Counts
<1> QED
  BY <1>1, <1>2 DEF OtherStep, PlacesKept, RestTypes, Inv, TypeOK

(* What users do with rows. *)
LEMMA EditStep ==
  ASSUME Inv, Edit, row' \in [Item -> Rows]
  PROVE  OtherStep
<1>1. /\ UNCHANGED <<op, live, ckpt, hist, exec, disk, locks, faults, crashes>> /\ Committed
      /\ Counts(edits, edits', MaxEdits)
  BY DEF Edit, Counts
<1>2. OpsInv'
  BY <1>1, SameOps DEF Inv, RunInv
<1> QED
  BY <1>1, <1>2, OutsideStep

(* Users only act on operations and rows. *)
LEMMA UserStep ==
  ASSUME Inv, User
  PROVE  OtherStep
<1>0. row \in [Item -> Rows]
  BY DEF Inv, TypeOK
<1>1. ASSUME NEW items \in SUBSET Item, NEW sel \in Selection, Approve(items, sel) PROVE OtherStep
  <2>1. /\ Edit
        /\ row' = [i \in Item |->
             IF i \in items
             THEN [row[i] EXCEPT !.status = "PENDING", !.sel = sel, !.par = Template]
             ELSE IF IsRow(i) THEN [row[i] EXCEPT !.status = "GONE"] ELSE row[i]]
    BY <1>1 DEF Approve
  <2>2. ASSUME NEW i \in Item
        PROVE  /\ [row[i] EXCEPT !.status = "PENDING", !.sel = sel, !.par = Template] \in Rows
               /\ [row[i] EXCEPT !.status = "GONE"] \in Rows /\ row[i] \in Rows
    <3>1. row[i] \in Rows
      BY <1>0
    <3> QED
      BY <3>1, DeliveryAssumption DEF Rows, LiveRow
  <2> QED
    BY <2>1, <2>2, EditStep
<1>2. ASSUME NEW i \in Item, RemoveRow(i) PROVE OtherStep
  BY <1>2, EditStep, MarkedFacts DEF RemoveRow
<1>3. ASSUME NEW i \in Item, NEW par \in Parameters, NEW policy \in Policy, ChangeRow(i, par, policy)
      PROVE  OtherStep
  <2> DEFINE r == [row[i] EXCEPT !.par = par, !.policy = policy]
  <2>1. r \in Rows /\ row' = [row EXCEPT ![i] = r]
    BY <1>0, <1>3 DEF Rows, ChangeRow, Policies
  <2> HIDE DEF r
  <2> QED
    BY <1>0, <1>3, <2>1, EditStep DEF ChangeRow
<1>4. ASSUME NEW o \in Op, NEW kind \in {"BATCH", "RETRY", "DIRECT"}, NEW items \in SUBSET Item,
             NEW policy \in Policies, Accept(o, kind, items, policy), row' \in [Item -> Rows]
      PROVE  OtherStep
  BY <1>4, AcceptOps, OutsideStep DEF Accept, Counts
<1>5. ASSUME NEW o \in Op, NEW items \in SUBSET Item, NEW sel \in Selection, ApproveDirect(o, items, sel)
      PROVE  OtherStep
  <2>1. /\ Accept(o, "DIRECT", items, "new-revision")
        /\ row' = [i \in Item |-> IF i \in items
                                  THEN [status |-> "FROZEN", sel |-> sel, par |-> Template,
                                        policy |-> "new-revision"] ELSE row[i]]
    BY <1>5 DEF ApproveDirect
  <2>2. [status |-> "FROZEN", sel |-> sel, par |-> Template, policy |-> "new-revision"] \in Rows
    BY DeliveryAssumption DEF Rows, Policies
  <2> QED
    BY <1>0, <1>4, <2>1, <2>2 DEF Policies
<1>6. ASSUME NEW o \in Op, NEW items \in SUBSET Item, NEW policy \in Policy, Batch(o, items, policy)
      PROVE  OtherStep
  BY <1>0, <1>4, <1>6 DEF Batch, Policies
<1>7. ASSUME NEW o \in Op, Requeue(o) PROVE OtherStep
  BY <1>0, <1>7, RequeueOps, OutsideStep DEF Requeue, Counts
<1>8. ASSUME NEW o \in Op, NEW i \in Item, RetrySubmission(o, i) PROVE OtherStep
  <2>1. row[i].policy \in Policies
    BY <1>0 DEF Rows
  <2> QED
    BY <1>0, <1>4, <1>7, <1>8, <2>1 DEF RetrySubmission
<1> QED
  BY <1>1, <1>2, <1>3, <1>5, <1>6, <1>7, <1>8 DEF User

(* The start of a run touches no item. *)
LEMMA BeginStep ==
  ASSUME Inv, NEW o \in Op, Begin(o)
  PROVE  OtherStep
<1>1. UNCHANGED <<row, ckpt, hist, exec, locks, disk, edits, faults, crashes>> /\ (Committed \/ Lost)
  BY DEF Begin
<1> QED
  BY <1>1, BeginOps, OutsideStep DEF Counts, Inv, TypeOK

(* runItems: the places of the items of the run are set. *)
LEMMA EverywhereFacts ==
  ASSUME Inv, NEW p \in {"todo", "thrown"}, NEW err \in Error, Everywhere(p, err)
  PROVE  /\ exec' \in [Item -> Executions] /\ PlacesKept
         /\ \A i \in Item : i \notin Items => exec'[i].at = "idle"
<1>1. exec' = [i \in Item |-> IF i \in Items THEN [Idle EXCEPT !.at = p, !.err = err] ELSE Idle]
  BY DEF Everywhere
<1>2. /\ [Idle EXCEPT !.at = p, !.err = err] \in Executions /\ [Idle EXCEPT !.at = p, !.err = err].at = p
      /\ Idle \in Executions /\ Idle.at = "idle"
  BY DEF Idle, Executions, Place, Error
<1> QED
  BY <1>1, <1>2 DEF PlacesKept

(* runItems sets policies and sends its items off. *)
LEMMA AdmitStep ==
  ASSUME Inv, Admit
  PROVE  OtherStep
<1>0. row \in [Item -> Rows]
  BY DEF Inv, TypeOK
<1>1. UNCHANGED <<op, ckpt, hist, live, locks, disk, edits, crashes>> /\ live # NoOp
  BY DEF Admit
<1>2. UNCHANGED <<published, archive, target, targetTemp, archiveTemp>>
  BY <1>1 DEF disk, staging, public
<1>3. /\ exec' \in [Item -> Executions] /\ PlacesKept
      /\ \A i \in Item : i \notin Items => exec'[i].at = "idle"
  BY EverywhereFacts DEF Admit, RawErrors, Error
<1>4. row' \in [Item -> Rows]
  <2>1. \/ UNCHANGED row
        \/ row' = [i \in Item |-> IF i \in Items /\ IsRow(i)
                                  THEN [row[i] EXCEPT !.policy = op[live].policy] ELSE row[i]]
    BY DEF Admit
  <2>2. op[live].policy \in Policies
    BY <1>1 DEF Inv, TypeOK, Operations
  <2>3. ASSUME NEW i \in Item PROVE row[i] \in Rows /\ [row[i] EXCEPT !.policy = op[live].policy] \in Rows
    <3>1. row[i] \in Rows
      BY <1>0
    <3> QED
      BY <2>2, <3>1 DEF Rows
  <2> QED
    BY <1>0, <2>1, <2>3
<1>5. BudgetTypes' /\ writeFailure' \in BOOLEAN
  <2>1. /\ Committed \/ Lost \/ UNCHANGED <<writeFailure, writeFails>>
        /\ faults' = faults \/ Fault
    BY DEF Admit
  <2> QED
    BY <1>1, <2>1, WriteFacts, BudgetFacts DEF Counts, Fault
<1>6. OpsInv'
  BY <1>1, <1>3, SameOps
<1> QED
  BY <1>1, <1>2, <1>3, <1>4, <1>5, <1>6 DEF OtherStep, RestTypes, Inv, TypeOK

(* The end of a run leaves the items as they are. *)
LEMMA EndStep ==
  ASSUME Inv, End
  PROVE  OtherStep
<1>1. /\ UNCHANGED <<row, ckpt, hist, locks, disk, edits, faults, crashes>>
      /\ exec' = [i \in Item |-> Idle]
  BY DEF End
<1>2. UNCHANGED <<published, archive, target, targetTemp, archiveTemp>>
  BY <1>1 DEF disk, staging, public
<1>3. exec' \in [Item -> Executions] /\ PlacesKept
  BY <1>1 DEF PlacesKept, Idle, Executions, Place, Error
<1>4. BudgetTypes' /\ writeFailure' \in BOOLEAN
  <2>1. writeFailure' \in BOOLEAN /\ Counts(writeFails, writeFails', MaxWriteFail)
    BY WriteFacts DEF End, Counts
  <2> QED
    BY <1>1, <2>1, BudgetFacts DEF Counts
<1> QED
  BY <1>1, <1>2, <1>3, <1>4, EndOps DEF OtherStep, RestTypes, Inv, TypeOK

(* A crash only takes what is in memory. *)
LEMMA CrashStep ==
  ASSUME Inv, Crash
  PROVE  OtherStep
<1>1. /\ UNCHANGED <<row, ckpt, hist, disk, edits, faults, writeFails>> /\ locks' = {} /\ writeFailure' = FALSE
      /\ exec' = [i \in Item |-> Idle] /\ Counts(crashes, crashes', MaxCrash)
  BY DEF Crash, Counts
<1>2. UNCHANGED <<published, archive, target, targetTemp, archiveTemp>>
  BY <1>1 DEF disk, staging, public
<1>3. exec' \in [Item -> Executions] /\ PlacesKept
  BY <1>1 DEF PlacesKept, Idle, Executions, Place, Error
<1>4. BudgetTypes'
  BY <1>1, BudgetFacts DEF Counts
<1> QED
  BY <1>1, <1>2, <1>3, <1>4, CrashOps DEF OtherStep, RestTypes, Inv, TypeOK

(* Staging is swept of what no run and no doubt needs. *)
LEMMA SweepStep ==
  ASSUME Inv, NEW i \in Item, SweepStaging(i)
  PROVE  OtherStep
<1>1. /\ UNCHANGED <<store, live, exec, locks, writeFailure, public, archive, budget>>
      /\ targetTemp'  = [targetTemp EXCEPT ![i] = "absent"]
      /\ archiveTemp' = [archiveTemp EXCEPT ![i] = "absent"]
  BY DEF SweepStaging
<1>2. UNCHANGED <<op, row, ckpt, hist, target, published, edits, faults, crashes, writeFails>>
  BY <1>1 DEF store, public, budget
<1>3. targetTemp' \in [Item -> Temps] /\ archiveTemp' \in [Item -> Temps]
  BY <1>1 DEF Inv, TypeOK, Temps
<1>4. BudgetTypes'
  BY <1>2, BudgetFacts DEF Counts
<1>5. OpsInv'
  BY <1>1, <1>2, SameOps DEF Inv, RunInv
<1> QED
  BY <1>1, <1>2, <1>3, <1>4, <1>5 DEF OtherStep, PlacesKept, RestTypes, Inv, TypeOK

(* A consumer only empties a place of a queue. *)
LEMMA TakeStep ==
  ASSUME Inv, NEW t \in Target, NEW n \in Name, Take(t, n)
  PROVE  OtherStep
<1>1. UNCHANGED <<op, row, ckpt, hist, live, exec, locks, writeFailure, targetTemp, archiveTemp, archive,
                  published, edits, faults, crashes, writeFails>>
  BY DEF Take, store, staging, budget
<1>2. BudgetTypes'
  BY <1>1, BudgetFacts DEF Counts
<1>3. OpsInv'
  BY <1>1, SameOps DEF Inv, RunInv
<1> QED
  BY <1>1, <1>2, <1>3 DEF OtherStep, PlacesKept, RestTypes, Inv, TypeOK

(* Another write of the state file. *)
LEMMA OtherWriteStep ==
  ASSUME Inv, OtherWrite
  PROVE  OtherStep
<1>1. UNCHANGED <<op, row, ckpt, hist, live, exec, locks, disk, edits, faults, crashes>> /\ (Committed \/ Lost)
  BY DEF OtherWrite, store
<1>2. OpsInv'
  BY <1>1, SameOps DEF Inv, RunInv
<1> QED
  BY <1>1, <1>2, OutsideStep DEF Counts, Inv, TypeOK

(* A step is one of a submitOne, or leaves what those write alone. *)
LEMMA StepKinds ==
  ASSUME Inv, Next
  PROVE  (\E i \in Item : Submit(i)) \/ OtherStep
BY UserStep, BeginStep, AdmitStep, EndStep, CrashStep, SweepStep, TakeStep, OtherWriteStep DEF Next

(* Stuttering. *)
LEMMA Stutter ==
  ASSUME Inv, UNCHANGED vars
  PROVE  Inv'
<1>1. UNCHANGED <<op, row, ckpt, hist, live, exec, locks, writeFailure, targetTemp, archiveTemp, target,
                  published, archive, edits, faults, crashes, writeFails>>
  BY DEF vars, store, disk, staging, public, budget
<1>2. OpsInv'
  BY <1>1, SameOps DEF Inv, RunInv
<1>3. RestTypes' /\ BudgetTypes'
  BY <1>1 DEF RestTypes, BudgetTypes, Inv, TypeOK
<1> QED
  BY <1>1, <1>2, <1>3, OtherInv DEF OtherStep, PlacesKept, Inv, TypeOK

(* The invariant is inductive. *)
LEMMA InvStep ==
  ASSUME Inv, [Next]_vars
  PROVE  Inv'
BY StepKinds, SubmitInv, OtherInv, Stutter

(* It holds at first. *)
LEMMA InvInit ==
  ASSUME Init
  PROVE  Inv
<1> DEFINE sel == CHOOSE s \in Selection : TRUE
           policy == CHOOSE p \in Policy : TRUE
<1>1. sel \in Selection /\ policy \in Policy /\ 1 \in Name /\ Template \in Parameters
  BY DeliveryAssumption DEF Name
<1>2. /\ op = [o \in Op |-> [status |-> "ABSENT", kind |-> "BATCH", items |-> {}, policy |-> policy, attempt |-> 0]]
      /\ row = [i \in Item |-> [status |-> "NONE", sel |-> sel, par |-> Template, policy |-> policy]]
      /\ ckpt = [i \in Item |-> NoCheckpoint]
      /\ NoCheckpoint = [phase |-> "NONE", owner |-> NoOp, name |-> 1, sel |-> sel, par |-> Template]
  BY DEF Init, NoCheckpoint
<1> HIDE DEF sel, policy
<1>3. live = NoOp /\ hist = [i \in Item |-> "NONE"] /\ exec = [i \in Item |-> Idle]
      /\ archive = [n \in Name |-> [base |-> NoItem, merged |-> {}]]
      /\ target = [t \in Target |-> [n \in Name |-> NoItem]]
      /\ published = [i \in Item |-> 0] /\ targetTemp = [i \in Item |-> "absent"]
      /\ archiveTemp = [i \in Item |-> "absent"]
  BY DEF Init
<1>4. op \in [Op -> Operations]
  <2>1. 0 \in 0..(RetryLimit + 1)
    BY DeliveryAssumption
  <2> QED
    BY <1>1, <1>2, <2>1 DEF Operations, Status, Policies
<1>5. row \in [Item -> Rows]
  BY <1>1, <1>2 DEF Rows, Policies
<1>6. NoCheckpoint \in Checkpoints
  BY <1>1, <1>2 DEF Checkpoints, Phase, Rebuildable
<1>7. archive \in [Name -> Cells] /\ exec \in [Item -> Executions]
  BY <1>3 DEF Cells, Executions, Idle, Place, Error
<1>8. BudgetTypes
  BY DeliveryAssumption DEF BudgetTypes, Init
<1>9. TypeOK
  <2>1. ckpt \in [Item -> Checkpoints]
    BY <1>2, <1>6
  <2>2. /\ live \in Op \cup {NoOp} /\ hist \in [Item -> Result \cup {"NONE"}]
        /\ targetTemp \in [Item -> Temps] /\ archiveTemp \in [Item -> Temps]
        /\ target \in [Target -> [Name -> Item \cup {NoItem}]] /\ published \in [Item -> Nat]
    BY <1>3 DEF Temps
  <2>3. locks \subseteq Target /\ writeFailure \in BOOLEAN
    BY DEF Init
  <2> QED
    BY <1>4, <1>5, <1>7, <1>8, <2>1, <2>2, <2>3 DEF TypeOK, BudgetTypes
<1>10. RunInv
  BY <1>2, <1>3 DEF RunInv, Active, ActiveStatus, Present, Idle
<1>11. \A i \in Item : ckpt[i].phase = "NONE"
  BY <1>2
<1>12. ItemInv
  BY <1>3, <1>11 DEF ItemInv, Evidence, Knows, Idle, Rebuildable, Uncertain
<1>13. PlaceInv
  BY <1>3, <1>11 DEF PlaceInv, ArchiveAgrees, SuccessIsArchived, ArchiveOfOneSelection
<1>14. OwnerInv
  BY <1>11 DEF OwnerInv, OwnerKeepsLock, Uncertain
<1> QED
  BY <1>9, <1>10, <1>12, <1>13, <1>14 DEF Inv

(* It holds throughout. *)
LEMMA Invariance == Spec => []Inv
<1>1. Init => Inv
  BY InvInit
<1>2. Inv /\ [Next]_vars => Inv'
  BY InvStep
<1> QED
  BY <1>1, <1>2, PTL DEF Spec

---------------------------------------------------------------------------
(* Theorems. *)

(* The state has the types it is declared with. *)
THEOREM TypeCorrect == Spec => []TypeOK
<1>1. Inv => TypeOK
  BY DEF Inv
<1> QED
  BY <1>1, Invariance, PTL

(* A package enters the queue of its target at most once, whatever crashes, *)
(* lost writes, retries and consumers do in between (reconcile, submitOne). *)
THEOREM PublishedOnce == Spec => []AtMostOncePublish
<1>1. Inv => AtMostOncePublish
  BY DEF Inv, ItemInv, Evidence, AtMostOncePublish
<1> QED
  BY <1>1, Invariance, PTL

(* Checkpoint and staging agree with what has been published, and a doubt   *)
(* keeps its task locked (saveCheckpoint, removeOwnedStaging, run).         *)
THEOREM EvidenceHolds == Spec => []EvidenceSound
<1>1. Inv => EvidenceSound
  BY DEF Inv, ItemInv, Evidence, OwnerInv, EvidenceSound, CheckpointTellsTruth, EvidenceKept
<1> QED
  BY <1>1, Invariance, PTL

(* A success is archived, and no directory of the archive mixes what was    *)
(* approved apart (finishArchive, isCompatibleArchive).                     *)
THEOREM ArchiveHolds == Spec => []ArchiveAgrees
<1>1. Inv => ArchiveAgrees
  BY DEF Inv, PlaceInv
<1> QED
  BY <1>1, Invariance, PTL

(* Only the end of a run lets an operation succeed. *)
LEMMA SucceedsAtEnd ==
  ASSUME Inv, Next, NEW o \in Op, op[o].status # "SUCCEEDED", op'[o].status = "SUCCEEDED"
  PROVE  End /\ o = live /\ Thrown = {} /\ ResultStatus = "SUCCEEDED"
<1>1. op \in [Op -> Operations] /\ op[o] \in Operations
  BY DEF Inv, TypeOK
<1>2. ASSUME NEW p \in Op, NEW s \in Status \ {"SUCCEEDED"}, op' = [op EXCEPT ![p].status = s] PROVE FALSE
  <2>1. Rowed(p) /\ op'[p].status = s
    BY <1>2, StatusFacts
  <2> QED
    BY <1>2, <2>1 DEF Rowed
<1>3. ASSUME NEW p \in Op, NEW r, r.status # "SUCCEEDED", op' = [op EXCEPT ![p] = r] PROVE FALSE
  BY <1>1, <1>3
<1>4. UNCHANGED op => FALSE
  OBVIOUS
<1>5. ASSUME NEW p \in Op, Requeue(p) PROVE FALSE
  BY <1>2, <1>5 DEF Requeue, Status, ActiveStatus
<1>6. ASSUME NEW p \in Op, NEW kind, NEW items, NEW policy, Accept(p, kind, items, policy) PROVE FALSE
  <2> DEFINE r == [status |-> "QUEUED", kind |-> kind, items |-> items, policy |-> policy, attempt |-> 0]
  <2>1. op' = [op EXCEPT ![p] = r] /\ r.status # "SUCCEEDED"
    BY <1>6 DEF Accept
  <2> HIDE DEF r
  <2> QED
    BY <1>3, <2>1
<1>7. User => FALSE
  <2>1. \A items, sel : ~Approve(items, sel)
    BY <1>4 DEF Approve, Edit
  <2>2. \A i, par, policy : ~RemoveRow(i) /\ ~ChangeRow(i, par, policy)
    BY <1>4 DEF RemoveRow, ChangeRow, Edit
  <2>3. \A p \in Op : \A items, sel, policy, i :
          ~ApproveDirect(p, items, sel) /\ ~Batch(p, items, policy) /\ ~RetrySubmission(p, i)
    BY <1>5, <1>6 DEF ApproveDirect, Batch, RetrySubmission
  <2> QED
    BY <1>5, <2>1, <2>2, <2>3 DEF User
<1>8. ASSUME NEW p \in Op, Begin(p) PROVE FALSE
  <2> DEFINE r == [op[p] EXCEPT !.status = "RUNNING", !.attempt = IF @ > RetryLimit THEN @ ELSE @ + 1]
  <2>1. op[p] \in Operations
    BY <1>1
  <2>2. UNCHANGED op \/ op' = [op EXCEPT ![p] = r]
    BY <1>1, <1>8 DEF Begin
  <2>3. r.status # "SUCCEEDED"
    BY <2>1 DEF Operations
  <2> HIDE DEF r
  <2> QED
    BY <1>3, <2>2, <2>3
<1>9. Crash => FALSE
  <2>1. Crash => op'[o] = op[o] \/ op'[o].status = "QUEUED"
    BY <1>1 DEF Crash, Operations
  <2> QED
    BY <2>1
<1>10. Admit \/ OtherWrite => FALSE
  BY <1>4 DEF Admit, OtherWrite, store
<1>11. ASSUME NEW i \in Item, Submit(i) \/ SweepStaging(i) PROVE FALSE
  BY <1>4, <1>11, Busy DEF SweepStaging, store
<1>12. ASSUME NEW t \in Target, NEW n \in Name, Take(t, n) PROVE FALSE
  BY <1>4, <1>12 DEF Take, store
<1>13. End
  BY <1>7, <1>8, <1>9, <1>10, <1>11, <1>12 DEF Next
<1>14. PICK s \in Status \ {"ABSENT"} :
         /\ op' = [op EXCEPT ![live].status = s]
         /\ (Thrown = {} /\ s = ResultStatus) \/ s # "SUCCEEDED"
  BY <1>4, <1>13, EndFacts
<1>15. Rowed(live) /\ op'[live].status = s
  BY <1>13, <1>14, EndFacts, StatusFacts
<1> QED
  BY <1>13, <1>14, <1>15 DEF Rowed

(* An operation ends as SUCCEEDED only if everything it was asked for is    *)
(* published and archived, or was left out by the policy "skip" (runItems,  *)
(* resultStatus).                                                           *)
THEOREM SuccessIsDelivered == Spec => SucceededMeansDelivered
<1>1. ASSUME Inv, [Next]_vars
      PROVE  [\A o \in Op : op[o].status # "SUCCEEDED" /\ op'[o].status = "SUCCEEDED" =>
                \A i \in op[o].items :
                  \/ published[i] = 1 /\ hist[i] = "SUCCESS"
                  \/ hist[i] = "SKIPPED_CONFLICT"]_vars
  <2>1. SUFFICES ASSUME Next, NEW o \in Op, op[o].status # "SUCCEEDED", op'[o].status = "SUCCEEDED",
                        NEW i \in op[o].items
                 PROVE  \/ published[i] = 1 /\ hist[i] = "SUCCESS"
                        \/ hist[i] = "SKIPPED_CONFLICT"
    BY <1>1
  <2>2. End /\ o = live /\ Thrown = {} /\ ResultStatus = "SUCCEEDED"
    BY <1>1, <2>1, SucceedsAtEnd
  <2>3. i \in Items /\ i \in Item /\ Items = op[live].items
    BY <1>1, <2>1, <2>2 DEF Items, End, Inv, TypeOK, Operations
  <2>4. exec[i].at = "ended"
    BY <2>2, <2>3 DEF End, Over, Thrown
  <2>5. hist[i] \in Result /\ hist[i] \notin {"FAILED", "PARTIAL_SUCCESS"}
    BY <1>1, <2>2, <2>3, <2>4, ItemFacts DEF Knows, Inv, TypeOK, ResultStatus
  <2>6. hist[i] = "SUCCESS" => published[i] = 1
    <3>1. Evidence(i) /\ published[i] \in Nat
      BY <1>1, <2>3, ItemFacts
    <3> QED
      BY <3>1 DEF Evidence
  <2> QED
    BY <2>5, <2>6 DEF Result
<1> QED
  BY <1>1, Invariance, PTL DEF Spec, SucceededMeansDelivered

---------------------------------------------------------------------------
(* The promise to users is kept. *)

(* A package becomes visible in one kind of step. *)
LEMMA DeliverStep ==
  ASSUME Inv, NEW i \in Item, Enter(i), Rename(i)
  PROVE  Promise!Deliver(i)
<1>1. UNCHANGED hist /\ ckpt[i].phase \in Uncertain /\ targetTemp[i] = "complete"
  BY ItemFacts DEF Rename, store, At, Knows
<1>2. published[i] = 0
  BY <1>1, ItemFacts DEF Evidence
<1>3. published' = [published EXCEPT ![i] = 1]
  BY <1>2 DEF Enter, Inv, TypeOK
<1>4. \A j \in Item : Outcome(j)' = Outcome(j)
  BY <1>1 DEF Outcome
<1> QED
  BY <1>2, <1>3, <1>4 DEF Promise!Deliver

(* The report about one item changes. *)
LEMMA ReportFacts ==
  ASSUME Inv, NEW i \in Item, NEW r \in Result, hist' = [hist EXCEPT ![i] = r]
  PROVE  [j \in Item |-> Outcome(j)]' =
           [[j \in Item |-> Outcome(j)] EXCEPT
              ![i] = IF r \in {"FAILED", "SKIPPED_CONFLICT"} THEN "refused"
                     ELSE IF r = "PARTIAL_SUCCESS" THEN "incomplete" ELSE "done"]
<1>1. hist' [i] = r /\ \A j \in Item \ {i} : hist'[j] = hist[j]
  BY DEF Inv, TypeOK
<1>2. \A j \in Item \ {i} : Outcome(j)' = Outcome(j)
  BY <1>1 DEF Outcome
<1>3. Outcome(i)' = IF r \in {"FAILED", "SKIPPED_CONFLICT"} THEN "refused"
                    ELSE IF r = "PARTIAL_SUCCESS" THEN "incomplete" ELSE "done"
  BY <1>1 DEF Outcome, Result
<1> QED
  BY <1>2, <1>3

(* What is recorded after the archive has been written is true. *)
LEMMA AcknowledgeStep ==
  ASSUME Inv, NEW i \in Item, Record(i), ~UNCHANGED hist
  PROVE  \E o \in {"incomplete", "done"} : Promise!Acknowledge(i, o)
<1> DEFINE r == IF exec[i].at = "archived" THEN "SUCCESS" ELSE "PARTIAL_SUCCESS"
           o == IF exec[i].at = "archived" THEN "done" ELSE "incomplete"
<1>1. hist' = [hist EXCEPT ![i] = r] /\ UNCHANGED published
  BY DEF Record, disk, public
<1>2. ckpt[i].phase = "TARGET_COMMITTED" /\ Evidence(i) /\ published[i] \in Nat
  BY ItemFacts DEF Record, At, Knows
<1>3. published[i] = 1 /\ hist[i] # "SUCCESS"
  BY <1>2 DEF Evidence
<1>4. [j \in Item |-> Outcome(j)]' = [[j \in Item |-> Outcome(j)] EXCEPT ![i] = o]
  BY <1>1, ReportFacts DEF Result
<1>5. [j \in Item |-> Outcome(j)][i] # "done"
  BY <1>3 DEF Outcome
<1> QED
  BY <1>1, <1>3, <1>4, <1>5 DEF Promise!Acknowledge

(* A failure is only reported of what may be built again. *)
LEMMA RefusalStep ==
  ASSUME Inv, NEW i \in Item, Fail(i), ~UNCHANGED hist
  PROVE  Promise!Refuse(i)
<1> DEFINE r == IF exec[i].err = "conflict" THEN "SKIPPED_CONFLICT" ELSE "FAILED"
<1>1. hist' = [hist EXCEPT ![i] = r] /\ UNCHANGED published /\ ckpt[i].phase \in Rebuildable
  BY DEF Fail, Undeniable, disk, public
<1>2. published[i] = 0
  BY <1>1, ItemFacts DEF Evidence
<1>3. [j \in Item |-> Outcome(j)]' = [[j \in Item |-> Outcome(j)] EXCEPT ![i] = "refused"]
  BY <1>1, ReportFacts DEF Result
<1> QED
  BY <1>1, <1>2, <1>3 DEF Promise!Refuse

(* Every step is one of the promise, or is not seen there. *)
LEMMA PromiseStep ==
  ASSUME Inv, [Next]_vars
  PROVE  [Promise!Next]_<<published, [i \in Item |-> Outcome(i)]>>
<1>1. ASSUME UNCHANGED <<published, hist>> PROVE UNCHANGED <<published, [i \in Item |-> Outcome(i)]>>
  BY <1>1 DEF Outcome
<1>2. CASE UNCHANGED vars
  BY <1>1, <1>2 DEF vars, store, disk, public
<1>3. CASE OtherStep
  BY <1>1, <1>3 DEF OtherStep
<1>4. ASSUME NEW i \in Item, Submit(i)
      PROVE  \/ UNCHANGED <<published, hist>>
             \/ Promise!Deliver(i) \/ Promise!Refuse(i)
             \/ \E o \in {"incomplete", "done"} : Promise!Acknowledge(i, o)
  <2>1. CASE Rename(i)
    <3>1. Enter(i) \/ UNCHANGED <<published, hist>>
      BY <2>1 DEF Rename, public, store
    <3> QED
      BY <2>1, <3>1, DeliverStep
  <2>2. CASE Record(i)
    <3>1. UNCHANGED published
      BY <2>2 DEF Record, disk, public
    <3> QED
      BY <2>2, <3>1, AcknowledgeStep
  <2>3. CASE Fail(i)
    <3>1. UNCHANGED published
      BY <2>3 DEF Fail, disk, public
    <3> QED
      BY <2>3, <3>1, RefusalStep
  <2>4. CASE ~Rename(i) /\ ~Record(i) /\ ~Fail(i)
    BY <1>4, <2>4 DEF Submit, Reconcile, Refuse, Package, Prepare, Clear, Build, Verify, Intend, Receipt,
         Doubt, Archive, ArchiveFails, Catch, SaveCheckpoint, store, disk, public
  <2> QED
    BY <2>1, <2>2, <2>3, <2>4
<1>5. ASSUME NEW i \in Item, Submit(i) PROVE [Promise!Next]_<<published, [j \in Item |-> Outcome(j)]>>
  BY <1>1, <1>4, <1>5 DEF Promise!Next
<1> QED
  BY <1>2, <1>3, <1>5, StepKinds

(* Whatever is tried how often, a row is delivered at most once and its     *)
(* history never reports a failure of what was delivered, nor a delivery of *)
(* what was not, and a success is final (failProgress, finishArchive).      *)
THEOREM PromiseIsKept == Spec => ImplementsPromise
<1>1. Init => Promise!Init
  BY DEF Init, Promise!Init, Outcome
<1>2. Inv /\ [Next]_vars => [Promise!Next]_<<published, [i \in Item |-> Outcome(i)]>>
  BY PromiseStep
<1> QED
  BY <1>1, <1>2, Invariance, PTL DEF Spec, ImplementsPromise, Promise!Spec

=============================================================================
