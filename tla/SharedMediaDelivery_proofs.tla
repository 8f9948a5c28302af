--------------------- MODULE SharedMediaDelivery_proofs ---------------------
(***************************************************************************)
(* Proofs about the delivery of shared media, for any approvals of a SKU,  *)
(* any of their deliveries and any numbers of faults, crashes and lost     *)
(* writes.                                                                 *)
(***************************************************************************)
EXTENDS SharedMediaDelivery, TLAPS

\* Where the run on a task has a delivery in hand, and where under the lock.
Building == {"clear", "build", "verified"}
Guarded  == {"inspect", "intend", "rename", "read", "write"}
InHand   == {"lock", "archive", "save", "caught"} \cup Building \cup Guarded
Settling == {"TARGET_COMMITTED", "COMPLETE"}
Handles(a) == run[a].at \in InHand

\* A delivery that need not be archived, or is, has one of its approval in
\* the archive.
Filed(a) == Of(a) \cap archive # {}
Files(c) == ~c.arch \/ c.filed \/ c.phase = "COMPLETE"

\* What the rows say about a delivery.
Records(d) ==
  /\ registered[d] <= 1
  /\ registered[d] > 0 => ckpt[d].phase \notin Rebuildable
  /\ ckpt[d].phase \in Settling => registered[d] > 0
  /\ ckpt[d].phase = "COMPLETE" <=> ckpt[d].result = "SUCCESS"
  /\ ckpt[d].phase = "COMPLETE" <=> hist[d] = "SUCCESS"
  /\ ckpt[d].phase = "COMPLETE" => outbox[d] # "NONE"
  /\ outbox[d] # "NONE" => registered[d] > 0
  /\ ckpt[d].phase # "NONE" /\ Files(ckpt[d]) => Filed(ApprovalOf[d])

\* A delivery that was renamed or registered is staged no more, and a
\* registered one lies at its destination only while the manifest lists it.
Placed(d) ==
  /\ registered[d] > 0 \/ d \in dest => staging[d] \in {"absent", "empty"}
  /\ d \in dest => ckpt[d].phase \notin Rebuildable
  /\ registered[d] > 0 /\ d \in dest => d \in manifest[PlatformOf[d]]
  /\ d \in manifest[PlatformOf[d]] => registered[d] > 0

\* OZON is staged under the lock: what is in doubt is there, and a cleanup
\* that has looked takes nothing away that is in doubt.
Secure(d) == registered[d] > 0 \/ (lock[Ozon] # Cleaner /\ (staging[d] = "complete" \/ d \in dest))
Proven(d) == PlatformOf[d] = Ozon /\ ckpt[d].phase \in Uncertain => Secure(d)

Sound(d) == Records(d) /\ Placed(d) /\ Proven(d)

\* What the checkpoint in its memory tells the run, wherever it is.
Remembers(a) ==
  /\ Mem(a).phase # "NONE" /\ ckpt[It(a)].phase # "COMPLETE"
  /\ Mem(a).phase = "COMPLETE" <=> Mem(a).result = "SUCCESS"
  /\ Mem(a).phase \in Rebuildable => registered[It(a)] = 0 /\ ckpt[It(a)].phase \in Rebuildable
  /\ Mem(a).phase \in Settling => registered[It(a)] > 0
  /\ Files(Mem(a)) => Filed(a)
  /\ run[a].at \in Building => Mem(a).phase \in Rebuildable
  /\ run[a].at \in {"lock", "inspect"} => Mem(a).phase # "COMPLETE"
  /\ At(a, "intend") => Mem(a).phase \notin Settling
  /\ run[a].at \in {"rename", "read", "write"} =>
       Mem(a).phase = "COMMIT_INTENT" /\ ckpt[It(a)].phase = "COMMIT_INTENT"
  /\ At(a, "archive") => Mem(a).phase = "TARGET_COMMITTED"
  /\ At(a, "save") => Mem(a).phase \in Settling /\ Mem(a).result \in Public
  /\ At(a, "caught") <=> run[a].err # "none"
  /\ run[a].err = "unknown" => Mem(a).phase = "COMMIT_INTENT"

\* The manifest is read and written under the lock of the SKU.
Excludes(a) ==
  /\ run[a].at \in Guarded => lock[Pl(a)] = a
  /\ run[a].at \in Guarded \ {"inspect"} => It(a) \notin manifest[Pl(a)]
  /\ run[a].at \in {"read", "write"} => It(a) \in dest
  /\ At(a, "write") => run[a].base = manifest[Pl(a)]

\* The same of OZON, where the run has staged what it may commit.
Proves(a) ==
  Pl(a) = Ozon =>
    /\ run[a].at \in Building => lock[Ozon] = a
    /\ At(a, "lock") => ~run[a].fresh
    /\ run[a].at \in {"verified", "inspect", "intend"} /\ Mem(a).phase \in Rebuildable
         => staging[It(a)] = "complete"
    /\ Mem(a).phase \in Uncertain => Secure(It(a))

Knows(a) == Handles(a) => Remembers(a) /\ Excludes(a) /\ Proves(a)

\* What the run still has to do, has done and has failed to do.
Shape(a) ==
  /\ Handles(a) => It(a) \in run[a].todo
  /\ At(a, "note") => It(a) \in Of(a) /\ ~Approving(a)
  /\ run[a].ok \cap run[a].todo = {}
  /\ run[a].filed => Filed(a)
  /\ \A f \in run[a].bad : /\ f.delivery \in Of(a) \ (run[a].todo \cup run[a].ok)
                           /\ f.result # "SUCCESS" /\ ckpt[f.delivery].phase # "COMPLETE"
  /\ Approving(a) =>
       /\ \A d \in Of(a) : d \in run[a].ok \cup run[a].todo \/ \E f \in run[a].bad : f.delivery = d
       /\ \A d \in run[a].ok : hist[d] \in Public
       /\ At(a, "return") => run[a].todo = {}

\* The retry of a delivery tells the history what it has just saved.
Notes(a) ==
  At(a, "note") =>
    IF run[a].err = "none" THEN Mem(a) = ckpt[It(a)]
    ELSE Mem(a).result # "SUCCESS" /\ ckpt[It(a)].phase # "COMPLETE"

Succeeds(a) == op[a] = "SUCCEEDED" => Filed(a) /\ \A d \in Of(a) : hist[d] = "SUCCESS"

Task(a) ==
  /\ \A d \in Of(a) : Sound(d)
  /\ Knows(a) /\ Shape(a) /\ Notes(a) /\ Succeeds(a)

Inv ==
  /\ TypeOK
  /\ \A a \in Approval : Task(a)
  /\ sending # Nobody => outbox[sending] # "NONE"

---------------------------------------------------------------------------
(* What a step leaves alone. *)

\* Nothing that matters to a delivery changes: its outbox row may be sent,
\* its empty directory may be removed.
Untouched(d) ==
  /\ ckpt'[d] = ckpt[d] /\ hist'[d] = hist[d] /\ registered'[d] = registered[d]
  /\ (outbox'[d] = "NONE") = (outbox[d] = "NONE")
  /\ staging'[d] = staging[d] \/ (staging[d] = "empty" /\ staging'[d] = "absent")
  /\ (d \in dest') = (d \in dest)
  /\ (d \in manifest'[PlatformOf[d]]) = (d \in manifest[PlatformOf[d]])

\* Locks are taken and given back by the run on task a only.
Locks(a) ==
  \A p \in Platform : \/ lock'[p] = lock[p]
                      \/ lock[p] = Nobody /\ lock'[p] = a
                      \/ lock[p] = a /\ lock'[p] = Nobody

\* A step leaves task b alone.
Spares(b) ==
  /\ run'[b] = run[b] /\ (op'[b] = op[b] \/ op'[b] # "SUCCEEDED") /\ archive \subseteq archive'
  /\ \A d \in Of(b) : Untouched(d)
  /\ \A p \in Platform : lock[p] = b => lock'[p] = b /\ manifest'[p] = manifest[p]
  /\ lock'[Ozon] = Cleaner => lock[Ozon] = Cleaner

\* A step of the run on task a is of no concern to the other tasks.
Apart(a) ==
  /\ \A b \in Approval \ {a} : run'[b] = run[b] /\ op'[b] = op[b]
  /\ \A d \in Delivery \ Of(a) : Untouched(d)
  /\ \A p \in Platform : manifest'[p] = manifest[p] \/ lock[p] = a
  /\ Locks(a) /\ archive \subseteq archive'

(* A delivery that is not touched stays as sound as it was. *)
LEMMA SoundKept ==
  ASSUME NEW d \in Delivery, Sound(d), Untouched(d), archive \subseteq archive',
         lock'[Ozon] = Cleaner => lock[Ozon] = Cleaner
  PROVE  Sound(d)'
<1>1. Records(d)'
  BY DEF Sound, Records, Untouched, Files, Filed
<1>2. Placed(d)' /\ Proven(d)'
  BY DEF Sound, Placed, Proven, Secure, Untouched
<1> QED
  BY <1>1, <1>2 DEF Sound

(* Deliveries and tasks belong together. *)
LEMMA Belongs ==
  /\ \A d \in Delivery : ApprovalOf[d] \in Approval /\ PlatformOf[d] \in Platform /\ d \in Of(ApprovalOf[d])
  /\ \A a \in Approval : \A d \in Of(a) : d \in Delivery /\ ApprovalOf[d] = a
  /\ Wb \in Platform /\ Ozon \in Platform /\ Wb # Ozon
  /\ Nobody \notin Delivery /\ Nobody \notin Approval /\ Nobody # Cleaner /\ Cleaner \notin Approval
  /\ \A a \in Approval, o \in Op : TaskOf(o) = a <=> o \in OpsOf(a)
  /\ \A a, b \in Approval : a # b => a \notin OpsOf(b) /\ a \notin Delivery
BY MediaAssumption DEF Platform, Of, TaskOf, OpsOf, Op

(* A task that is left alone stays as it is. *)
LEMMA SparedKept ==
  ASSUME TypeOK, NEW b \in Approval, Task(b), Spares(b)
  PROVE  Task(b)'
<1>1. \A d \in Of(b) : d \in Delivery /\ Untouched(d)
  BY Belongs DEF Spares
<1>2. /\ run'[b] = run[b] /\ (op'[b] = op[b] \/ op'[b] # "SUCCEEDED") /\ archive \subseteq archive'
      /\ \A p \in Platform : lock[p] = b => lock'[p] = b /\ manifest'[p] = manifest[p]
      /\ lock'[Ozon] = Cleaner => lock[Ozon] = Cleaner
  BY DEF Spares
<1>3. /\ It(b)' = It(b) /\ Mem(b)' = Mem(b) /\ Pl(b)' = Pl(b) /\ Handles(b)' = Handles(b)
      /\ \A place : At(b, place)' = At(b, place)
  BY <1>2 DEF It, Mem, Pl, Handles, At
<1>4. \A d \in Of(b) : Sound(d)'
  BY <1>1, <1>2, SoundKept, Belongs DEF Task
<1>5. Filed(b) => Filed(b)'
  BY <1>2 DEF Filed
<1>6. Shape(b)'
  <2>1. run[b].ok \subseteq Of(b)
    BY DEF TypeOK
  <2> QED
    BY <1>1, <1>2, <1>3, <1>5, <2>1 DEF Task, Shape, Approving, Untouched
<1>7. Knows(b)'
  <2>1. SUFFICES ASSUME Handles(b) PROVE Remembers(b)' /\ Excludes(b)' /\ Proves(b)'
    BY <1>3 DEF Knows
  <2>2. Remembers(b) /\ Excludes(b) /\ Proves(b) /\ It(b) \in Of(b)
    BY <2>1 DEF Task, Knows, Shape, TypeOK
  <2>3. Untouched(It(b)) /\ Pl(b) \in Platform /\ It(b) \in Delivery
    BY <1>1, <2>2, Belongs DEF Pl
  <2>4. Remembers(b)'
    BY <1>2, <1>3, <1>5, <2>2, <2>3 DEF Remembers, Untouched, Files
  <2>5. Excludes(b)'
    BY <1>2, <1>3, <2>2, <2>3 DEF Excludes, Untouched, Guarded, Pl, At
  <2>6. Proves(b)'
    BY <1>2, <1>3, <2>2, <2>3, Belongs DEF Proves, Untouched, Secure
  <2> QED
    BY <2>4, <2>5, <2>6
<1>8. Notes(b)' /\ Succeeds(b)'
  BY <1>1, <1>2, <1>3, <1>5 DEF Task, Notes, Succeeds, Shape, Untouched
<1> QED
  BY <1>4, <1>6, <1>7, <1>8 DEF Task

(* So the other tasks stay as they are. *)
LEMMA OthersKept ==
  ASSUME TypeOK, NEW a \in Approval, NEW b \in Approval, a # b, Task(b), Apart(a)
  PROVE  Task(b)'
<1>1. \A d \in Of(b) : Untouched(d)
  BY Belongs DEF Apart
<1>2. Spares(b)
  BY <1>1, Belongs DEF Apart, Locks, Spares
<1> QED
  BY <1>2, SparedKept

---------------------------------------------------------------------------
(* What a step does to the memory of a run. *)

\* The run on task a is still at the same delivery of the same operation.
Carried(a) ==
  /\ run' \in [Approval -> Memories]
  /\ \A b \in Approval \ {a} : run'[b] = run[b]
  /\ run'[a].op = run[a].op /\ run'[a].item = run[a].item /\ run'[a].todo = run[a].todo
  /\ run'[a].ok = run[a].ok /\ run'[a].bad = run[a].bad /\ run'[a].filed = run[a].filed

\* It goes to a place with checkpoint m in memory and error err.
Goes(a, place, m, err) ==
  Carried(a) /\ run'[a].at = place /\ run'[a].mem = m /\ run'[a].err = err

(* Two writes at the same place. *)
LEMMA Twice ==
  ASSUME NEW S, NEW x \in S, NEW f, DOMAIN f = S, NEW u, NEW v
  PROVE  /\ [[f EXCEPT ![x] = u] EXCEPT ![x] = v] = [f EXCEPT ![x] = v]
         /\ [f EXCEPT ![x] = u][x] = u /\ DOMAIN [f EXCEPT ![x] = u] = S
OBVIOUS

(* The fields a step may write one by one. *)
LEMMA MemoryFields ==
  ASSUME NEW r \in Memories
  PROVE  /\ \A x \in Place : [r EXCEPT !.at = x] \in Memories
         /\ \A x \in Error : [r EXCEPT !.err = x] \in Memories
         /\ \A x \in BOOLEAN : [r EXCEPT !.fresh = x] \in Memories
         /\ \A x \in SUBSET Delivery : [r EXCEPT !.base = x] \in Memories
         /\ \A x \in Checkpoint : [r EXCEPT !.mem = x] \in Memories
         /\ r.mem \in Checkpoint /\ r.at \in Place /\ r.err \in Error /\ r.fresh \in BOOLEAN
BY DEF Memories

(* And those of a checkpoint. *)
LEMMA CheckpointFields ==
  ASSUME NEW c \in Checkpoint
  PROVE  /\ \A x \in Phase : [c EXCEPT !.phase = x] \in Checkpoint
         /\ \A x \in Result : [c EXCEPT !.result = x] \in Checkpoint
         /\ \A x \in BOOLEAN : [c EXCEPT !.filed = x] \in Checkpoint
         /\ c.phase \in Phase /\ c.result \in Result /\ c.filed \in BOOLEAN /\ c.arch \in BOOLEAN
         /\ NoCheckpoint \in Checkpoint
BY DEF Checkpoint, NoCheckpoint, Result, Phase, Rebuildable

(* A step that writes the memory of a run. *)
LEMMA PutFacts ==
  ASSUME TypeOK, NEW a \in Approval, NEW r \in Memories, run' = [run EXCEPT ![a] = r]
  PROVE  run' \in [Approval -> Memories] /\ run'[a] = r /\ \A b \in Approval \ {a} : run'[b] = run[b]
BY DEF TypeOK

(* Going to another place. *)
LEMMA GotoFacts ==
  ASSUME TypeOK, NEW a \in Approval, NEW place \in Place, Goto(a, place)
  PROVE  Goes(a, place, Mem(a), run[a].err) /\ run'[a].fresh = run[a].fresh
<1>1. run[a] \in Memories /\ [run[a] EXCEPT !.at = place] \in Memories
  BY MemoryFields DEF TypeOK
<1>2. run' = [run EXCEPT ![a] = [run[a] EXCEPT !.at = place]]
  BY DEF Goto
<1>3. run' \in [Approval -> Memories] /\ run'[a] = [run[a] EXCEPT !.at = place]
  BY <1>1, <1>2 DEF TypeOK
<1>4. \A b \in Approval \ {a} : run'[b] = run[b]
  BY <1>2 DEF TypeOK
<1> QED
  BY <1>1, <1>3, <1>4 DEF Goes, Carried, Mem, Memories

(* Going to another place with an error. *)
LEMMA FallFacts ==
  ASSUME TypeOK, NEW a \in Approval, NEW place \in Place, NEW err \in Error,
         run' = [run EXCEPT ![a].at = place, ![a].err = err]
  PROVE  Goes(a, place, Mem(a), err) /\ run'[a].fresh = run[a].fresh
<1> DEFINE r == [[run[a] EXCEPT !.at = place] EXCEPT !.err = err]
<1>1. run[a] \in Memories /\ r \in Memories
  BY MemoryFields DEF TypeOK
<1>2. run' = [run EXCEPT ![a] = r]
  BY DEF TypeOK
<1>3. run' \in [Approval -> Memories] /\ run'[a] = r
  BY <1>1, <1>2 DEF TypeOK
<1>4. \A b \in Approval \ {a} : run'[b] = run[b]
  BY <1>2 DEF TypeOK
<1> QED
  BY <1>1, <1>3, <1>4 DEF Goes, Carried, Mem, Memories

(* Going to another place with a new checkpoint in memory. *)
LEMMA MemFacts ==
  ASSUME TypeOK, NEW a \in Approval, NEW place \in Place, NEW c \in Checkpoint,
         run' = [run EXCEPT ![a] = [[run[a] EXCEPT !.mem = c] EXCEPT !.at = place]]
  PROVE  Goes(a, place, c, run[a].err) /\ run'[a].fresh = run[a].fresh
<1> DEFINE r == [[run[a] EXCEPT !.mem = c] EXCEPT !.at = place]
<1>1. run[a] \in Memories /\ r \in Memories
  BY MemoryFields DEF TypeOK
<1>2. run' \in [Approval -> Memories] /\ run'[a] = r
  BY <1>1 DEF TypeOK
<1>3. \A b \in Approval \ {a} : run'[b] = run[b]
  BY DEF TypeOK
<1> QED
  BY <1>1, <1>2, <1>3 DEF Goes, Carried, Memories

(* Going to another place with a new phase in memory. *)
LEMMA PhaseFacts ==
  ASSUME TypeOK, NEW a \in Approval, NEW place \in Place, NEW phase \in Phase,
         run' = [run EXCEPT ![a].mem.phase = phase, ![a].at = place]
  PROVE  Goes(a, place, [Mem(a) EXCEPT !.phase = phase], run[a].err) /\ run'[a].fresh = run[a].fresh
<1> DEFINE c == [Mem(a) EXCEPT !.phase = phase]
           r == [[run[a] EXCEPT !.mem = c] EXCEPT !.at = place]
<1>0. c \in Checkpoint
  BY MemoryFields, CheckpointFields DEF TypeOK, Mem
<1>2. run' = [run EXCEPT ![a] = r]
  <2> DEFINE q == [run[a] EXCEPT !.mem = c]
             f == [run EXCEPT ![a] = q]
  <2>1. run' = [[run EXCEPT ![a].mem.phase = phase] EXCEPT ![a].at = place]
    OBVIOUS
  <2>2. [run EXCEPT ![a].mem.phase = phase] = f
    BY DEF Mem
  <2>3. f[a] = q /\ \A b \in Approval \ {a} : f[b] = run[b]
    BY DEF TypeOK
  <2>4. [f EXCEPT ![a].at = place] = [run EXCEPT ![a] = r]
    <3> HIDE DEF q
    <3>1. [f EXCEPT ![a].at = place] = [f EXCEPT ![a] = [q EXCEPT !.at = place]]
      BY <2>3
    <3> QED
      BY <3>1 DEF TypeOK, q
  <2> QED
    BY <2>1, <2>2, <2>4
<1> QED
  BY <1>0, <1>2, MemFacts

(* The same with an error. *)
LEMMA LostFacts ==
  ASSUME TypeOK, NEW a \in Approval, NEW place \in Place, NEW phase \in Phase, NEW err \in Error,
         run' = [run EXCEPT ![a].mem.phase = phase, ![a].at = place, ![a].err = err]
  PROVE  Goes(a, place, [Mem(a) EXCEPT !.phase = phase], err)
<1> DEFINE c == [Mem(a) EXCEPT !.phase = phase]
           q == [run[a] EXCEPT !.mem = c]
           s == [q EXCEPT !.at = place]
           r == [s EXCEPT !.err = err]
           Put(x) == [run EXCEPT ![a] = x]
<1>1. c \in Checkpoint
  BY MemoryFields, CheckpointFields DEF TypeOK, Mem
<1>2. q \in Memories /\ s \in Memories /\ r \in Memories
  <2>1. q \in Memories
    BY <1>1, MemoryFields DEF TypeOK
  <2>2. s \in Memories
    BY <2>1, MemoryFields
  <2>3. r \in Memories
    BY <2>2, MemoryFields
  <2> QED
    BY <2>1, <2>2, <2>3
<1>3. DOMAIN run = Approval
  BY DEF TypeOK
<1>4. run' = Put(r)
  <2>1. [run EXCEPT ![a].mem.phase = phase] = Put(q)
    BY DEF Mem
  <2>2. [Put(q) EXCEPT ![a].at = place] = Put(s)
    <3>1. Put(q)[a] = q
      BY <1>3, Twice
    <3>2. [Put(q) EXCEPT ![a].at = place] = [Put(q) EXCEPT ![a] = s]
      BY <3>1
    <3> QED
      BY <1>3, <3>2, Twice
  <2>3. [Put(s) EXCEPT ![a].err = err] = Put(r)
    <3>1. Put(s)[a] = s
      BY <1>3, Twice
    <3>2. [Put(s) EXCEPT ![a].err = err] = [Put(s) EXCEPT ![a] = r]
      BY <3>1
    <3> QED
      BY <1>3, <3>2, Twice
  <2>4. run' = [[[run EXCEPT ![a].mem.phase = phase] EXCEPT ![a].at = place] EXCEPT ![a].err = err]
    OBVIOUS
  <2> HIDE DEF Put, q, s, r
  <2> QED
    BY <2>1, <2>2, <2>3, <2>4
<1>5. run' \in [Approval -> Memories] /\ run'[a] = r /\ \A b \in Approval \ {a} : run'[b] = run[b]
  <2> HIDE DEF r
  <2> QED
    BY <1>2, <1>4, PutFacts
<1>6. /\ r.op = run[a].op /\ r.item = run[a].item /\ r.todo = run[a].todo /\ r.ok = run[a].ok
      /\ r.bad = run[a].bad /\ r.filed = run[a].filed /\ r.at = place /\ r.mem = c /\ r.err = err
  <2> HIDE DEF c
  <2> QED
    BY DEF TypeOK, Memories
<1> HIDE DEF r, c
<1>7. Goes(a, place, c, err)
  BY <1>5, <1>6 DEF Goes, Carried
<1> QED
  BY <1>7 DEF c

---------------------------------------------------------------------------
(* The run while it has a delivery in hand. *)

(* What is known of the delivery. *)
LEMMA Hand ==
  ASSUME Inv, NEW a \in Approval, Handles(a)
  PROVE  /\ It(a) \in Delivery /\ It(a) \in Of(a) /\ Pl(a) \in Platform /\ Mem(a) \in Checkpoint
         /\ It(a) \in run[a].todo /\ Pl(a) = PlatformOf[It(a)] /\ ApprovalOf[It(a)] = a
         /\ Sound(It(a)) /\ Remembers(a) /\ Excludes(a) /\ Proves(a)
         /\ hist[It(a)] # "SUCCESS" /\ op[a] # "SUCCEEDED"
         /\ ckpt[It(a)] \in Checkpoint /\ registered[It(a)] \in Nat
<1>1. TypeOK /\ Task(a) /\ It(a) \in run[a].todo
  BY DEF Inv, Task, Shape
<1>2. It(a) \in Of(a) /\ It(a) \in Delivery /\ ApprovalOf[It(a)] = a
  BY <1>1, Belongs DEF TypeOK
<1>3. Sound(It(a)) /\ Remembers(a) /\ Excludes(a) /\ Proves(a)
  BY <1>1, <1>2 DEF Task, Knows
<1>4. hist[It(a)] # "SUCCESS"
  BY <1>3 DEF Sound, Records, Remembers
<1>5. Pl(a) \in Platform /\ Pl(a) = PlatformOf[It(a)]
  BY <1>2, Belongs DEF Pl
<1>6. Mem(a) \in Checkpoint
  BY <1>1, MemoryFields DEF TypeOK, Mem
<1>7. ckpt[It(a)] \in Checkpoint /\ registered[It(a)] \in Nat
  BY <1>1, <1>2 DEF TypeOK
<1> QED
  BY <1>1, <1>2, <1>3, <1>4, <1>5, <1>6, <1>7 DEF Task, Succeeds

\* A step that deals with the delivery in hand only.
Deals(a) ==
  /\ Handles(a) /\ Carried(a) /\ Apart(a)
  /\ \A d \in Of(a) \ {It(a)} : Untouched(d)
  /\ op'[a] = op[a]

(* For such a step, the delivery in hand is all that has to be looked at. *)
LEMMA HandStep ==
  ASSUME Inv, NEW a \in Approval, Deals(a),
         Sound(It(a))', Knows(a)', Notes(a)',
         run'[a].at \in InHand \cup {"thrown"} \/ (run'[a].at = "note" /\ ~Approving(a))
  PROVE  Task(a)'
<1>0. TypeOK /\ Task(a)
  BY DEF Inv
<1>1. /\ It(a) \in Of(a) /\ It(a) \in run[a].todo /\ op[a] # "SUCCEEDED"
      /\ It(a)' = It(a) /\ Approving(a)' = Approving(a)
      /\ archive \subseteq archive'
      /\ lock'[Ozon] = Cleaner => lock[Ozon] = Cleaner
  BY Hand, Belongs DEF Deals, Carried, It, Approving, Apart, Locks
<1>2. \A d \in Of(a) : Sound(d)'
  BY <1>0, <1>1, SoundKept, Belongs DEF Deals, Task
<1>3. Shape(a)'
  <2>1. Filed(a) => Filed(a)'
    BY <1>1 DEF Filed
  <2>2. \A f \in run[a].bad : f.delivery \in Of(a) \ {It(a)}
    BY <1>0, <1>1 DEF Task, Shape
  <2>3. \A d \in run[a].ok : d \in Of(a) \ {It(a)}
    BY <1>0, <1>1 DEF Task, Shape, TypeOK
  <2>4. /\ At(a, "note")' => run'[a].at = "note" /\ ~Approving(a)
        /\ ~At(a, "return")'
    BY DEF At, InHand, Building, Guarded
  <2> QED
    BY <1>0, <1>1, <2>1, <2>2, <2>3, <2>4 DEF Deals, Task, Shape, Carried, Untouched
<1>4. Succeeds(a)'
  BY <1>1 DEF Succeeds, Deals
<1> QED
  BY <1>2, <1>3, <1>4 DEF Task

---------------------------------------------------------------------------
(* What every step of a run is shown to do. *)

RowTypes ==
  /\ op \in [Op -> Status] /\ ckpt \in [Delivery -> Checkpoint]
  /\ hist \in [Delivery -> Result \cup {"NONE", "UNKNOWN"}]
  /\ outbox \in [Delivery -> {"NONE", "PENDING", "SENT"}]
DiskTypes ==
  /\ manifest \in [Platform -> SUBSET Delivery] /\ dest \subseteq Delivery /\ archive \subseteq Delivery
  /\ staging \in [Delivery -> {"absent", "partial", "complete", "empty"}]
  /\ archiveTemp \in [Delivery -> {"absent", "partial", "complete"}]
  /\ registered \in [Delivery -> Nat]
LockTypes == lock \in [Platform -> Approval \cup {Nobody, Cleaner}]
OutboxTypes ==
  /\ sending \in Delivery \cup {Nobody} /\ announced \subseteq Delivery
  /\ sending # Nobody => outbox[sending] # "NONE"
CountTypes ==
  /\ writeFailure \in BOOLEAN
  /\ faults \in 0..MaxFaults /\ crashes \in 0..MaxCrash /\ writeFails \in 0..MaxWriteFail

\* The step of the run on task a keeps the invariant.
Keeps(a) ==
  /\ RowTypes' /\ DiskTypes' /\ LockTypes' /\ OutboxTypes' /\ CountTypes'
  /\ run' \in [Approval -> Memories]
  /\ run'[a].op \in OpsOf(a) \cup {Nobody} /\ run'[a].item \in Of(a) \cup {Nobody}
  /\ run'[a].todo \subseteq Of(a) /\ run'[a].ok \subseteq Of(a)
  /\ Apart(a) /\ Task(a)'

(* Then the invariant holds of all tasks. *)
LEMMA KeepsInv ==
  ASSUME Inv, NEW a \in Approval, Keeps(a)
  PROVE  Inv'
<1>1. \A b \in Approval : Task(b)'
  BY OthersKept DEF Inv, Keeps
<1>2. TypeOK'
  BY DEF Inv, TypeOK, Keeps, Apart, RowTypes, DiskTypes, LockTypes, OutboxTypes, CountTypes
<1> QED
  BY <1>1, <1>2 DEF Inv, Keeps, OutboxTypes

(* The types again, in parts. *)
LEMMA Types ==
  ASSUME Inv
  PROVE  /\ TypeOK /\ RowTypes /\ DiskTypes /\ LockTypes /\ OutboxTypes /\ CountTypes
         /\ \A a \in Approval : run[a] \in Memories
BY DEF Inv, TypeOK, RowTypes, DiskTypes, LockTypes, OutboxTypes, CountTypes

(* Faults and writes are counted. *)
LEMMA Counted ==
  /\ CountTypes /\ Fault => faults' \in 0..MaxFaults
  /\ CountTypes /\ Lost => writeFails' \in 0..MaxWriteFail /\ writeFailure' \in BOOLEAN
  /\ CountTypes /\ Committed => writeFails' \in 0..MaxWriteFail /\ writeFailure' \in BOOLEAN
<1>1. MaxFaults \in Nat /\ MaxWriteFail \in Nat
  BY MediaAssumption
<1>2. CountTypes /\ Fault => faults' \in 0..MaxFaults
  BY <1>1 DEF CountTypes, Fault
<1>3. CountTypes /\ Lost => writeFails' \in 0..MaxWriteFail /\ writeFailure' \in BOOLEAN
  BY <1>1 DEF CountTypes, Lost
<1>4. CountTypes /\ Committed => writeFails' \in 0..MaxWriteFail /\ writeFailure' \in BOOLEAN
  BY DEF CountTypes, Committed
<1> QED
  BY <1>2, <1>3, <1>4

(* A step with the delivery in hand keeps the invariant if it keeps what     *)
(* concerns this delivery.                                                   *)
LEMMA DealsKeeps ==
  ASSUME Inv, NEW a \in Approval, Deals(a),
         Sound(It(a))', Knows(a)', Notes(a)',
         run'[a].at \in InHand \cup {"thrown"} \/ (run'[a].at = "note" /\ ~Approving(a)),
         RowTypes', DiskTypes', LockTypes', OutboxTypes', CountTypes'
  PROVE  Keeps(a)
<1>1. Task(a)'
  BY HandStep
<1>2. /\ run[a].op \in OpsOf(a) \cup {Nobody} /\ run[a].item \in Of(a) \cup {Nobody}
      /\ run[a].todo \subseteq Of(a) /\ run[a].ok \subseteq Of(a)
  BY DEF Inv, TypeOK
<1> QED
  BY <1>1, <1>2 DEF Keeps, Deals, Carried

\* A step that changes no row and nothing that is published or staged.
Quiet ==
  /\ UNCHANGED <<store, notice, manifest, dest, registered, staging>> /\ archive \subseteq archive'
  /\ DiskTypes' /\ LockTypes' /\ CountTypes'

(* Such a step has to keep what the run knows. *)
LEMMA QuietKeeps ==
  ASSUME Inv, NEW a \in Approval, Handles(a), Carried(a), Locks(a), Quiet,
         Knows(a)', run'[a].at \in InHand \cup {"thrown"}
  PROVE  Keeps(a)
<1>1. Apart(a) /\ \A d \in Delivery : Untouched(d)
  BY DEF Quiet, Apart, Untouched, Carried, store, notice
<1>2. Deals(a)
  BY <1>1, Belongs DEF Deals, Quiet, store
<1>3. RowTypes' /\ OutboxTypes'
  BY Types DEF Quiet, store, notice, RowTypes, OutboxTypes
<1>4. Sound(It(a))'
  <2>1. It(a)' = It(a) /\ (lock'[Ozon] = Cleaner => lock[Ozon] = Cleaner) /\ archive \subseteq archive'
    BY Belongs DEF It, Carried, Locks, Quiet
  <2> QED
    BY <1>1, <2>1, Hand, SoundKept
<1>5. Notes(a)'
  BY DEF Notes, At, InHand, Building, Guarded
<1> QED
  BY <1>2, <1>3, <1>4, <1>5, DealsKeeps DEF Quiet

---------------------------------------------------------------------------
(* Steps that change no row and nothing that is published or staged.       *)

(* Giving a lock back. *)
LEMMA FreeFacts ==
  ASSUME Inv, NEW a \in Approval, Free(a)
  PROVE  Locks(a) /\ LockTypes'
BY Types DEF Free, Locks, LockTypes

(* An error under the lock. *)
LEMMA RaiseFacts ==
  ASSUME Inv, NEW a \in Approval, NEW err \in Error, Raise(a, err)
  PROVE  Goes(a, "caught", Mem(a), err) /\ Locks(a) /\ LockTypes'
<1>1. "caught" \in Place
  BY DEF Place
<1> QED
  BY <1>1, Types, FreeFacts, FallFacts DEF Raise

(* What is known after an error. *)
LEMMA CaughtKnows ==
  ASSUME NEW a \in Approval, NEW m, NEW err, Goes(a, "caught", m, err),
         err # "none", err = "unknown" => m.phase = "COMMIT_INTENT",
         m.phase # "NONE", ckpt'[It(a)].phase # "COMPLETE", m.phase = "COMPLETE" <=> m.result = "SUCCESS",
         m.phase \in Rebuildable => registered'[It(a)] = 0 /\ ckpt'[It(a)].phase \in Rebuildable,
         m.phase \in Settling => registered'[It(a)] > 0,
         Files(m) => Filed(a)', Pl(a) = Ozon /\ m.phase \in Uncertain => Secure(It(a))'
  PROVE  Knows(a)'
<1>1. It(a)' = It(a) /\ Pl(a)' = Pl(a) /\ Mem(a)' = m /\ run'[a].at = "caught" /\ run'[a].err = err
  BY DEF Goes, Carried, It, Pl, Mem
<1>2. Remembers(a)'
  BY <1>1 DEF Remembers, Building, At
<1>3. Excludes(a)' /\ Proves(a)'
  BY <1>1 DEF Excludes, Proves, Guarded, Building, At
<1> QED
  BY <1>2, <1>3 DEF Knows

(* An error where nothing has been changed. *)
LEMMA RaiseKeeps ==
  ASSUME Inv, NEW a \in Approval, Handles(a), NEW err \in Error \ {"none"}, Raise(a, err), Quiet,
         err = "unknown" => Mem(a).phase = "COMMIT_INTENT"
  PROVE  Keeps(a)
<1>1. Goes(a, "caught", Mem(a), err) /\ Locks(a)
  BY RaiseFacts
<1>2. UNCHANGED <<ckpt, registered, staging, dest>> /\ (Filed(a) => Filed(a)')
  BY DEF Quiet, store, Filed
<1>3. lock'[Ozon] = Cleaner => lock[Ozon] = Cleaner
  BY <1>1, Belongs DEF Locks
<1>4. Knows(a)'
  <2>1. Pl(a) = Ozon /\ Mem(a).phase \in Uncertain => Secure(It(a))'
    <3>1. Pl(a) = Ozon /\ Mem(a).phase \in Uncertain => Secure(It(a))
      BY Hand DEF Proves
    <3>2. It(a)' = It(a)
      BY <1>1 DEF Goes, Carried, It
    <3> QED
      BY <1>2, <1>3, <3>1, <3>2 DEF Secure
  <2> QED
    BY <1>1, <1>2, <2>1, Hand, CaughtKnows DEF Remembers
<1>5. Carried(a) /\ run'[a].at \in InHand
  BY <1>1 DEF Goes, InHand
<1> QED
  BY <1>1, <1>4, <1>5, QuietKeeps

(* Nothing but the memory, the lock and the count of faults changes. *)
LEMMA NothingDone ==
  ASSUME Inv, LockTypes', NothingStored, UNCHANGED <<notice, disk, crashes>>, Fault \/ UNCHANGED faults
  PROVE  Quiet
<1>1. faults' \in 0..MaxFaults
  BY Types, Counted DEF CountTypes
<1> QED
  BY <1>1, Types DEF Quiet, NothingStored, disk, shared, DiskTypes, CountTypes

(* A failing step leaves everything as it was. *)
LEMMA BreakKeeps ==
  ASSUME Inv, NEW a \in Approval, Break(a) \/ RenameFails(a)
  PROVE  Keeps(a)
<1>1. PICK err \in Error : err \in RawErrors \cup {"unknown"} /\ Raise(a, err)
  BY DEF Break, RenameFails, RaiseRaw, RawErrors, Error
<1>2. Handles(a) /\ NothingStored /\ UNCHANGED <<notice, disk, crashes>> /\ (Fault \/ UNCHANGED faults)
  BY DEF Break, RenameFails, At, Handles, InHand, Guarded
<1>3. Quiet
  BY <1>1, <1>2, RaiseFacts, NothingDone
<1>4. CASE err \in RawErrors
  BY <1>1, <1>2, <1>3, <1>4, RaiseKeeps DEF RawErrors
<1>5. CASE err = "unknown"
  <2>1. run'[a].err = "unknown"
    BY <1>1, <1>5, RaiseFacts DEF Goes
  <2>2. RenameFails(a)
    <3>1. \A e \in Error : Raise(a, e) => run'[a].err = e
      BY RaiseFacts DEF Goes
    <3> QED
      BY <2>1, <3>1 DEF Break, RaiseRaw, RawErrors, Error
  <2>3. Mem(a).phase = "COMMIT_INTENT"
    BY <1>2, <2>2, Hand DEF RenameFails, Remembers, At
  <2> QED
    BY <1>1, <1>2, <1>3, <1>5, <2>3, RaiseKeeps
<1> QED
  BY <1>1, <1>4, <1>5

(* So does a failing build, but for what it has copied for the archive. *)
LEMMA BuildFailsKeeps ==
  ASSUME Inv, NEW a \in Approval, BuildFails(a)
  PROVE  Keeps(a)
<1>1. PICK err \in RawErrors : Raise(a, err)
  BY DEF BuildFails, RaiseRaw
<1>2. Handles(a) /\ err \in Error \ {"none"} /\ err # "unknown"
  BY DEF BuildFails, At, Handles, InHand, Building, RawErrors, Error
<1>3. Quiet
  <2>1. LockTypes'
    BY <1>1, <1>2, RaiseFacts
  <2>2. faults' \in 0..MaxFaults
    BY Types, Counted DEF BuildFails, CountTypes
  <2>3. archiveTemp' \in [Delivery -> {"absent", "partial", "complete"}]
    BY Types DEF BuildFails, DiskTypes
  <2> QED
    BY <2>1, <2>2, <2>3, Types DEF BuildFails, Quiet, NothingStored, shared, DiskTypes, CountTypes
<1> QED
  BY <1>1, <1>2, <1>3, RaiseKeeps

(* Taking the lock. *)
LEMMA LockKeeps ==
  ASSUME Inv, NEW a \in Approval, Lock(a)
  PROVE  Keeps(a)
<1> DEFINE place == IF Mem(a).phase \in Rebuildable /\ ~run[a].fresh THEN "clear" ELSE "inspect"
<1>1. Handles(a) /\ place \in Place /\ At(a, "lock")
  BY DEF Lock, LockFree, At, Handles, InHand, Place
<1>2. Goes(a, place, Mem(a), run[a].err)
  BY <1>1, Types, GotoFacts DEF Lock
<1>3. Pl(a) \in Platform /\ lock[Pl(a)] = Nobody /\ lock' = [lock EXCEPT ![Pl(a)] = a]
  BY <1>1, Hand DEF Lock, LockFree
<1>4. LockTypes' /\ Locks(a) /\ lock'[Pl(a)] = a
  BY <1>3, Types DEF LockTypes, Locks
<1>5. Quiet
  BY <1>4, NothingDone DEF Lock
<1>6. Knows(a)'
  <2>1. /\ It(a)' = It(a) /\ Pl(a)' = Pl(a) /\ Mem(a)' = Mem(a) /\ run'[a].at = place
        /\ run'[a].err = run[a].err
    BY <1>2 DEF Goes, Carried, It, Pl, Mem
  <2>2. UNCHANGED <<ckpt, registered, staging, dest>> /\ (Filed(a) => Filed(a)')
    BY <1>5 DEF Quiet, store, Filed
  <2>3. Remembers(a)'
    BY <1>1, <2>1, <2>2, Hand DEF Remembers, Building, At
  <2>4. Excludes(a)'
    BY <1>4, <2>1 DEF Excludes, Guarded, At
  <2>5. Proves(a)'
    <3> SUFFICES ASSUME Pl(a) = Ozon
                 PROVE  /\ lock'[Ozon] = a
                        /\ place = "inspect" => Mem(a).phase \notin Rebuildable
                        /\ Mem(a).phase \in Uncertain => Secure(It(a))'
      BY <2>1 DEF Proves, At
    <3>1. ~run[a].fresh
      BY <1>1, Hand DEF Proves
    <3>2. Mem(a).phase \in Uncertain => Secure(It(a))'
      BY <1>1, <1>4, <2>1, <2>2, Hand, Belongs DEF Proves, Secure
    <3> QED
      BY <1>4, <3>1, <3>2
  <2> QED
    BY <2>3, <2>4, <2>5 DEF Knows
<1>7. Carried(a) /\ run'[a].at \in InHand
  BY <1>2 DEF Goes, InHand, Building, Guarded
<1> QED
  BY <1>1, <1>4, <1>5, <1>6, <1>7, QuietKeeps

(* Looking into the manifest. *)
LEMMA InspectKeeps ==
  ASSUME Inv, NEW a \in Approval, Inspect(a)
  PROVE  Keeps(a)
<1>1. Handles(a) /\ At(a, "inspect")
  BY DEF Inspect, At, Handles, InHand, Guarded
<1>2. CASE Mem(a).phase = "TARGET_COMMITTED" \/ Registered(a)
  <2> DEFINE m == [Mem(a) EXCEPT !.phase = "TARGET_COMMITTED"]
  <2>1. Goes(a, "archive", m, run[a].err) /\ Free(a)
    BY <1>2, Types, PhaseFacts DEF Inspect, Phase, Place
  <2>2. Locks(a) /\ Quiet
    BY <2>1, FreeFacts, NothingDone DEF Inspect
  <2>3. m.phase = "TARGET_COMMITTED" /\ m.result = Mem(a).result /\ m.arch = Mem(a).arch
        /\ m.filed = Mem(a).filed
    BY <1>1, Hand DEF Checkpoint
  <2>4. Mem(a).phase # "COMPLETE" /\ Mem(a).result # "SUCCESS" /\ run[a].err = "none" /\ registered[It(a)] > 0
    BY <1>1, <1>2, Hand DEF Remembers, Settling, At, Registered, Sound, Placed
  <2>5. Knows(a)'
    <3> HIDE DEF m
    <3>1. It(a)' = It(a) /\ Mem(a)' = m /\ run'[a].at = "archive" /\ run'[a].err = run[a].err
      BY <2>1 DEF Goes, Carried, It, Mem
    <3>2. UNCHANGED <<ckpt, registered>> /\ (Filed(a) => Filed(a)')
      BY <2>2 DEF Quiet, store, Filed
    <3>3. Remembers(a)'
      BY <1>1, <2>3, <2>4, <3>1, <3>2, Hand DEF Remembers, Building, At, Files, Rebuildable
    <3>4. Excludes(a)' /\ Proves(a)'
      BY <2>3, <3>1 DEF Excludes, Proves, Guarded, Building, At, Uncertain
    <3> QED
      BY <3>3, <3>4 DEF Knows
  <2>6. Carried(a) /\ run'[a].at \in InHand
    BY <2>1 DEF Goes, InHand
  <2> QED
    BY <1>1, <2>2, <2>5, <2>6, QuietKeeps
<1>3. CASE ~(Mem(a).phase = "TARGET_COMMITTED" \/ Registered(a))
  <2>1. Goes(a, "intend", Mem(a), run[a].err) /\ lock' = lock
    BY <1>3, Types, GotoFacts DEF Inspect, Place
  <2>2. Locks(a) /\ Quiet
    BY <2>1, Types, NothingDone DEF Inspect, Locks, LockTypes
  <2>3. Knows(a)'
    <3>1. It(a)' = It(a) /\ Pl(a)' = Pl(a) /\ Mem(a)' = Mem(a) /\ run'[a].at = "intend"
          /\ run'[a].err = run[a].err
      BY <2>1 DEF Goes, Carried, It, Mem, Pl
    <3>2. UNCHANGED <<ckpt, registered, staging, dest, manifest>> /\ (Filed(a) => Filed(a)')
      BY <2>2 DEF Quiet, store, Filed
    <3>3. Remembers(a)'
      BY <1>1, <1>3, <3>1, <3>2, Hand DEF Remembers, Building, At, Settling
    <3>4. Excludes(a)'
      BY <1>1, <1>3, <2>1, <3>1, <3>2, Hand DEF Excludes, Guarded, At, Registered
    <3>5. Proves(a)'
      BY ZenonT(60), <1>1, <2>1, <3>1, <3>2, Hand DEF Proves, Secure, At, Building
    <3> QED
      BY <3>3, <3>4, <3>5 DEF Knows
  <2>4. Carried(a) /\ run'[a].at \in InHand
    BY <2>1 DEF Goes, InHand, Guarded
  <2> QED
    BY <1>1, <2>2, <2>3, <2>4, QuietKeeps
<1> QED
  BY <1>2, <1>3

(* Reading the manifest. *)
LEMMA ReadKeeps ==
  ASSUME Inv, NEW a \in Approval, Read(a)
  PROVE  Keeps(a)
<1> DEFINE r == [[run[a] EXCEPT !.base = manifest[Pl(a)]] EXCEPT !.at = "write"]
<1>1. Handles(a) /\ At(a, "read")
  BY DEF Read, At, Handles, InHand, Guarded
<1>2. run[a] \in Memories /\ r \in Memories
  <2>1. manifest[Pl(a)] \in SUBSET Delivery /\ "write" \in Place
    BY <1>1, Types, Hand DEF DiskTypes, Place
  <2> QED
    BY <2>1, Types, MemoryFields
<1>3. run' \in [Approval -> Memories] /\ run'[a] = r /\ \A b \in Approval \ {a} : run'[b] = run[b]
  <2>1. run' = [run EXCEPT ![a] = r]
    BY Types DEF Read, TypeOK
  <2> QED
    BY <1>2, <2>1, Types DEF TypeOK
<1>4. Goes(a, "write", Mem(a), run[a].err) /\ run'[a].base = manifest[Pl(a)]
  BY <1>2, <1>3 DEF Goes, Carried, Mem, Memories
<1>5. Locks(a) /\ Quiet /\ lock' = lock
  BY Types, NothingDone DEF Read, Locks, LockTypes
<1>6. Knows(a)'
  <2>1. It(a)' = It(a) /\ Pl(a)' = Pl(a) /\ Mem(a)' = Mem(a) /\ run'[a].at = "write"
        /\ run'[a].err = run[a].err
    BY <1>4 DEF Goes, Carried, It, Mem, Pl
  <2>2. UNCHANGED <<ckpt, registered, staging, dest, manifest>> /\ (Filed(a) => Filed(a)')
    BY <1>5 DEF Quiet, store, Filed
  <2>3. Remembers(a)'
    BY <1>1, <2>1, <2>2, Hand DEF Remembers, Building, At
  <2>4. Excludes(a)'
    BY <1>1, <1>4, <1>5, <2>1, <2>2, Hand DEF Excludes, Guarded, At
  <2>5. Proves(a)'
    BY <1>1, <1>5, <2>1, <2>2, Hand DEF Proves, Secure, At, Building
  <2> QED
    BY <2>3, <2>4, <2>5 DEF Knows
<1>7. Carried(a) /\ run'[a].at \in InHand
  BY <1>4 DEF Goes, InHand, Guarded
<1> QED
  BY <1>1, <1>5, <1>6, <1>7, QuietKeeps

---------------------------------------------------------------------------
(* The archive. *)

(* The delivery is concluded in memory. *)
LEMMA ConclusionFacts ==
  ASSUME Inv, NEW a \in Approval, Handles(a), NEW result \in Result, NEW filed \in BOOLEAN,
         Conclusion(a, result, filed)
  PROVE  \E m \in Checkpoint :
           /\ Goes(a, "save", m, run[a].err)
           /\ m.result = result /\ m.arch = Mem(a).arch /\ m.filed = (Mem(a).filed \/ filed)
           /\ m.phase = IF result = "SUCCESS" THEN "COMPLETE" ELSE Mem(a).phase
<1> DEFINE c1 == [Mem(a) EXCEPT !.result = result]
           c2 == [c1 EXCEPT !.filed = Mem(a).filed \/ filed]
           m  == [c2 EXCEPT !.phase = IF result = "SUCCESS" THEN "COMPLETE" ELSE Mem(a).phase]
           r0 == [run[a] EXCEPT !.at = "save"]
           Put(r) == [run EXCEPT ![a] = r]
<1>1. Mem(a) \in Checkpoint /\ run[a] \in Memories /\ DOMAIN run = Approval
  BY Types, Hand DEF TypeOK
<1>2. c1 \in Checkpoint /\ c2 \in Checkpoint /\ m \in Checkpoint
  <2>1. c1 \in Checkpoint /\ Mem(a).filed \in BOOLEAN /\ Mem(a).phase \in Phase
    BY <1>1, CheckpointFields
  <2>2. c2 \in Checkpoint
    <3> HIDE DEF c1
    <3> QED
      BY <2>1, CheckpointFields
  <2>3. m \in Checkpoint
    <3> HIDE DEF c2
    <3>1. (IF result = "SUCCESS" THEN "COMPLETE" ELSE Mem(a).phase) \in Phase
      BY <2>1 DEF Phase
    <3> QED
      BY <2>2, <3>1, CheckpointFields
  <2> QED
    BY <2>1, <2>2, <2>3
<1>3. /\ m.result = result /\ m.arch = Mem(a).arch /\ m.filed = (Mem(a).filed \/ filed)
      /\ m.phase = IF result = "SUCCESS" THEN "COMPLETE" ELSE Mem(a).phase
  BY <1>1 DEF Checkpoint
<1>4. run' = Put([[run[a] EXCEPT !.mem = m] EXCEPT !.at = "save"])
  <2> DEFINE r1 == [r0 EXCEPT !.mem = c1]
             r2 == [r1 EXCEPT !.mem = c2]
             r3 == [r2 EXCEPT !.mem = m]
  <2>0. r0.mem = Mem(a) /\ r1.mem = c1 /\ r2.mem = c2
    <3> HIDE DEF c1, c2
    <3> QED
      BY <1>1 DEF Memories, Mem
  <2>1. [run EXCEPT ![a].at = "save"] = Put(r0)
    OBVIOUS
  <2>2. [Put(r0) EXCEPT ![a].mem.result = result] = Put(r1)
    <3>1. Put(r0)[a] = r0
      BY <1>1, Twice
    <3>2. [Put(r0) EXCEPT ![a].mem.result = result] = [Put(r0) EXCEPT ![a] = r1]
      BY <2>0, <3>1
    <3> QED
      BY ZenonT(60), <1>1, <3>2, Twice
  <2> DEFINE Marked(f) == [f EXCEPT ![a].mem.filed = run[a].mem.filed \/ filed]
             Phased(f) == [f EXCEPT ![a].mem.phase = IF result = "SUCCESS" THEN "COMPLETE"
                                                     ELSE run[a].mem.phase]
  <2>3. Marked(Put(r1)) = Put(r2)
    <3> HIDE DEF r1
    <3>1. Put(r1)[a] = r1
      BY <1>1, Twice
    <3>2. Marked(Put(r1)) = [Put(r1) EXCEPT ![a] = r2]
      BY <2>0, <3>1 DEF Mem
    <3> QED
      BY <1>1, <3>2, Twice
  <2>4. Phased(Put(r2)) = Put(r3)
    <3> HIDE DEF r2
    <3>1. Put(r2)[a] = r2
      BY <1>1, Twice
    <3>2. Phased(Put(r2)) = [Put(r2) EXCEPT ![a] = r3]
      BY <2>0, <3>1 DEF Mem
    <3> QED
      BY <1>1, <3>2, Twice
  <2>5. r3 = [[run[a] EXCEPT !.mem = m] EXCEPT !.at = "save"]
    <3> HIDE DEF m, c1, c2
    <3> QED
      BY <1>1 DEF Memories
  <2>6. run' = Phased(Marked([Put(r0) EXCEPT ![a].mem.result = result]))
    <3>1. run' = Phased(Marked([[run EXCEPT ![a].at = "save"] EXCEPT ![a].mem.result = result]))
      BY DEF Conclusion
    <3> QED
      BY <2>1, <3>1
  <2> HIDE DEF Put, r0, r1, r2, r3, m, Phased, Marked
  <2> QED
    BY <2>2, <2>3, <2>4, <2>5, <2>6
<1>5. Goes(a, "save", m, run[a].err)
  <2> HIDE DEF m
  <2> QED
    BY <1>2, <1>4, Types, MemFacts DEF Place
<1> QED
  BY <1>2, <1>3, <1>5

(* Concluding keeps the invariant if what is said to be archived is.         *)
LEMMA ConclusionKeeps ==
  ASSUME Inv, NEW a \in Approval, At(a, "archive"), Quiet, Locks(a),
         NEW result \in Public, NEW filed \in BOOLEAN, Conclusion(a, result, filed),
         filed \/ result = "SUCCESS" => Filed(a)'
  PROVE  Keeps(a)
<1>1. Handles(a) /\ result \in Result
  BY DEF At, Handles, InHand, Public, Result
<1>2. PICK m \in Checkpoint :
        /\ Goes(a, "save", m, run[a].err)
        /\ m.result = result /\ m.arch = Mem(a).arch /\ m.filed = (Mem(a).filed \/ filed)
        /\ m.phase = IF result = "SUCCESS" THEN "COMPLETE" ELSE Mem(a).phase
  BY <1>1, ConclusionFacts
<1>3. It(a)' = It(a) /\ Mem(a)' = m /\ run'[a].at = "save" /\ run'[a].err = run[a].err
  BY <1>2 DEF Goes, Carried, It, Mem
<1>4. Mem(a).phase = "TARGET_COMMITTED" /\ registered[It(a)] > 0 /\ run[a].err = "none"
      /\ ckpt[It(a)].phase # "COMPLETE"
  BY <1>1, Hand DEF Remembers, Settling, At
<1>5. UNCHANGED <<ckpt, registered>> /\ (Filed(a) => Filed(a)')
  BY DEF Quiet, store, Filed
<1>6. Files(m) => Filed(a)'
  BY <1>1, <1>2, <1>4, <1>5, Hand DEF Remembers, Files
<1>7. Remembers(a)'
  BY <1>2, <1>3, <1>4, <1>5, <1>6 DEF Remembers, Building, At, Rebuildable, Settling
<1>8. Excludes(a)' /\ Proves(a)'
  BY <1>2, <1>3, <1>4 DEF Excludes, Proves, Guarded, Building, At, Uncertain
<1>9. Carried(a) /\ run'[a].at \in InHand /\ Knows(a)'
  BY <1>2, <1>3, <1>7, <1>8 DEF Goes, InHand, Knows
<1> QED
  BY <1>1, <1>9, QuietKeeps

(* The archive, and its failure. *)
LEMMA ArchiveKeeps ==
  ASSUME Inv, NEW a \in Approval, Archive(a) \/ ArchiveFails(a)
  PROVE  Keeps(a)
<1>1. At(a, "archive") /\ Handles(a)
  BY DEF Archive, ArchiveFails, At, Handles, InHand
<1>2. CASE ArchiveFails(a)
  <2>1. lock' = lock
    BY <1>2 DEF ArchiveFails
  <2>2. Locks(a) /\ LockTypes'
    BY <2>1, Types DEF Locks, LockTypes
  <2>3. Quiet
    BY <1>2, <2>2, NothingDone DEF ArchiveFails
  <2>4. Conclusion(a, "PARTIAL_SUCCESS", FALSE)
    BY <1>2 DEF ArchiveFails
  <2> QED
    BY <1>1, <2>2, <2>3, <2>4, ConclusionKeeps DEF Public
<1>3. CASE Archive(a)
  <2>1. It(a) \in Of(a) /\ It(a) \in Delivery /\ Mem(a).arch \in BOOLEAN
    BY <1>1, Hand, CheckpointFields
  <2>2. /\ archive' \subseteq Delivery /\ archive \subseteq archive'
        /\ archiveTemp' \in [Delivery -> {"absent", "partial", "complete"}]
        /\ Mem(a).arch => It(a) \in archive'
    BY <1>3, <2>1, Types DEF Archive, DiskTypes
  <2>3. Locks(a) /\ Quiet
    BY <1>3, <2>2, Types DEF Archive, Quiet, NothingStored, Locks, LockTypes, shared, DiskTypes, CountTypes
  <2>4. Filed(a)'
    <3>1. CASE Mem(a).arch
      BY <2>1, <2>2, <3>1 DEF Filed
    <3>2. CASE ~Mem(a).arch
      <4>1. Filed(a)
        BY <1>1, <3>2, Hand DEF Remembers, Files
      <4> QED
        BY <2>2, <4>1 DEF Filed
    <3> QED
      BY <3>1, <3>2
  <2>5. Conclusion(a, "SUCCESS", Mem(a).arch)
    BY <1>3 DEF Archive
  <2> QED
    BY <1>1, <2>1, <2>3, <2>4, <2>5, ConclusionKeeps DEF Public
<1> QED
  BY <1>2, <1>3

---------------------------------------------------------------------------
(* Staging. *)

(* What concerns the delivery in hand may change.                            *)
LEMMA DealsFacts ==
  ASSUME NEW a \in Approval, Handles(a), Carried(a), Locks(a), archive \subseteq archive',
         UNCHANGED op, \A d \in Delivery \ {It(a)} : Untouched(d),
         It(a) \in Of(a), \A p \in Platform : manifest'[p] = manifest[p] \/ lock[p] = a
  PROVE  Deals(a)
BY Belongs DEF Deals, Apart, Carried

(* Staging is cleared before a rebuild. *)
LEMMA ClearKeeps ==
  ASSUME Inv, NEW a \in Approval, Clear(a)
  PROVE  Keeps(a)
<1>1. Handles(a) /\ At(a, "clear")
  BY DEF Clear, At, Handles, InHand, Building
<1>2. Goes(a, "build", Mem(a), run[a].err)
  BY Types, GotoFacts DEF Clear, Place
<1>3. /\ It(a) \in Delivery /\ It(a) \in Of(a) /\ registered[It(a)] = 0 /\ Mem(a).phase \in Rebuildable
      /\ ckpt[It(a)].phase \in Rebuildable /\ Sound(It(a)) /\ Remembers(a) /\ Proves(a)
  BY <1>1, Hand DEF Remembers, Building, At
<1>4. /\ UNCHANGED <<store, lock, notice, shared, archiveTemp, archive, faults, crashes,
                     writeFailure, writeFails>>
      /\ staging' = [staging EXCEPT ![It(a)] = "partial"]
  BY DEF Clear, NothingStored
<1>5. RowTypes' /\ DiskTypes' /\ LockTypes' /\ OutboxTypes' /\ CountTypes'
  BY <1>3, <1>4, Types DEF RowTypes, DiskTypes, LockTypes, OutboxTypes, CountTypes, store, notice, shared
<1>6. Deals(a)
  <2>1. \A d \in Delivery \ {It(a)} : Untouched(d)
    BY <1>4, Types DEF Untouched, store, shared, DiskTypes
  <2>2. Carried(a) /\ Locks(a) /\ archive \subseteq archive' /\ UNCHANGED <<op, manifest>>
    BY <1>2, <1>4 DEF Goes, Locks, store, shared
  <2> QED
    BY <1>1, <1>3, <2>1, <2>2, DealsFacts
<1>7. Sound(It(a))'
  <2>1. It(a)' = It(a)
    BY <1>2 DEF Goes, Carried, It
  <2>2. ckpt[It(a)].phase \notin Uncertain
    BY <1>3 DEF Remembers, Rebuildable, Uncertain
  <2>3. Records(It(a))'
    BY <1>3, <1>4, <2>1 DEF Sound, Records, Files, Filed, store, shared
  <2>4. Placed(It(a))' /\ Proven(It(a))'
    BY <1>3, <1>4, <2>1, <2>2 DEF Sound, Placed, Proven, store, shared
  <2> QED
    BY <2>3, <2>4 DEF Sound
<1>8. Knows(a)'
  <2>1. /\ It(a)' = It(a) /\ Pl(a)' = Pl(a) /\ Mem(a)' = Mem(a) /\ run'[a].at = "build"
        /\ run'[a].err = run[a].err
    BY <1>2 DEF Goes, Carried, It, Pl, Mem
  <2>2. Remembers(a)'
    BY <1>1, <1>3, <1>4, <2>1 DEF Remembers, Building, At, Filed, store, shared
  <2>3. Excludes(a)'
    BY <2>1 DEF Excludes, Guarded, At
  <2>4. Proves(a)'
    BY <1>1, <1>3, <1>4, <2>1 DEF Proves, At, Building, Rebuildable, Uncertain
  <2> QED
    BY <2>2, <2>3, <2>4 DEF Knows
<1>9. Notes(a)' /\ run'[a].at \in InHand
  BY <1>2 DEF Goes, Notes, At, InHand, Building
<1> QED
  BY <1>5, <1>6, <1>7, <1>8, <1>9, DealsKeeps

(* The media are staged and verified. *)
LEMMA BuildKeeps ==
  ASSUME Inv, NEW a \in Approval, Build(a)
  PROVE  Keeps(a)
<1> DEFINE r == [[run[a] EXCEPT !.at = "verified"] EXCEPT !.fresh = TRUE]
<1>1. Handles(a) /\ At(a, "build")
  BY DEF Build, At, Handles, InHand, Building
<1>2. run[a] \in Memories /\ r \in Memories
  BY Types, MemoryFields DEF Place
<1>3. run' \in [Approval -> Memories] /\ run'[a] = r /\ \A b \in Approval \ {a} : run'[b] = run[b]
  <2>1. run' = [run EXCEPT ![a] = r]
    BY Types DEF Build, TypeOK
  <2> QED
    BY <1>2, <2>1, Types DEF TypeOK
<1>4. Goes(a, "verified", Mem(a), run[a].err)
  BY <1>2, <1>3 DEF Goes, Carried, Mem, Memories
<1>5. /\ It(a) \in Delivery /\ It(a) \in Of(a) /\ registered[It(a)] = 0 /\ Mem(a).phase \in Rebuildable
      /\ ckpt[It(a)].phase \in Rebuildable /\ Sound(It(a)) /\ Remembers(a) /\ Proves(a)
  BY <1>1, Hand DEF Remembers, Building, At
<1>6. /\ UNCHANGED <<store, lock, notice, shared, archive, faults, crashes, writeFailure, writeFails>>
      /\ staging' = [staging EXCEPT ![It(a)] = "complete"]
      /\ archiveTemp' \in [Delivery -> {"absent", "partial", "complete"}]
  BY Types DEF Build, NothingStored, DiskTypes
<1>7. RowTypes' /\ DiskTypes' /\ LockTypes' /\ OutboxTypes' /\ CountTypes'
  BY <1>5, <1>6, Types DEF RowTypes, DiskTypes, LockTypes, OutboxTypes, CountTypes, store, notice, shared
<1>8. Deals(a)
  <2>1. \A d \in Delivery \ {It(a)} : Untouched(d)
    BY <1>6, Types DEF Untouched, store, shared, DiskTypes
  <2>2. Carried(a) /\ Locks(a) /\ archive \subseteq archive' /\ UNCHANGED <<op, manifest>>
    BY <1>4, <1>6 DEF Goes, Locks, store, shared
  <2> QED
    BY <1>1, <1>5, <2>1, <2>2, DealsFacts
<1>9. Sound(It(a))'
  <2>1. It(a)' = It(a)
    BY <1>4 DEF Goes, Carried, It
  <2>2. ckpt[It(a)].phase \notin Uncertain
    BY <1>5 DEF Rebuildable, Uncertain
  <2>3. Records(It(a))'
    BY <1>5, <1>6, <2>1 DEF Sound, Records, Files, Filed, store, shared
  <2>4. Placed(It(a))' /\ Proven(It(a))'
    BY <1>5, <1>6, <2>1, <2>2 DEF Sound, Placed, Proven, store, shared
  <2> QED
    BY <2>3, <2>4 DEF Sound
<1>10. Knows(a)'
  <2>1. /\ It(a)' = It(a) /\ Pl(a)' = Pl(a) /\ Mem(a)' = Mem(a) /\ run'[a].at = "verified"
        /\ run'[a].err = run[a].err
    BY <1>4 DEF Goes, Carried, It, Pl, Mem
  <2>2. Remembers(a)'
    BY <1>1, <1>5, <1>6, <2>1 DEF Remembers, Building, At, Filed, store, shared
  <2>3. Excludes(a)'
    BY <2>1 DEF Excludes, Guarded, At
  <2>4. Proves(a)'
    <3>1. staging'[It(a)] = "complete"
      BY <1>5, <1>6, Types DEF DiskTypes
    <3> QED
      BY <1>1, <1>5, <1>6, <2>1, <3>1 DEF Proves, At, Building, Rebuildable, Uncertain
  <2> QED
    BY <2>2, <2>3, <2>4 DEF Knows
<1>11. Notes(a)' /\ run'[a].at \in InHand
  BY <1>4 DEF Goes, Notes, At, InHand, Building
<1> QED
  BY <1>7, <1>8, <1>9, <1>10, <1>11, DealsKeeps

---------------------------------------------------------------------------
(* Saving the checkpoint. *)

(* The checkpoint is saved, or the save is lost and the run fails. *)
LEMMA CheckpointKeeps ==
  ASSUME Inv, NEW a \in Approval, Handles(a), ~At(a, "caught"),
         NEW phase \in {"VERIFIED", "COMMIT_INTENT"}, NEW place \in {"lock", "inspect", "rename"},
         SaveCheckpoint(a, phase, place), Mem(a).phase # "COMPLETE",
         phase = "VERIFIED" => registered[It(a)] = 0 /\ ckpt[It(a)].phase \in Rebuildable /\ place # "rename",
         Pl(a) = Ozon /\ phase = "VERIFIED" => staging[It(a)] = "complete" /\ place # "lock",
         place = "lock" => phase = "VERIFIED",
         Pl(a) = Ozon /\ phase = "COMMIT_INTENT" => Secure(It(a)),
         place # "lock" => lock[Pl(a)] = a,
         place = "rename" => It(a) \notin manifest[Pl(a)] /\ phase = "COMMIT_INTENT"
  PROVE  Keeps(a)
<1> DEFINE c == [Mem(a) EXCEPT !.phase = phase]
<1>1. /\ phase \in Phase /\ place \in Place /\ It(a) \in Delivery /\ It(a) \in Of(a)
      /\ Sound(It(a)) /\ Remembers(a) /\ Mem(a) \in Checkpoint /\ ApprovalOf[It(a)] = a
      /\ run[a].err = "none" /\ registered[It(a)] \in Nat
  BY Hand DEF Phase, Rebuildable, Uncertain, Place, Remembers
<1>2. /\ c \in Checkpoint /\ c.phase = phase /\ c.result = Mem(a).result /\ c.result # "SUCCESS"
      /\ Files(c) => Filed(a)
  <2>1. c \in Checkpoint
    BY <1>1, CheckpointFields
  <2>2. c.phase = phase /\ c.result = Mem(a).result /\ c.arch = Mem(a).arch /\ c.filed = Mem(a).filed
    BY <1>1 DEF Checkpoint
  <2> QED
    BY <1>1, <2>1, <2>2 DEF Remembers, Files
<1> HIDE DEF c
<1>3. UNCHANGED <<op, hist, outbox, notice, disk, faults, crashes>>
  BY DEF SaveCheckpoint
<1>4. CASE /\ ckpt' = [ckpt EXCEPT ![It(a)] = c] /\ Committed /\ UNCHANGED lock
           /\ run' = [run EXCEPT ![a].mem.phase = phase, ![a].at = place]
  <2>1. Goes(a, place, c, "none") /\ run'[a].fresh = run[a].fresh
    BY ZenonT(60), <1>1, <1>4, Types, PhaseFacts DEF c
  <2>2. ckpt'[It(a)] = c /\ \A d \in Delivery \ {It(a)} : ckpt'[d] = ckpt[d]
    BY <1>1, <1>4, Types DEF RowTypes
  <2>3. RowTypes' /\ DiskTypes' /\ LockTypes' /\ OutboxTypes' /\ CountTypes'
    <3>1. RowTypes' /\ DiskTypes' /\ LockTypes' /\ OutboxTypes'
      BY <1>2, <1>3, <1>4, Types DEF RowTypes, DiskTypes, LockTypes, OutboxTypes, notice, disk, shared
    <3> QED
      BY <1>3, <1>4, <3>1, Types, Counted DEF CountTypes
  <2>4. Deals(a)
    <3>1. \A d \in Delivery \ {It(a)} : Untouched(d)
      BY <1>3, <2>2 DEF Untouched, disk, shared
    <3>2. Carried(a) /\ Locks(a) /\ archive \subseteq archive' /\ UNCHANGED <<op, manifest>>
      BY <1>3, <1>4, <2>1 DEF Goes, Locks, disk, shared
    <3> QED
      BY <1>1, <3>1, <3>2, DealsFacts
  <2>5. It(a)' = It(a) /\ Pl(a)' = Pl(a) /\ Mem(a)' = c /\ run'[a].at = place /\ run'[a].err = "none"
    BY <2>1 DEF Goes, Carried, It, Pl, Mem
  <2>6. Filed(a)' = Filed(a) /\ UNCHANGED <<registered, staging, dest, manifest, lock, hist, outbox>>
    BY <1>3, <1>4 DEF Filed, disk, shared
  <2>7. Sound(It(a))'
    <3>1. Records(It(a))'
      BY <1>1, <1>2, <2>2, <2>5, <2>6 DEF Sound, Records, Rebuildable, Settling, Remembers, Filed
    <3>2. Placed(It(a))'
      BY <1>1, <1>2, <2>2, <2>5, <2>6 DEF Sound, Placed, Rebuildable
    <3>3. Proven(It(a))'
      BY <1>1, <1>2, <2>2, <2>5, <2>6, Hand DEF Proven, Secure, Uncertain
    <3> QED
      BY <3>1, <3>2, <3>3 DEF Sound
  <2>8. Knows(a)'
    <3>1. Remembers(a)'
      BY <1>1, <1>2, <2>2, <2>5, <2>6 DEF Remembers, Building, At, Rebuildable, Settling
    <3>2. Excludes(a)'
      BY <2>5, <2>6 DEF Excludes, Guarded, At
    <3>3. Proves(a)'
      BY <1>2, <2>1, <2>5, <2>6 DEF Proves, At, Building, Rebuildable, Uncertain, Secure
    <3> QED
      BY <3>1, <3>2, <3>3 DEF Knows
  <2>9. Notes(a)' /\ run'[a].at \in InHand
    BY <2>1 DEF Goes, Notes, At, InHand, Guarded
  <2> QED
    BY <2>3, <2>4, <2>7, <2>8, <2>9, DealsKeeps
<1>5. CASE /\ \E err \in RawErrors :
                run' = [run EXCEPT ![a].mem.phase = phase, ![a].at = "caught", ![a].err = err]
           /\ Free(a) /\ Lost /\ UNCHANGED ckpt
  <2>1. PICK err \in RawErrors :
          run' = [run EXCEPT ![a].mem.phase = phase, ![a].at = "caught", ![a].err = err]
    BY <1>5
  <2>2. err \in Error \ {"none", "unknown"}
    BY DEF RawErrors, Error
  <2>3. Goes(a, "caught", c, err)
    BY <1>1, <2>1, <2>2, Types, LostFacts DEF c, Place
  <2>4. RowTypes' /\ DiskTypes' /\ LockTypes' /\ OutboxTypes' /\ CountTypes' /\ Locks(a)
    <3>1. LockTypes' /\ Locks(a)
      BY <1>5, FreeFacts
    <3>2. RowTypes' /\ DiskTypes' /\ OutboxTypes'
      BY <1>3, <1>5, Types DEF RowTypes, DiskTypes, OutboxTypes, notice, disk, shared
    <3> QED
      BY <1>3, <1>5, <3>1, <3>2, Types, Counted DEF CountTypes
  <2>5. Quiet
    BY <1>3, <1>5, <2>4 DEF Quiet, store, disk, shared
  <2>6. It(a)' = It(a) /\ Filed(a)' = Filed(a) /\ UNCHANGED <<ckpt, registered, staging, dest>>
    BY <1>3, <1>5, <2>3 DEF Goes, Carried, It, Filed, disk, shared
  <2>7. lock'[Ozon] = Cleaner => lock[Ozon] = Cleaner
    BY <2>4, Belongs DEF Locks
  <2>8. Knows(a)'
    <3>1. Pl(a) = Ozon /\ c.phase \in Uncertain => Secure(It(a))'
      BY <1>2, <2>6, <2>7 DEF Secure, Uncertain
    <3> QED
      BY <1>1, <1>2, <2>2, <2>3, <2>6, <3>1, CaughtKnows DEF Remembers, Rebuildable, Settling
  <2>9. Carried(a) /\ run'[a].at \in InHand
    BY <2>3 DEF Goes, InHand
  <2> QED
    BY <2>4, <2>5, <2>8, <2>9, QuietKeeps
<1> QED
  BY <1>4, <1>5 DEF SaveCheckpoint, c

(* The staged media are verified. *)
LEMMA VerifyKeeps ==
  ASSUME Inv, NEW a \in Approval, Verify(a)
  PROVE  Keeps(a)
<1> DEFINE place == IF lock[Pl(a)] = a THEN "inspect" ELSE "lock"
<1>1. At(a, "verified") /\ Handles(a) /\ ~At(a, "caught") /\ SaveCheckpoint(a, "VERIFIED", place)
  BY DEF Verify, At, Handles, InHand, Building
<1>2. Mem(a).phase \in Rebuildable /\ registered[It(a)] = 0 /\ ckpt[It(a)].phase \in Rebuildable
  BY <1>1, Hand DEF Remembers, Building, At
<1>3. Mem(a).phase # "COMPLETE"
  BY <1>2 DEF Rebuildable
<1>4. Pl(a) = Ozon => staging[It(a)] = "complete" /\ lock[Pl(a)] = a
  BY <1>1, <1>2, Hand DEF Proves, Building, At
<1> QED
  BY <1>1, <1>2, <1>3, <1>4, CheckpointKeeps

(* The intent to commit. *)
LEMMA IntendKeeps ==
  ASSUME Inv, NEW a \in Approval, Intend(a)
  PROVE  Keeps(a)
<1>1. At(a, "intend") /\ Handles(a) /\ ~At(a, "caught") /\ SaveCheckpoint(a, "COMMIT_INTENT", "rename")
  BY DEF Intend, At, Handles, InHand, Guarded
<1>2. Mem(a).phase \notin Settling /\ lock[Pl(a)] = a /\ It(a) \notin manifest[Pl(a)] /\ Mem(a) \in Checkpoint
  BY <1>1, Hand DEF Remembers, Excludes, Guarded, At
<1>3. Mem(a).phase # "COMPLETE"
  BY <1>2 DEF Settling
<1>4. Pl(a) = Ozon => Secure(It(a))
  <2>1. Mem(a).phase \in Rebuildable \/ Mem(a).phase \in Uncertain
    BY <1>2, CheckpointFields DEF Phase, Settling
  <2>2. CASE Mem(a).phase \in Rebuildable
    BY <1>1, <1>2, <2>2, Hand, Belongs DEF Proves, At, Secure
  <2>3. CASE Mem(a).phase \in Uncertain
    BY <1>1, <2>3, Hand DEF Proves
  <2> QED
    BY <2>1, <2>2, <2>3
<1> QED
  BY <1>1, <1>2, <1>3, <1>4, CheckpointKeeps

---------------------------------------------------------------------------
(* The commit. *)

(* The media move to their place. *)
LEMMA RenameKeeps ==
  ASSUME Inv, NEW a \in Approval, Rename(a)
  PROVE  Keeps(a)
<1>1. Handles(a) /\ At(a, "rename")
  BY DEF Rename, At, Handles, InHand, Guarded
<1>2. /\ It(a) \in Delivery /\ It(a) \in Of(a) /\ Sound(It(a)) /\ Remembers(a)
      /\ lock[Pl(a)] = a /\ It(a) \notin manifest[Pl(a)] /\ Pl(a) = PlatformOf[It(a)]
      /\ Mem(a).phase = "COMMIT_INTENT" /\ ckpt[It(a)].phase = "COMMIT_INTENT"
      /\ registered[It(a)] \in Nat
  BY <1>1, Hand DEF Remembers, Excludes, Guarded, At
<1>3. /\ UNCHANGED <<store, notice, manifest, registered, archiveTemp, archive, crashes,
                     writeFailure, writeFails>>
      /\ It(a) \in dest'
      /\ \A d \in Delivery \ {It(a)} : staging'[d] = staging[d] /\ (d \in dest' <=> d \in dest)
      /\ staging'[It(a)] \in {"absent", "empty"} /\ DiskTypes'
      /\ registered[It(a)] = 0
  <2>1. UNCHANGED <<store, notice, manifest, registered, archiveTemp, archive, crashes,
                    writeFailure, writeFails>>
    BY DEF Rename, NothingStored
  <2>2. registered[It(a)] > 0 => staging[It(a)] # "complete" /\ It(a) \notin dest
    BY <1>2 DEF Sound, Placed
  <2>3. CASE It(a) \in dest /\ UNCHANGED <<dest, staging>>
    BY <1>2, <2>1, <2>2, <2>3, Types DEF Sound, Placed, DiskTypes
  <2>4. CASE /\ It(a) \notin dest /\ Staged(a)
             /\ dest' = dest \cup {It(a)} /\ staging' = [staging EXCEPT ![It(a)] = "empty"]
    BY <1>2, <2>1, <2>2, <2>4, Types DEF Staged, DiskTypes
  <2> QED
    BY <2>3, <2>4 DEF Rename
<1>4. PICK place \in {"read", "caught"}, err \in Error :
        /\ Goes(a, place, Mem(a), err) /\ Locks(a) /\ LockTypes'
        /\ place = "read" => lock' = lock /\ err = "none"
        /\ place = "caught" => err \notin {"none", "unknown"}
        /\ faults' \in 0..MaxFaults
  <2>1. CASE Goto(a, "read") /\ UNCHANGED <<lock, faults>>
    <3>1. Goes(a, "read", Mem(a), run[a].err)
      BY <2>1, Types, GotoFacts DEF Place
    <3>2. run[a].err = "none" /\ run[a].err \in Error
      BY <1>1, <1>2 DEF Remembers, At, Error
    <3> QED
      BY <2>1, <3>1, <3>2, Types DEF Locks, LockTypes, CountTypes
  <2>2. CASE Fault /\ RaiseRaw(a)
    <3>1. PICK err \in RawErrors : Raise(a, err)
      BY <2>2 DEF RaiseRaw
    <3>2. err \in Error /\ err \notin {"none", "unknown"}
      BY DEF RawErrors, Error
    <3>3. faults' \in 0..MaxFaults
      BY <2>2, Types, Counted
    <3> QED
      BY <3>1, <3>2, <3>3, RaiseFacts
  <2> QED
    BY <2>1, <2>2 DEF Rename
<1>5. RowTypes' /\ OutboxTypes' /\ CountTypes'
  BY <1>3, <1>4, Types DEF RowTypes, OutboxTypes, CountTypes, store, notice
<1>6. Deals(a)
  <2>1. \A d \in Delivery \ {It(a)} : Untouched(d)
    BY <1>3 DEF Untouched, store
  <2>2. Carried(a) /\ Locks(a) /\ archive \subseteq archive' /\ UNCHANGED <<op, manifest>>
    BY <1>3, <1>4 DEF Goes, store
  <2> QED
    BY <1>1, <1>2, <2>1, <2>2, DealsFacts
<1>7. /\ It(a)' = It(a) /\ Pl(a)' = Pl(a) /\ Mem(a)' = Mem(a) /\ run'[a].at = place /\ run'[a].err = err
      /\ UNCHANGED <<ckpt, hist, outbox, manifest, registered>> /\ Filed(a)' = Filed(a)
  BY <1>3, <1>4 DEF Goes, Carried, It, Pl, Mem, Filed, store
<1>8. Secure(It(a))' \/ Pl(a) # Ozon
  BY <1>2, <1>3, <1>4, <1>7, Belongs DEF Secure, Locks
<1>9. Sound(It(a))'
  <2>1. Records(It(a))'
    BY <1>2, <1>7, <1>3 DEF Sound, Records, Files, Filed
  <2>2. Placed(It(a))'
    BY <1>2, <1>3, <1>7 DEF Sound, Placed, Rebuildable
  <2>3. Proven(It(a))'
    BY <1>2, <1>7, <1>8 DEF Proven
  <2> QED
    BY <2>1, <2>2, <2>3 DEF Sound
<1>10. Knows(a)'
  <2>1. CASE place = "caught"
    BY <1>2, <1>4, <1>7, <1>8, <2>1, CaughtKnows DEF Remembers
  <2>2. CASE place = "read"
    <3>1. Remembers(a)'
      BY <1>1, <1>2, <1>4, <1>7, <2>2 DEF Remembers, Building, At
    <3>2. Excludes(a)'
      BY <1>2, <1>3, <1>4, <1>7, <2>2 DEF Excludes, Guarded, At
    <3>3. Proves(a)'
      BY <1>7, <1>8, <2>2 DEF Proves, At, Building
    <3> QED
      BY <3>1, <3>2, <3>3 DEF Knows
  <2> QED
    BY <2>1, <2>2
<1>11. Notes(a)' /\ run'[a].at \in InHand
  BY <1>7 DEF Notes, At, InHand, Guarded
<1> QED
  BY <1>3, <1>4, <1>5, <1>6, <1>9, <1>10, <1>11, DealsKeeps

(* Leaving the commit: memory has the new phase, and forgets the manifest.  *)
LEMMA CommittedFacts ==
  ASSUME TypeOK, NEW a \in Approval,
         run' = [run EXCEPT ![a].mem.phase = "TARGET_COMMITTED", ![a].at = "archive", ![a].base = {}]
  PROVE  Goes(a, "archive", [Mem(a) EXCEPT !.phase = "TARGET_COMMITTED"], run[a].err)
<1> DEFINE c == [Mem(a) EXCEPT !.phase = "TARGET_COMMITTED"]
           q == [run[a] EXCEPT !.mem = c]
           s == [q EXCEPT !.at = "archive"]
           r == [s EXCEPT !.base = {}]
           Put(x) == [run EXCEPT ![a] = x]
<1>1. c \in Checkpoint
  BY MemoryFields, CheckpointFields DEF TypeOK, Mem, Phase
<1>2. q \in Memories /\ s \in Memories /\ r \in Memories
  <2>1. q \in Memories
    BY <1>1, MemoryFields DEF TypeOK
  <2>2. s \in Memories
    BY <2>1, MemoryFields DEF Place
  <2>3. r \in Memories
    BY <2>2, MemoryFields
  <2> QED
    BY <2>1, <2>2, <2>3
<1>3. DOMAIN run = Approval
  BY DEF TypeOK
<1>4. run' = Put(r)
  <2>1. [run EXCEPT ![a].mem.phase = "TARGET_COMMITTED"] = Put(q)
    BY DEF Mem
  <2>2. [Put(q) EXCEPT ![a].at = "archive"] = Put(s)
    <3>1. Put(q)[a] = q
      BY <1>3, Twice
    <3>2. [Put(q) EXCEPT ![a].at = "archive"] = [Put(q) EXCEPT ![a] = s]
      BY <3>1
    <3> QED
      BY <1>3, <3>2, Twice
  <2>3. [Put(s) EXCEPT ![a].base = {}] = Put(r)
    <3>1. Put(s)[a] = s
      BY <1>3, Twice
    <3>2. [Put(s) EXCEPT ![a].base = {}] = [Put(s) EXCEPT ![a] = r]
      BY <3>1
    <3> QED
      BY <1>3, <3>2, Twice
  <2>4. run' = [[[run EXCEPT ![a].mem.phase = "TARGET_COMMITTED"] EXCEPT ![a].at = "archive"]
                  EXCEPT ![a].base = {}]
    OBVIOUS
  <2> HIDE DEF Put, q, s, r
  <2> QED
    BY <2>1, <2>2, <2>3, <2>4
<1>5. run' \in [Approval -> Memories] /\ run'[a] = r /\ \A b \in Approval \ {a} : run'[b] = run[b]
  <2> HIDE DEF r
  <2> QED
    BY <1>2, <1>4, PutFacts
<1>6. /\ r.op = run[a].op /\ r.item = run[a].item /\ r.todo = run[a].todo /\ r.ok = run[a].ok
      /\ r.bad = run[a].bad /\ r.filed = run[a].filed /\ r.at = "archive" /\ r.mem = c
      /\ r.err = run[a].err
  <2> HIDE DEF c
  <2> QED
    BY DEF TypeOK, Memories
<1> HIDE DEF r, c
<1>7. Goes(a, "archive", c, run[a].err)
  BY <1>5, <1>6 DEF Goes, Carried
<1> QED
  BY <1>7 DEF c

(* The media are registered. *)
LEMMA WriteKeeps ==
  ASSUME Inv, NEW a \in Approval, Write(a)
  PROVE  Keeps(a)
<1>1. Handles(a) /\ At(a, "write")
  BY DEF Write, At, Handles, InHand, Guarded
<1>2. /\ It(a) \in Delivery /\ It(a) \in Of(a) /\ Sound(It(a)) /\ Remembers(a) /\ Pl(a) \in Platform
      /\ lock[Pl(a)] = a /\ It(a) \notin manifest[Pl(a)] /\ Pl(a) = PlatformOf[It(a)]
      /\ It(a) \in dest /\ run[a].base = manifest[Pl(a)]
      /\ Mem(a).phase = "COMMIT_INTENT" /\ ckpt[It(a)].phase = "COMMIT_INTENT" /\ Mem(a) \in Checkpoint
  BY <1>1, Hand DEF Remembers, Excludes, Guarded, At
<1>3. registered[It(a)] = 0
  <2>1. registered[It(a)] \in Nat
    BY <1>1, Hand
  <2> QED
    BY <1>2, <2>1 DEF Sound, Placed
<1>4. /\ UNCHANGED <<store, notice, dest, staging, archiveTemp, archive, crashes, writeFailure, writeFails>>
      /\ manifest' = [manifest EXCEPT ![Pl(a)] = manifest[Pl(a)] \cup {It(a)}]
      /\ registered'[It(a)] = 1 /\ \A d \in Delivery \ {It(a)} : registered'[d] = registered[d]
      /\ registered' \in [Delivery -> Nat]
  <2>1. UNCHANGED <<store, notice, dest, staging, archiveTemp, archive, crashes, writeFailure, writeFails>>
    BY DEF Write, NothingStored
  <2>2. manifest' = [manifest EXCEPT ![Pl(a)] = manifest[Pl(a)] \cup {It(a)}]
    BY <1>2 DEF Write
  <2>3. registered' = [registered EXCEPT ![It(a)] = 1]
    BY <1>2, <1>3, Types DEF Write, DiskTypes
  <2> QED
    BY <1>2, <2>1, <2>2, <2>3, Types DEF DiskTypes
<1>5. /\ manifest'[Pl(a)] = manifest[Pl(a)] \cup {It(a)}
      /\ \A p \in Platform \ {Pl(a)} : manifest'[p] = manifest[p]
      /\ manifest' \in [Platform -> SUBSET Delivery]
  BY <1>2, <1>4, Types DEF DiskTypes
<1> DEFINE c == [Mem(a) EXCEPT !.phase = "TARGET_COMMITTED"]
<1>6. /\ c \in Checkpoint /\ c.phase = "TARGET_COMMITTED" /\ c.result = Mem(a).result
      /\ c.result # "SUCCESS" /\ Files(c) => Filed(a)
  <2>1. c \in Checkpoint
    BY <1>2, CheckpointFields DEF Phase
  <2>2. c.phase = "TARGET_COMMITTED" /\ c.result = Mem(a).result /\ c.arch = Mem(a).arch
        /\ c.filed = Mem(a).filed
    BY <1>2 DEF Checkpoint
  <2> QED
    BY <1>2, <2>1, <2>2 DEF Remembers, Files
<1> HIDE DEF c
<1>7. PICK place \in {"archive", "caught"}, err \in Error :
        /\ Goes(a, place, IF place = "archive" THEN c ELSE Mem(a), err)
        /\ Locks(a) /\ LockTypes'
        /\ place = "archive" => err = "none"
        /\ place = "caught" => err \notin {"none", "unknown"}
        /\ faults' \in 0..MaxFaults
  <2>1. CASE /\ run' = [run EXCEPT ![a].mem.phase = "TARGET_COMMITTED", ![a].at = "archive", ![a].base = {}]
             /\ Free(a) /\ UNCHANGED faults
    <3>1. Goes(a, "archive", c, run[a].err)
      BY <2>1, Types, CommittedFacts DEF c
    <3>2. run[a].err = "none" /\ run[a].err \in Error
      BY <1>1, <1>2 DEF Remembers, At, Error
    <3>3. Locks(a) /\ LockTypes'
      BY <2>1, FreeFacts
    <3>4. faults' \in 0..MaxFaults
      BY <2>1, Types DEF CountTypes
    <3> QED
      BY <3>1, <3>2, <3>3, <3>4
  <2>2. CASE Fault /\ RaiseRaw(a)
    <3>1. PICK err \in RawErrors : Raise(a, err)
      BY <2>2 DEF RaiseRaw
    <3>2. err \in Error /\ err \notin {"none", "unknown"}
      BY DEF RawErrors, Error
    <3>3. faults' \in 0..MaxFaults
      BY <2>2, Types, Counted
    <3>4. Goes(a, "caught", Mem(a), err) /\ Locks(a) /\ LockTypes'
      BY <3>1, <3>2, RaiseFacts
    <3> QED
      BY <3>2, <3>3, <3>4
  <2> QED
    BY <2>1, <2>2 DEF Write
<1>8. RowTypes' /\ DiskTypes' /\ OutboxTypes' /\ CountTypes'
  <2>1. RowTypes' /\ OutboxTypes' /\ CountTypes'
    BY <1>4, <1>7, Types DEF RowTypes, OutboxTypes, CountTypes, store, notice
  <2>2. DiskTypes'
    BY <1>4, <1>5, Types DEF DiskTypes
  <2> QED
    BY <2>1, <2>2
<1>9. Deals(a)
  <2>1. \A d \in Delivery \ {It(a)} : Untouched(d)
    <3>1. \A d \in Delivery \ {It(a)} : (d \in manifest'[PlatformOf[d]]) = (d \in manifest[PlatformOf[d]])
      BY <1>5, Belongs
    <3> QED
      BY <1>4, <3>1 DEF Untouched, store
  <2>2. /\ Carried(a) /\ Locks(a) /\ archive \subseteq archive' /\ UNCHANGED op
        /\ \A p \in Platform : manifest'[p] = manifest[p] \/ lock[p] = a
    BY <1>2, <1>4, <1>5, <1>7 DEF Goes, store
  <2> QED
    BY <1>1, <1>2, <2>1, <2>2, DealsFacts
<1>10. /\ It(a)' = It(a) /\ Pl(a)' = Pl(a) /\ run'[a].at = place /\ run'[a].err = err
       /\ Mem(a)' = IF place = "archive" THEN c ELSE Mem(a)
       /\ UNCHANGED <<ckpt, hist, outbox>> /\ Filed(a)' = Filed(a)
  BY <1>4, <1>7 DEF Goes, Carried, It, Pl, Mem, Filed, store
<1>11. Sound(It(a))'
  <2>1. Records(It(a))'
    BY <1>2, <1>4, <1>10 DEF Sound, Records, Files, Filed, Rebuildable, Settling
  <2>2. Placed(It(a))'
    BY <1>2, <1>4, <1>5, <1>10 DEF Sound, Placed
  <2>3. Proven(It(a))'
    BY <1>4, <1>10 DEF Proven, Secure
  <2> QED
    BY <2>1, <2>2, <2>3 DEF Sound
<1>12. Knows(a)'
  <2>1. CASE place = "caught"
    <3>1. Goes(a, "caught", Mem(a), err)
      BY <1>7, <2>1
    <3>2. Secure(It(a))'
      BY <1>4, <1>10 DEF Secure
    <3>3. Mem(a).phase \notin Rebuildable /\ Mem(a).phase \notin Settling
      BY <1>2 DEF Rebuildable, Settling
    <3> QED
      BY <1>2, <1>4, <1>7, <1>10, <2>1, <3>1, <3>2, <3>3, CaughtKnows DEF Remembers
  <2>2. CASE place = "archive"
    <3>1. Remembers(a)'
      BY <1>2, <1>4, <1>6, <1>7, <1>10, <2>2 DEF Remembers, Building, At, Rebuildable, Settling
    <3>2. Excludes(a)' /\ Proves(a)'
      BY <1>6, <1>10, <2>2 DEF Excludes, Proves, Guarded, Building, At, Uncertain
    <3> QED
      BY <3>1, <3>2 DEF Knows
  <2> QED
    BY <2>1, <2>2
<1>13. Notes(a)' /\ run'[a].at \in InHand
  BY <1>10 DEF Notes, At, InHand, Guarded
<1> QED
  BY <1>7, <1>8, <1>9, <1>11, <1>12, <1>13, DealsKeeps

---------------------------------------------------------------------------
(* The end of a delivery. *)

(* What the run remembers when a delivery has been made. *)
LEMMA SettledFacts ==
  ASSUME TypeOK, NEW a \in Approval, NEW d \in Delivery, NEW next \in Place, Settled(a, d, next),
         ckpt'[d].filed \in BOOLEAN
  PROVE  /\ run' \in [Approval -> Memories]
         /\ \A b \in Approval \ {a} : run'[b] = run[b]
         /\ run'[a].op = run[a].op /\ run'[a].at = next /\ run'[a].err = run[a].err
         /\ run'[a].todo = run[a].todo \ {d} /\ run'[a].ok = run[a].ok \cup {d}
         /\ run'[a].bad = run[a].bad /\ run'[a].filed = (run[a].filed \/ ckpt'[d].filed)
         /\ run'[a].item = IF next = "note" THEN d ELSE Nobody
         /\ next = "note" => run'[a].mem = run[a].mem
<1> DEFINE r == [run[a] EXCEPT !.at = next, !.ok = run[a].ok \cup {d}, !.todo = run[a].todo \ {d},
                     !.filed = run[a].filed \/ ckpt'[d].filed, !.fresh = FALSE,
                     !.item = IF next = "note" THEN d ELSE Nobody,
                     !.mem = IF next = "note" THEN run[a].mem ELSE NoCheckpoint]
<1>1. run' = [run EXCEPT ![a] = r]
  BY DEF Settled
<1>2. r \in Memories
  <2>1. run[a] \in Memories
    BY DEF TypeOK
  <2>2. run[a].mem \in Checkpoint /\ NoCheckpoint \in Checkpoint
    BY <2>1, MemoryFields, CheckpointFields
  <2>3. (IF next = "note" THEN d ELSE Nobody) \in Delivery \cup {Nobody}
    OBVIOUS
  <2>4. (IF next = "note" THEN run[a].mem ELSE NoCheckpoint) \in Checkpoint
    BY <2>2
  <2> QED
    BY ZenonT(60), <2>1, <2>3, <2>4 DEF Memories
<1>3. run' \in [Approval -> Memories] /\ run'[a] = r /\ \A b \in Approval \ {a} : run'[b] = run[b]
  <2> HIDE DEF r
  <2> QED
    BY <1>1, <1>2, PutFacts
<1>4. /\ r.op = run[a].op /\ r.at = next /\ r.err = run[a].err
      /\ r.todo = run[a].todo \ {d} /\ r.ok = run[a].ok \cup {d}
      /\ r.bad = run[a].bad /\ r.filed = (run[a].filed \/ ckpt'[d].filed)
      /\ r.item = IF next = "note" THEN d ELSE Nobody
      /\ next = "note" => r.mem = run[a].mem
  BY DEF TypeOK, Memories
<1> HIDE DEF r
<1> QED
  BY <1>3, <1>4

(* A delivery is made: it is enough that its records are sound.             *)
LEMMA SettledKeeps ==
  ASSUME Inv, NEW a \in Approval, NEW d \in run[a].todo, NEW next \in {"next", "note", "return"},
         Settled(a, d, next), next # "next" => ~Approving(a),
         UNCHANGED <<op, lock, notice, disk, faults, crashes>>,
         \A e \in Delivery \ {d} : Untouched(e),
         RowTypes', OutboxTypes', CountTypes',
         Sound(d)', hist'[d] \in Public, hist[d] = "SUCCESS" => hist'[d] = hist[d],
         ckpt'[d].filed => Filed(a),
         next = "note" => Mem(a) = ckpt'[d] /\ run[a].err = "none"
  PROVE  Keeps(a)
<1>1. TypeOK /\ Task(a) /\ d \in Of(a) /\ d \in Delivery /\ next \in Place
  BY Belongs DEF Inv, TypeOK, Place
<1>2. /\ run' \in [Approval -> Memories]
      /\ \A b \in Approval \ {a} : run'[b] = run[b]
      /\ run'[a].op = run[a].op /\ run'[a].at = next /\ run'[a].err = run[a].err
      /\ run'[a].todo = run[a].todo \ {d} /\ run'[a].ok = run[a].ok \cup {d}
      /\ run'[a].bad = run[a].bad /\ run'[a].filed = (run[a].filed \/ ckpt'[d].filed)
      /\ run'[a].item = IF next = "note" THEN d ELSE Nobody
      /\ next = "note" => run'[a].mem = run[a].mem
  <2>1. ckpt'[d].filed \in BOOLEAN
    BY <1>1, CheckpointFields DEF RowTypes
  <2> QED
    BY <1>1, <2>1, SettledFacts
<1>3. Apart(a) /\ DiskTypes' /\ LockTypes'
  <2>1. \A e \in Delivery \ Of(a) : Untouched(e)
    BY <1>1
  <2>2. DiskTypes' /\ LockTypes'
    BY Types DEF disk, shared, DiskTypes, LockTypes
  <2> QED
    BY <1>2, <2>1, <2>2 DEF Apart, Locks, disk, shared
<1>4. \A e \in Of(a) : Sound(e)'
  BY <1>1, SoundKept, Belongs DEF Task, disk
<1>5. Knows(a)'
  BY <1>2 DEF Knows, Handles, InHand, Building, Guarded
<1>6. Notes(a)'
  BY <1>2 DEF Notes, At, It, Mem
<1>7. Filed(a)' = Filed(a)
  BY DEF Filed, disk
<1>8. Shape(a)'
  <2>1. ~Handles(a)' /\ (At(a, "note")' => It(a)' \in Of(a) /\ ~Approving(a)')
    BY <1>1, <1>2 DEF Handles, InHand, Building, Guarded, At, It, Approving
  <2>2. run'[a].ok \cap run'[a].todo = {} /\ (run'[a].filed => Filed(a)')
    BY <1>1, <1>2, <1>7 DEF Task, Shape
  <2>3. \A f \in run'[a].bad : /\ f.delivery \in Of(a) \ (run'[a].todo \cup run'[a].ok)
                              /\ f.result # "SUCCESS" /\ ckpt'[f.delivery].phase # "COMPLETE"
    <3> SUFFICES ASSUME NEW f \in run[a].bad
                 PROVE  /\ f.delivery \in Of(a) \ (run'[a].todo \cup run'[a].ok)
                        /\ f.result # "SUCCESS" /\ ckpt'[f.delivery].phase # "COMPLETE"
      BY <1>2
    <3>1. /\ f.delivery \in Of(a) \ (run[a].todo \cup run[a].ok)
          /\ f.result # "SUCCESS" /\ ckpt[f.delivery].phase # "COMPLETE"
      BY <1>1 DEF Task, Shape
    <3>2. Untouched(f.delivery)
      BY <3>1, Belongs
    <3> QED
      BY <1>2, <3>1, <3>2 DEF Untouched
  <2>4. Approving(a)' =>
          /\ \A e \in Of(a) : e \in run'[a].ok \cup run'[a].todo \/ \E f \in run'[a].bad : f.delivery = e
          /\ \A e \in run'[a].ok : hist'[e] \in Public
          /\ At(a, "return")' => run'[a].todo = {}
    <3> SUFFICES ASSUME Approving(a)
                 PROVE  /\ \A e \in Of(a) : \/ e \in run'[a].ok \cup run'[a].todo
                                            \/ \E f \in run'[a].bad : f.delivery = e
                        /\ \A e \in run'[a].ok : hist'[e] \in Public
                        /\ ~At(a, "return")'
      BY <1>2 DEF Approving
    <3>1. \A e \in Of(a) : e \in run'[a].ok \cup run'[a].todo \/ \E f \in run'[a].bad : f.delivery = e
      BY <1>1, <1>2 DEF Task, Shape
    <3>2. \A e \in run'[a].ok : hist'[e] \in Public
      <4> TAKE e \in run'[a].ok
      <4>1. e = d \/ (e \in run[a].ok /\ e \in Delivery \ {d})
        BY <1>1, <1>2, Belongs DEF TypeOK
      <4> QED
        BY <1>1, <4>1 DEF Task, Shape, Untouched
    <3>3. ~At(a, "return")'
      BY <1>2 DEF At
    <3> QED
      BY <3>1, <3>2, <3>3
  <2> QED
    BY <2>1, <2>2, <2>3, <2>4 DEF Shape
<1>9. Succeeds(a)'
  <2> SUFFICES ASSUME op[a] = "SUCCEEDED" PROVE Filed(a) /\ \A e \in Of(a) : hist'[e] = "SUCCESS"
    BY <1>7 DEF Succeeds
  <2>1. Filed(a) /\ \A e \in Of(a) : hist[e] = "SUCCESS"
    BY <1>1 DEF Task, Succeeds
  <2> QED
    BY <1>1, <2>1, Belongs DEF Untouched
<1>10. /\ run'[a].op \in OpsOf(a) \cup {Nobody} /\ run'[a].item \in Of(a) \cup {Nobody}
       /\ run'[a].todo \subseteq Of(a) /\ run'[a].ok \subseteq Of(a)
  BY <1>1, <1>2 DEF TypeOK
<1> QED
  BY <1>2, <1>3, <1>4, <1>5, <1>6, <1>8, <1>9, <1>10 DEF Keeps, Task

(* A delivery that is complete is passed over. *)
LEMMA SkipKeeps ==
  ASSUME Inv, NEW a \in Approval, NEW d \in Of(a), Skip(a, d)
  PROVE  Keeps(a)
<1> DEFINE next == IF Approving(a) THEN "next" ELSE "return"
<1>1. /\ d \in run[a].todo /\ ckpt[d].phase = "COMPLETE" /\ Settled(a, d, next)
      /\ UNCHANGED <<store, lock, notice, disk, faults, crashes, writeFailure, writeFails>>
  BY DEF Skip, NothingStored
<1>2. d \in Delivery /\ ApprovalOf[d] = a /\ Sound(d)
  BY Belongs DEF Inv, Task
<1>3. \A e \in Delivery : Untouched(e)
  BY <1>1 DEF Untouched, store, disk, shared
<1>4. Sound(d)'
  BY <1>1, <1>2, <1>3, SoundKept DEF disk
<1>5. RowTypes' /\ OutboxTypes' /\ CountTypes'
  BY <1>1, Types DEF RowTypes, OutboxTypes, CountTypes, store, notice
<1>6. hist[d] = "SUCCESS" /\ Filed(a)
  BY <1>1, <1>2 DEF Sound, Records, Files
<1>7. ckpt' = ckpt /\ hist' = hist /\ op' = op /\ (next # "next" => ~Approving(a))
  BY <1>1 DEF store
<1>8. next \in {"next", "return"}
  OBVIOUS
<1> HIDE DEF next
<1> QED
  BY <1>1, <1>3, <1>4, <1>5, <1>6, <1>7, <1>8, SettledKeeps DEF Public

(* The final save, or its loss. *)
LEMMA SaveKeeps ==
  ASSUME Inv, NEW a \in Approval, Save(a)
  PROVE  Keeps(a)
<1>1. Handles(a) /\ At(a, "save")
  BY DEF Save, At, Handles, InHand
<1>2. PICK d \in Delivery : d = It(a)
  BY <1>1, Hand
<1>3. /\ d \in Of(a) /\ d \in run[a].todo /\ ApprovalOf[d] = a /\ Sound(d) /\ Remembers(a)
      /\ Mem(a) \in Checkpoint /\ Mem(a).phase \in Settling /\ Mem(a).result \in Public
      /\ registered[d] > 0 /\ run[a].err = "none" /\ hist[d] # "SUCCESS"
      /\ (Mem(a).phase = "COMPLETE" <=> Mem(a).result = "SUCCESS") /\ (Files(Mem(a)) => Filed(a))
  BY <1>1, <1>2, Hand DEF Remembers, At
<1>4. UNCHANGED <<op, lock, notice, disk, faults, crashes>>
  BY DEF Save
<1>5. CASE /\ ckpt' = [ckpt EXCEPT ![d] = Mem(a)] /\ hist' = [hist EXCEPT ![d] = Mem(a).result]
           /\ outbox' = [outbox EXCEPT ![d] = IF outbox[d] = "NONE" THEN "PENDING" ELSE outbox[d]]
           /\ Settled(a, d, IF Approving(a) THEN "next" ELSE "note") /\ Committed
  <2> DEFINE next == IF Approving(a) THEN "next" ELSE "note"
  <2>1. /\ ckpt'[d] = Mem(a) /\ hist'[d] = Mem(a).result /\ outbox'[d] # "NONE"
        /\ \A e \in Delivery : outbox[e] # "NONE" => outbox'[e] # "NONE"
        /\ \A e \in Delivery \ {d} : ckpt'[e] = ckpt[e] /\ hist'[e] = hist[e] /\ outbox'[e] = outbox[e]
    BY <1>2, <1>5, Types DEF RowTypes
  <2>2. RowTypes'
    <3>1. Mem(a).result \in Result /\ outbox[d] \in {"NONE", "PENDING", "SENT"}
      BY <1>3, Types, CheckpointFields DEF RowTypes
    <3> QED
      BY <1>3, <1>4, <1>5, <3>1, Types DEF RowTypes
  <2>3. OutboxTypes' /\ CountTypes'
    <3>1. OutboxTypes'
      BY <1>4, <2>1, Types DEF OutboxTypes, notice
    <3> QED
      BY <1>4, <1>5, <3>1, Types, Counted DEF CountTypes
  <2>4. \A e \in Delivery \ {d} : Untouched(e)
    BY <1>4, <2>1 DEF Untouched, disk, shared
  <2>5. Sound(d)'
    <3>1. Records(d)'
      BY <1>3, <1>4, <2>1 DEF Sound, Records, Rebuildable, Settling, Filed, Files, disk, shared
    <3>2. Placed(d)' /\ Proven(d)'
      BY <1>3, <1>4, <2>1 DEF Sound, Placed, Proven, Secure, Rebuildable, Settling, disk, shared
    <3> QED
      BY <3>1, <3>2 DEF Sound
  <2>6. ckpt'[d].filed => Filed(a)
    BY <1>3, <2>1 DEF Files
  <2>7. next \in {"next", "note"} /\ (next # "next" => ~Approving(a)) /\ Settled(a, d, next)
    BY <1>5
  <2> HIDE DEF next
  <2> QED
    BY <1>3, <1>4, <2>1, <2>2, <2>3, <2>4, <2>5, <2>6, <2>7, SettledKeeps
<1>6. CASE /\ \E err \in RawErrors : run' = [run EXCEPT ![a].at = "caught", ![a].err = err]
           /\ Lost /\ UNCHANGED <<ckpt, hist, outbox>>
  <2>1. PICK err \in RawErrors : run' = [run EXCEPT ![a].at = "caught", ![a].err = err]
    BY <1>6
  <2>2. err \in Error \ {"none", "unknown"}
    BY DEF RawErrors, Error
  <2>3. Goes(a, "caught", Mem(a), err)
    BY <2>1, <2>2, Types, FallFacts DEF Place
  <2>4. Quiet
    <3>1. DiskTypes' /\ LockTypes'
      BY <1>4, Types DEF DiskTypes, LockTypes, disk, shared
    <3>2. CountTypes'
      BY <1>4, <1>6, Types, Counted DEF CountTypes
    <3> QED
      BY <1>4, <1>6, <3>1, <3>2 DEF Quiet, store, disk, shared
  <2>5. It(a)' = d /\ Filed(a)' = Filed(a) /\ UNCHANGED <<ckpt, registered>>
    BY <1>2, <1>4, <1>6, <2>3 DEF Goes, Carried, It, Filed, disk, shared
  <2>6. Knows(a)'
    <3>1. /\ Mem(a).phase \notin Rebuildable /\ Secure(It(a))' /\ ckpt'[It(a)].phase # "COMPLETE"
          /\ registered'[It(a)] > 0 /\ Mem(a).phase # "NONE"
      BY <1>2, <1>3, <2>5 DEF Rebuildable, Settling, Secure, Remembers
    <3>2. Files(Mem(a)) => Filed(a)'
      BY <1>3, <2>5
    <3> QED
      BY <1>3, <2>2, <2>3, <3>1, <3>2, CaughtKnows
  <2>7. Carried(a) /\ run'[a].at \in InHand /\ Locks(a)
    BY <1>4, <2>3 DEF Goes, InHand, Locks
  <2> QED
    BY <1>1, <2>4, <2>6, <2>7, QuietKeeps
<1> QED
  BY <1>2, <1>5, <1>6 DEF Save

(* What the catch saves never claims more than what is known.               *)
LEMMA CaughtFacts ==
  ASSUME Inv, NEW a \in Approval, Handles(a), At(a, "caught")
  PROVE  /\ Caught(a) \in Checkpoint /\ Caught(a).phase \notin {"NONE", "COMPLETE"}
         /\ Caught(a).result # "SUCCESS"
         /\ Caught(a).phase \in Rebuildable => registered[It(a)] = 0 /\ ckpt[It(a)].phase \in Rebuildable
         /\ Caught(a).phase \in Settling => registered[It(a)] > 0
         /\ Files(Caught(a)) => Filed(a)
         /\ Pl(a) = Ozon /\ Caught(a).phase \in Uncertain => Secure(It(a))
<1>1. /\ Mem(a) \in Checkpoint /\ Remembers(a) /\ Proves(a) /\ Mem(a).phase # "NONE"
      /\ run[a].err = "unknown" => Mem(a).phase = "COMMIT_INTENT"
  BY Hand DEF Remembers
<1>2. CASE Doubtful(a)
  <2> DEFINE n == [Mem(a) EXCEPT !.phase = "NEEDS_ATTENTION"]
             c == [n EXCEPT !.result = "FAILED"]
  <2>1. Caught(a) = c
    BY <1>1, <1>2 DEF Caught, Checkpoint
  <2>2. n \in Checkpoint
    BY <1>1, CheckpointFields DEF Phase, Uncertain
  <2>3. c \in Checkpoint
    <3> HIDE DEF n
    <3> QED
      BY <2>2, CheckpointFields DEF Result
  <2>4. /\ c.phase = "NEEDS_ATTENTION" /\ c.result = "FAILED" /\ c.arch = Mem(a).arch
        /\ c.filed = Mem(a).filed
    BY <1>1 DEF Checkpoint
  <2> HIDE DEF c
  <2>5. Files(c) => Filed(a)
    BY <1>1, <2>4 DEF Files, Remembers
  <2>6. Pl(a) = Ozon => Secure(It(a))
    <3>1. Mem(a).phase = "COMMIT_INTENT" \/ Mem(a).phase = "COMPLETE"
      BY <1>1, <1>2 DEF Doubtful
    <3> QED
      BY <1>1, <3>1 DEF Proves, Uncertain, Secure, Remembers, Settling
  <2> QED
    BY <2>1, <2>3, <2>4, <2>5, <2>6 DEF Rebuildable, Settling
<1>3. CASE ~Doubtful(a)
  <2>1. Caught(a) = Mem(a) /\ Mem(a).phase \notin {"COMMIT_INTENT", "COMPLETE"}
    BY <1>3 DEF Caught, Doubtful
  <2> QED
    BY <1>1, <2>1 DEF Remembers, Proves
<1> QED
  BY <1>2, <1>3

(* The catch: its save keeps the records of the delivery sound.             *)
LEMMA CatchSound ==
  ASSUME Inv, NEW a \in Approval, Handles(a), At(a, "caught"), NEW d \in Delivery, d = It(a),
         \/ ckpt' = [ckpt EXCEPT ![It(a)] = Caught(a)] /\ Committed
         \/ Lost /\ UNCHANGED ckpt,
         UNCHANGED <<op, hist, outbox, lock, notice, disk, faults, crashes>>
  PROVE  /\ RowTypes' /\ DiskTypes' /\ LockTypes' /\ OutboxTypes' /\ CountTypes'
         /\ Sound(d)' /\ ckpt'[d].phase # "COMPLETE"
         /\ \A e \in Delivery \ {d} : Untouched(e)
<1> DEFINE c == Caught(a)
<1>1. /\ c \in Checkpoint /\ c.phase \notin {"NONE", "COMPLETE"} /\ c.result # "SUCCESS"
      /\ c.phase \in Rebuildable => registered[d] = 0 /\ ckpt[d].phase \in Rebuildable
      /\ c.phase \in Settling => registered[d] > 0
      /\ Files(c) => Filed(a)
      /\ PlatformOf[d] = Ozon /\ c.phase \in Uncertain => Secure(d)
  BY CaughtFacts DEF Pl
<1> HIDE DEF c
<1>2. Sound(d) /\ ApprovalOf[d] = a /\ ckpt[d].phase # "COMPLETE" /\ hist[d] # "SUCCESS"
  BY Hand DEF Remembers
<1>3. RowTypes' /\ DiskTypes' /\ LockTypes' /\ OutboxTypes'
  BY <1>1, Types DEF RowTypes, DiskTypes, LockTypes, OutboxTypes, notice, disk, shared, c
<1>4. CountTypes'
  BY Types, Counted DEF CountTypes
<1>5. /\ \A e \in Delivery \ {d} : ckpt'[e] = ckpt[e]
      /\ ckpt'[d] = c \/ ckpt'[d] = ckpt[d]
  BY Types DEF RowTypes, c
<1>6. \A e \in Delivery \ {d} : Untouched(e)
  BY <1>5 DEF Untouched, disk, shared
<1>7. Sound(d)'
  <2>1. CASE ckpt'[d] = ckpt[d]
    <3>1. Untouched(d)
      BY <2>1 DEF Untouched, disk, shared
    <3> QED
      BY <1>2, <3>1, SoundKept DEF disk
  <2>2. CASE ckpt'[d] = c
    <3>1. Records(d)'
      BY <1>1, <1>2, <2>2 DEF Sound, Records, Rebuildable, Filed, disk, shared
    <3>2. Placed(d)'
      BY <1>1, <1>2, <2>2 DEF Sound, Placed, disk, shared
    <3>3. Proven(d)'
      BY <1>1, <2>2 DEF Proven, Secure, disk, shared
    <3> QED
      BY <3>1, <3>2, <3>3 DEF Sound
  <2> QED
    BY <1>5, <2>1, <2>2
<1> QED
  BY <1>1, <1>2, <1>3, <1>4, <1>5, <1>6, <1>7

(* What the run remembers of a delivery that failed.                        *)
LEMMA FailedFacts ==
  ASSUME TypeOK, NEW a \in Approval, NEW d \in Delivery, NEW failure \in Failure,
         run' = [run EXCEPT ![a] = [run[a] EXCEPT !.at = "next", !.err = "none", !.todo = @ \ {d},
                                                  !.bad = @ \cup {failure}, !.fresh = FALSE,
                                                  !.item = Nobody, !.mem = NoCheckpoint, !.base = {}]]
  PROVE  /\ run' \in [Approval -> Memories]
         /\ \A b \in Approval \ {a} : run'[b] = run[b]
         /\ run'[a].op = run[a].op /\ run'[a].at = "next" /\ run'[a].err = "none"
         /\ run'[a].todo = run[a].todo \ {d} /\ run'[a].ok = run[a].ok
         /\ run'[a].bad = run[a].bad \cup {failure} /\ run'[a].filed = run[a].filed
         /\ run'[a].item = Nobody
<1> DEFINE r == [run[a] EXCEPT !.at = "next", !.err = "none", !.todo = run[a].todo \ {d},
                               !.bad = run[a].bad \cup {failure}, !.fresh = FALSE,
                               !.item = Nobody, !.mem = NoCheckpoint, !.base = {}]
<1>1. run' = [run EXCEPT ![a] = r]
  OBVIOUS
<1>2. r \in Memories
  <2>1. run[a] \in Memories
    BY DEF TypeOK
  <2>2. NoCheckpoint \in Checkpoint /\ "next" \in Place /\ "none" \in Error
    BY <2>1, MemoryFields, CheckpointFields DEF Place, Error
  <2> QED
    BY <2>1, <2>2 DEF Memories
<1>3. run' \in [Approval -> Memories] /\ run'[a] = r /\ \A b \in Approval \ {a} : run'[b] = run[b]
  <2> HIDE DEF r
  <2> QED
    BY <1>1, <1>2, PutFacts
<1>4. /\ r.op = run[a].op /\ r.at = "next" /\ r.err = "none"
      /\ r.todo = run[a].todo \ {d} /\ r.ok = run[a].ok
      /\ r.bad = run[a].bad \cup {failure} /\ r.filed = run[a].filed /\ r.item = Nobody
  BY DEF TypeOK, Memories
<1> HIDE DEF r
<1> QED
  BY <1>3, <1>4

(* The catch of deliver. *)
LEMMA CatchKeeps ==
  ASSUME Inv, NEW a \in Approval, Catch(a)
  PROVE  Keeps(a)
<1> DEFINE err == IF Doubtful(a) THEN "unknown" ELSE run[a].err
           failure == [delivery |-> It(a), result |-> Caught(a).result, err |-> err]
<1>1. /\ Handles(a) /\ At(a, "caught")
      /\ \/ ckpt' = [ckpt EXCEPT ![It(a)] = Caught(a)] /\ Committed
         \/ Lost /\ UNCHANGED ckpt
      /\ UNCHANGED <<op, hist, outbox, lock, notice, disk, faults, crashes>>
  BY DEF Catch, At, Handles, InHand
<1>2. PICK d \in Delivery : d = It(a)
  BY <1>1, Hand
<1>3. /\ RowTypes' /\ DiskTypes' /\ LockTypes' /\ OutboxTypes' /\ CountTypes'
      /\ Sound(d)' /\ ckpt'[d].phase # "COMPLETE"
      /\ \A e \in Delivery \ {d} : Untouched(e)
  BY <1>1, <1>2, CatchSound
<1>4. /\ d \in Of(a) /\ d \in run[a].todo /\ run[a].err # "none" /\ run[a].err \in Error
      /\ hist[d] # "SUCCESS" /\ op[a] # "SUCCEEDED" /\ err # "none" /\ err \in Error
      /\ Caught(a) \in Checkpoint /\ Caught(a).result # "SUCCESS" /\ TypeOK /\ Task(a)
  <2>1. run[a].err \in Error /\ TypeOK /\ Task(a)
    BY Types, MemoryFields DEF Inv
  <2>2. run[a].err # "none" /\ d \in Of(a) /\ d \in run[a].todo /\ hist[d] # "SUCCESS" /\ op[a] # "SUCCEEDED"
    BY <1>1, <1>2, Hand DEF Remembers
  <2> QED
    BY <1>1, <2>1, <2>2, CaughtFacts DEF Error
<1>5. /\ ~Approving(a) => run' = [run EXCEPT ![a].at = "note", ![a].mem = Caught(a), ![a].err = err]
      /\ Approving(a) /\ err = "unknown" => run' = [run EXCEPT ![a].at = "thrown", ![a].err = err]
      /\ Approving(a) /\ err # "unknown" =>
           run' = [run EXCEPT ![a] = [run[a] EXCEPT !.at = "next", !.err = "none", !.todo = @ \ {d},
                                                    !.bad = @ \cup {failure}, !.fresh = FALSE,
                                                    !.item = Nobody, !.mem = NoCheckpoint, !.base = {}]]
  BY <1>2 DEF Catch
<1>6. failure \in Failure /\ failure.delivery = d /\ failure.result # "SUCCESS"
  <2>1. Caught(a).result \in Result
    BY <1>4, CheckpointFields
  <2> QED
    BY <1>2, <1>4, <2>1 DEF Failure
<1> HIDE DEF failure, err
<1>7. UNCHANGED archive /\ \A p \in Platform : manifest'[p] = manifest[p]
  BY <1>1 DEF disk, shared
<1>8. Locks(a)
  BY <1>1 DEF Locks
<1>9. CASE ~Approving(a) \/ err = "unknown"
  <2>1. /\ Carried(a) /\ run'[a].at \in {"note", "thrown"} /\ run'[a].err = err
        /\ run'[a].at = "note" => ~Approving(a) /\ run'[a].mem = Caught(a)
    <3>1. CASE ~Approving(a)
      <4> DEFINE r == [run[a] EXCEPT !.at = "note", !.mem = Caught(a), !.err = err]
      <4>1. run' = [run EXCEPT ![a] = r]
        BY <1>4, <1>5, <3>1 DEF TypeOK
      <4>2. r \in Memories
        <5>1. run[a] \in Memories /\ "note" \in Place /\ Caught(a) \in Checkpoint /\ err \in Error
          BY <1>4 DEF TypeOK, Place
        <5> QED
          BY <5>1 DEF Memories
      <4>3. run' \in [Approval -> Memories] /\ run'[a] = r /\ \A b \in Approval \ {a} : run'[b] = run[b]
        <5> HIDE DEF r
        <5> QED
          BY <1>4, <4>1, <4>2, PutFacts
      <4>4. /\ r.op = run[a].op /\ r.item = run[a].item /\ r.todo = run[a].todo /\ r.ok = run[a].ok
            /\ r.bad = run[a].bad /\ r.filed = run[a].filed /\ r.at = "note" /\ r.mem = Caught(a)
            /\ r.err = err
        BY <1>4 DEF TypeOK, Memories
      <4> HIDE DEF r
      <4> QED
        BY <3>1, <4>3, <4>4 DEF Carried
    <3>2. CASE Approving(a)
      <4>1. Goes(a, "thrown", Mem(a), err)
        BY <1>4, <1>5, <1>9, <3>2, FallFacts DEF Place
      <4> QED
        BY <4>1 DEF Goes
    <3> QED
      BY <3>1, <3>2
  <2>2. Deals(a)
    BY <1>1, <1>2, <1>3, <1>4, <1>7, <1>8, <2>1, DealsFacts
  <2>3. It(a)' = d /\ ~Handles(a)'
    BY <1>2, <2>1 DEF Carried, It, Handles, InHand, Building, Guarded
  <2>4. Knows(a)'
    BY <2>3 DEF Knows
  <2>5. Notes(a)'
    BY <1>3, <1>4, <2>1, <2>3 DEF Notes, At, Mem
  <2>6. Sound(It(a))'
    BY <1>3, <2>3
  <2> QED
    BY <1>3, <2>1, <2>2, <2>4, <2>5, <2>6, DealsKeeps
<1>10. CASE Approving(a) /\ err # "unknown"
  <2>1. /\ run' \in [Approval -> Memories]
        /\ \A b \in Approval \ {a} : run'[b] = run[b]
        /\ run'[a].op = run[a].op /\ run'[a].at = "next" /\ run'[a].err = "none"
        /\ run'[a].todo = run[a].todo \ {d} /\ run'[a].ok = run[a].ok
        /\ run'[a].bad = run[a].bad \cup {failure} /\ run'[a].filed = run[a].filed
        /\ run'[a].item = Nobody
    <3>1. run' = [run EXCEPT ![a] = [run[a] EXCEPT !.at = "next", !.err = "none", !.todo = @ \ {d},
                                                   !.bad = @ \cup {failure}, !.fresh = FALSE,
                                                   !.item = Nobody, !.mem = NoCheckpoint, !.base = {}]]
      BY <1>5, <1>10
    <3>2. TypeOK /\ failure \in Failure
      BY <1>4, <1>6
    <3> QED
      BY <3>1, <3>2, FailedFacts
  <2>2. Apart(a)
    <3>1. \A e \in Delivery \ Of(a) : Untouched(e)
      BY <1>3, <1>4
    <3> QED
      BY <1>1, <1>7, <1>8, <2>1, <3>1 DEF Apart
  <2>3. \A e \in Of(a) : Sound(e)'
    BY <1>1, <1>3, <1>4, <1>7, SoundKept, Belongs DEF Task
  <2>4. Knows(a)' /\ Notes(a)' /\ ~Handles(a)'
    BY <2>1 DEF Knows, Notes, Handles, At, InHand, Building, Guarded
  <2>5. Succeeds(a)'
    <3>1. op'[a] # "SUCCEEDED"
      BY <1>1, <1>4
    <3> QED
      BY <3>1 DEF Succeeds
  <2>6. Shape(a)'
    <3>1. Filed(a)' = Filed(a)
      BY <1>7 DEF Filed
    <3>2. ~At(a, "note")' /\ ~At(a, "return")' /\ Approving(a)
      BY <1>10, <2>1 DEF At
    <3>3. run'[a].ok \cap run'[a].todo = {} /\ (run'[a].filed => Filed(a)')
      BY <1>4, <2>1, <3>1 DEF Task, Shape
    <3>4. \A f \in run'[a].bad : /\ f.delivery \in Of(a) \ (run'[a].todo \cup run'[a].ok)
                                /\ f.result # "SUCCESS" /\ ckpt'[f.delivery].phase # "COMPLETE"
      <4> TAKE f \in run'[a].bad
      <4>1. CASE f = failure
        BY <1>3, <1>4, <1>6, <2>1, <4>1 DEF Task, Shape
      <4>2. CASE f \in run[a].bad
        <5>1. /\ f.delivery \in Of(a) \ (run[a].todo \cup run[a].ok)
              /\ f.result # "SUCCESS" /\ ckpt[f.delivery].phase # "COMPLETE"
          BY <1>4, <4>2 DEF Task, Shape
        <5>2. Untouched(f.delivery)
          BY <1>3, <1>4, <5>1, Belongs
        <5> QED
          BY <2>1, <5>1, <5>2 DEF Untouched
      <4> QED
        BY <2>1, <4>1, <4>2
    <3>5. \A e \in Of(a) : e \in run'[a].ok \cup run'[a].todo \/ \E f \in run'[a].bad : f.delivery = e
      BY <1>4, <1>6, <2>1, <3>2 DEF Task, Shape
    <3>6. \A e \in run'[a].ok : hist'[e] \in Public
      BY <1>1, <1>4, <2>1, <3>2 DEF Task, Shape
    <3> QED
      BY <2>4, <3>2, <3>3, <3>4, <3>5, <3>6 DEF Shape
  <2>7. /\ run'[a].op \in OpsOf(a) \cup {Nobody} /\ run'[a].item \in Of(a) \cup {Nobody}
        /\ run'[a].todo \subseteq Of(a) /\ run'[a].ok \subseteq Of(a)
    BY <1>4, <2>1 DEF TypeOK
  <2> QED
    BY <1>3, <2>1, <2>2, <2>3, <2>4, <2>5, <2>6, <2>7 DEF Keeps, Task
<1> QED
  BY <1>9, <1>10

---------------------------------------------------------------------------
(* Steps of a run that has no delivery in hand. *)

(* What may change: its memory, its operation, and what the history tells   *)
(* of deliveries that did not succeed.                                      *)
LEMMA TaskKeeps ==
  ASSUME Inv, NEW a \in Approval,
         run' \in [Approval -> Memories],
         run'[a].op \in OpsOf(a) \cup {Nobody}, run'[a].item \in Of(a) \cup {Nobody},
         run'[a].todo \subseteq Of(a), run'[a].ok \subseteq Of(a),
         \A b \in Approval \ {a} : run'[b] = run[b] /\ op'[b] = op[b],
         UNCHANGED <<ckpt, outbox, lock, notice, disk>>, RowTypes', CountTypes',
         \A d \in Delivery \ Of(a) : hist'[d] = hist[d],
         \A d \in Of(a) : hist'[d] = "SUCCESS" <=> hist[d] = "SUCCESS",
         Knows(a)', Shape(a)', Notes(a)', Succeeds(a)'
  PROVE  Keeps(a)
<1>1. DiskTypes' /\ LockTypes' /\ OutboxTypes'
  BY Types DEF DiskTypes, LockTypes, OutboxTypes, notice, disk, shared
<1>2. Apart(a)
  <2>1. \A d \in Delivery \ Of(a) : Untouched(d)
    BY DEF Untouched, disk, shared
  <2> QED
    BY <2>1 DEF Apart, Locks, disk, shared
<1>3. \A d \in Of(a) : Sound(d)'
  <2> TAKE d \in Of(a)
  <2>1. Sound(d) /\ (hist'[d] = "SUCCESS" <=> hist[d] = "SUCCESS")
    BY DEF Inv, Task
  <2>2. UNCHANGED <<ckpt, outbox, lock, registered, staging, dest, manifest, archive>>
    BY DEF disk, shared
  <2>3. Records(d)'
    BY <2>1, <2>2 DEF Sound, Records, Filed
  <2>4. Placed(d)' /\ Proven(d)'
    BY <2>1, <2>2 DEF Sound, Placed, Proven, Secure
  <2> QED
    BY <2>3, <2>4 DEF Sound
<1> QED
  BY <1>1, <1>2, <1>3 DEF Keeps, Task

(* Returning, or throwing. *)
LEMMA LeaveKeeps ==
  ASSUME Inv, NEW a \in Approval, NEW place \in {"return", "thrown"}, NEW m, NEW err, Goes(a, place, m, err),
         UNCHANGED <<op, ckpt, outbox, lock, notice, disk>>, RowTypes', CountTypes',
         \A d \in Delivery \ Of(a) : hist'[d] = hist[d],
         \A d \in Of(a) : hist'[d] = "SUCCESS" <=> hist[d] = "SUCCESS",
         Approving(a) => \A d \in run[a].ok : hist'[d] = hist[d],
         Approving(a) /\ place = "return" => run[a].todo = {}
  PROVE  Keeps(a)
<1>1. TypeOK /\ Task(a) /\ Carried(a) /\ run'[a].at = place /\ Filed(a)' = Filed(a) /\ ckpt' = ckpt
  BY DEF Inv, Goes, Filed, disk
<1>2. ~Handles(a)' /\ ~At(a, "note")' /\ Approving(a)' = Approving(a)
  BY <1>1 DEF Handles, At, InHand, Building, Guarded, Carried, Approving
<1>3. Knows(a)' /\ Notes(a)'
  BY <1>2 DEF Knows, Notes
<1>4. Shape(a)'
  BY <1>1, <1>2 DEF Task, Shape, Carried, At
<1>5. Succeeds(a)'
  BY <1>1 DEF Task, Succeeds
<1>6. /\ run'[a].op \in OpsOf(a) \cup {Nobody} /\ run'[a].item \in Of(a) \cup {Nobody}
      /\ run'[a].todo \subseteq Of(a) /\ run'[a].ok \subseteq Of(a)
  BY <1>1 DEF TypeOK, Carried
<1>7. run' \in [Approval -> Memories] /\ \A b \in Approval \ {a} : run'[b] = run[b] /\ op'[b] = op[b]
  BY <1>1 DEF Carried
<1> QED
  BY <1>3, <1>4, <1>5, <1>6, <1>7, TaskKeeps

(* An approval is refused. *)
LEMMA RefuseKeeps ==
  ASSUME Inv, NEW a \in Approval, Refuse(a)
  PROVE  Keeps(a)
<1>1. Goes(a, "thrown", Mem(a), "permanent")
  BY Types, FallFacts DEF Refuse, Throw, Place, RawErrors, Error
<1>2. UNCHANGED <<store, lock, notice, disk, writeFailure, writeFails, crashes>> /\ Fault
  BY DEF Refuse, NothingStored
<1>3. RowTypes' /\ CountTypes'
  BY <1>2, Types, Counted DEF RowTypes, CountTypes, store
<1>4. hist' = hist /\ UNCHANGED <<op, ckpt, outbox, lock, notice, disk>>
  BY <1>2 DEF store
<1> QED
  BY SMTT(30), <1>1, <1>3, <1>4, LeaveKeeps

(* A retry tells the history. *)
LEMMA NoteKeeps ==
  ASSUME Inv, NEW a \in Approval, Note(a)
  PROVE  Keeps(a)
<1>1. At(a, "note") /\ UNCHANGED <<op, ckpt, outbox, lock, notice, disk, faults, crashes>>
  BY DEF Note
<1>2. PICK d \in Of(a) : d = It(a)
  BY <1>1 DEF Inv, Task, Shape
<1>3. TypeOK /\ d \in Delivery /\ Sound(d) /\ ~Approving(a) /\ Notes(a) /\ Mem(a) \in Checkpoint
  BY <1>1, <1>2, Types, MemoryFields, Belongs DEF Inv, Task, Shape, Mem
<1>4. CASE /\ hist' = [hist EXCEPT ![d] = IF run[a].err = "unknown" THEN "UNKNOWN" ELSE Mem(a).result]
           /\ Goto(a, IF run[a].err = "none" THEN "return" ELSE "thrown") /\ Committed
  <2> DEFINE place == IF run[a].err = "none" THEN "return" ELSE "thrown"
  <2>1. Goes(a, place, Mem(a), run[a].err) /\ place \in {"return", "thrown"}
    BY <1>3, <1>4, GotoFacts DEF Place
  <2>2. RowTypes'
    <3>1. Mem(a).result \in Result
      BY <1>3, CheckpointFields
    <3> QED
      BY <1>1, <1>3, <1>4, <3>1, Types DEF RowTypes
  <2>3. CountTypes'
    BY <1>1, <1>4, Types, Counted DEF CountTypes
  <2>4. \A e \in Delivery \ {d} : hist'[e] = hist[e]
    BY <1>4, Types DEF RowTypes
  <2>5. hist'[d] = "SUCCESS" <=> hist[d] = "SUCCESS"
    <3>1. hist'[d] = IF run[a].err = "unknown" THEN "UNKNOWN" ELSE Mem(a).result
      BY <1>3, <1>4, Types DEF RowTypes
    <3>2. hist[d] = "SUCCESS" <=> ckpt[d].result = "SUCCESS"
      BY <1>3 DEF Sound, Records
    <3>3. CASE run[a].err = "none"
      BY <1>1, <1>2, <1>3, <3>1, <3>2, <3>3 DEF Notes
    <3>4. CASE run[a].err # "none"
      BY <1>1, <1>2, <1>3, <3>1, <3>2, <3>4 DEF Notes, Sound, Records
    <3> QED
      BY <3>3, <3>4
  <2> HIDE DEF place
  <2> QED
    BY <1>1, <1>2, <1>3, <2>1, <2>2, <2>3, <2>4, <2>5, Belongs, LeaveKeeps
<1>5. CASE ThrowRaw(a) /\ Lost /\ UNCHANGED hist
  <2>1. PICK err \in RawErrors : Goes(a, "thrown", Mem(a), err)
    BY <1>3, <1>5, FallFacts DEF ThrowRaw, Throw, Place, RawErrors, Error
  <2>2. RowTypes' /\ CountTypes'
    BY <1>1, <1>5, Types, Counted DEF RowTypes, CountTypes
  <2> QED
    BY SMTT(30), <1>1, <1>5, <2>1, <2>2, LeaveKeeps
<1> QED
  BY <1>2, <1>4, <1>5 DEF Note

(* An approval records its failures. *)
LEMMA ConcludeKeeps ==
  ASSUME Inv, NEW a \in Approval, Conclude(a)
  PROVE  Keeps(a)
<1>1. At(a, "next") /\ run[a].todo = {} /\ UNCHANGED <<op, ckpt, outbox, lock, notice, disk, faults, crashes>>
  BY DEF Conclude
<1>2. TypeOK /\ Task(a) /\ run[a] \in Memories
  BY Types DEF Inv
<1>3. CASE /\ hist' = [d \in Delivery |-> IF Failed(a, d) = {} THEN hist[d]
                                         ELSE (CHOOSE f \in Failed(a, d) : TRUE).result]
           /\ IF run[a].ok # {} THEN Goto(a, "return") ELSE \E f \in run[a].bad : Throw(a, f.err)
           /\ Committed
  <2>1. PICK place \in {"return", "thrown"}, err \in Error : Goes(a, place, Mem(a), err)
    <3>1. CASE Goto(a, "return")
      <4>1. run[a].err \in Error
        BY <1>2, MemoryFields
      <4> QED
        BY <1>2, <3>1, <4>1, GotoFacts DEF Place
    <3>2. CASE \E f \in run[a].bad : Throw(a, f.err)
      <4>1. PICK f \in run[a].bad : Throw(a, f.err)
        BY <3>2
      <4>2. f.err \in Error
        BY <1>2 DEF Memories, Failure
      <4> QED
        BY <1>2, <4>1, <4>2, FallFacts DEF Throw, Place
    <3> QED
      BY <1>3, <3>1, <3>2
  <2>2. \A d \in Delivery :
          \/ hist'[d] = hist[d]
          \/ /\ d \in Of(a) \ run[a].ok /\ hist'[d] \in Result
             /\ hist'[d] # "SUCCESS" /\ hist[d] # "SUCCESS"
    <3> TAKE d \in Delivery
    <3>1. CASE Failed(a, d) = {}
      BY <1>3, <3>1
    <3>2. CASE Failed(a, d) # {}
      <4>1. PICK f \in run[a].bad : f.delivery = d /\ hist'[d] = f.result
        <5> DEFINE f == CHOOSE f \in Failed(a, d) : TRUE
        <5>1. f \in Failed(a, d) /\ hist'[d] = f.result
          BY <1>3, <3>2
        <5> HIDE DEF f
        <5> QED
          BY <5>1 DEF Failed
      <4>2. /\ d \in Of(a) \ (run[a].todo \cup run[a].ok) /\ f.result # "SUCCESS"
            /\ ckpt[d].phase # "COMPLETE"
        BY <1>2, <4>1 DEF Task, Shape
      <4>3. hist[d] # "SUCCESS" /\ f.result \in Result
        BY <1>2, <4>1, <4>2 DEF Task, Sound, Records, Memories, Failure
      <4> QED
        BY <4>1, <4>2, <4>3
    <3> QED
      BY <3>1, <3>2
  <2>3. RowTypes'
    <3>1. \A d \in Delivery : hist'[d] \in Result \cup {"NONE", "UNKNOWN"}
      BY <2>2, Types DEF RowTypes
    <3> QED
      BY <1>1, <1>3, <3>1, Types DEF RowTypes
  <2>4. CountTypes'
    BY <1>1, <1>3, Types, Counted DEF CountTypes
  <2>5. run[a].ok \subseteq Delivery /\ \A d \in Of(a) : d \in Delivery
    BY <1>2, Belongs DEF TypeOK
  <2> QED
    BY <1>1, <2>1, <2>2, <2>3, <2>4, <2>5, LeaveKeeps
<1>4. CASE ThrowRaw(a) /\ Lost /\ UNCHANGED hist
  <2>1. PICK err \in RawErrors : Goes(a, "thrown", Mem(a), err)
    BY <1>2, <1>4, FallFacts DEF ThrowRaw, Throw, Place, RawErrors, Error
  <2>2. RowTypes' /\ CountTypes'
    BY <1>1, <1>4, Types, Counted DEF RowTypes, CountTypes
  <2> QED
    BY SMTT(30), <1>1, <1>4, <2>1, <2>2, LeaveKeeps
<1> QED
  BY <1>3, <1>4 DEF Conclude

(* What the checkpoint of a delivery tells the run that takes it up.        *)
LEMMA LoadedFacts ==
  ASSUME Inv, NEW a \in Approval, NEW d \in run[a].todo, ckpt[d].phase # "COMPLETE"
  PROVE  LET m == Loaded(a, d) IN
         /\ m \in Checkpoint /\ m.phase \notin {"NONE", "COMPLETE"} /\ m.result # "SUCCESS"
         /\ m.phase \in Rebuildable => registered[d] = 0 /\ ckpt[d].phase \in Rebuildable
         /\ m.phase \in Settling => registered[d] > 0
         /\ Files(m) => Filed(a)
         /\ PlatformOf[d] = Ozon /\ m.phase \in Uncertain => Secure(d)
<1> DEFINE m == Loaded(a, d)
<1>1. TypeOK /\ Task(a) /\ d \in Of(a) /\ d \in Delivery /\ ApprovalOf[d] = a /\ Sound(d)
  BY Belongs DEF Inv, Task, TypeOK
<1>2. registered[d] \in Nat /\ ckpt[d] \in Checkpoint
  BY <1>1 DEF TypeOK
<1>3. CASE ckpt[d].phase # "NONE"
  <2>1. m = ckpt[d]
    BY <1>3 DEF Loaded
  <2> HIDE DEF m
  <2>2. Files(m) => Filed(a)
    BY <1>1, <1>3, <2>1 DEF Sound, Records
  <2>3. /\ m.phase \in Rebuildable => registered[d] = 0
        /\ m.phase \in Settling => registered[d] > 0
        /\ m.result # "SUCCESS"
    BY <1>1, <1>2, <2>1 DEF Sound, Records
  <2>4. PlatformOf[d] = Ozon /\ m.phase \in Uncertain => Secure(d)
    BY <1>1, <2>1 DEF Sound, Proven
  <2>5. m \in Checkpoint /\ m.phase \notin {"NONE", "COMPLETE"}
    BY <1>2, <1>3, <2>1
  <2> QED
    BY <2>1, <2>2, <2>3, <2>4, <2>5 DEF m
<1>4. CASE ckpt[d].phase = "NONE"
  <2>1. PICK arch \in BOOLEAN : arch = ~Archived(a, d)
    OBVIOUS
  <2>2. /\ m.phase = "PREPARING" /\ m.filed = FALSE /\ m.result = "FAILED"
        /\ m.arch \/ Archived(a, d)
        /\ m \in Checkpoint
    <3>1. m = [phase |-> "PREPARING", owner |-> run[a].op, arch |-> arch, filed |-> FALSE,
               result |-> "FAILED"]
      BY <1>4, <2>1 DEF Loaded
    <3>2. run[a].op \in Op \cup {Nobody}
      BY Types DEF Memories
    <3>3. "PREPARING" \in Phase /\ "FAILED" \in Result
      BY DEF Phase, Rebuildable, Result
    <3> HIDE DEF m
    <3>4. m \in Checkpoint /\ m.phase = "PREPARING" /\ m.filed = FALSE /\ m.result = "FAILED" /\ m.arch = arch
      BY <3>1, <3>2, <3>3 DEF Checkpoint
    <3> QED
      BY <2>1, <3>4
  <2> HIDE DEF m
  <2>3. Archived(a, d) => Filed(a)
    <3>1. CASE Approving(a)
      BY <1>1, <3>1 DEF Archived, Task, Shape
    <3>2. CASE ~Approving(a)
      <4> SUFFICES ASSUME NEW e \in Of(a), hist[e] = "SUCCESS" PROVE Filed(a)
        BY <3>2 DEF Archived
      <4>1. Sound(e) /\ ApprovalOf[e] = a
        BY <1>1, Belongs DEF Task
      <4> QED
        BY <4>1 DEF Sound, Records, Files
    <3> QED
      BY <3>1, <3>2
  <2>4. Files(m) => Filed(a)
    BY <2>2, <2>3 DEF Files
  <2>5. registered[d] = 0 /\ ckpt[d].phase \in Rebuildable
    BY <1>1, <1>2, <1>4 DEF Sound, Records, Rebuildable
  <2> QED
    BY <2>2, <2>4, <2>5 DEF m, Settling, Uncertain
<1> QED
  BY <1>3, <1>4

(* A delivery is taken up. *)
LEMMA DeliverKeeps ==
  ASSUME Inv, NEW a \in Approval, NEW d \in Of(a), Deliver(a, d)
  PROVE  Keeps(a)
<1> DEFINE m == Loaded(a, d)
           place == IF NeedsLock(d, m.phase) THEN "lock" ELSE "clear"
           r == [run[a] EXCEPT !.item = d, !.mem = m, !.fresh = FALSE, !.err = "none", !.at = place]
<1>1. /\ d \in run[a].todo /\ ckpt[d].phase # "COMPLETE" /\ run' = [run EXCEPT ![a] = r]
      /\ UNCHANGED <<store, lock, notice, disk, faults, crashes, writeFailure, writeFails>>
  BY DEF Deliver, NothingStored
<1>2. /\ m \in Checkpoint /\ m.phase \notin {"NONE", "COMPLETE"} /\ m.result # "SUCCESS"
      /\ m.phase \in Rebuildable => registered[d] = 0 /\ ckpt[d].phase \in Rebuildable
      /\ m.phase \in Settling => registered[d] > 0
      /\ Files(m) => Filed(a)
      /\ PlatformOf[d] = Ozon /\ m.phase \in Uncertain => Secure(d)
  BY <1>1, LoadedFacts
<1>3. TypeOK /\ Task(a) /\ d \in Delivery /\ run[a] \in Memories
  BY Types, Belongs DEF Inv
<1>4. /\ place \in {"lock", "clear"}
      /\ place = "clear" => m.phase \in Rebuildable /\ PlatformOf[d] # Ozon
  BY DEF NeedsLock
<1> HIDE DEF m, place
<1>5. r \in Memories
  <2>1. place \in Place /\ "none" \in Error
    BY <1>4 DEF Place, Error
  <2> QED
    BY <1>2, <1>3, <2>1 DEF Memories
<1>6. run' \in [Approval -> Memories] /\ run'[a] = r /\ \A b \in Approval \ {a} : run'[b] = run[b]
  <2> HIDE DEF r
  <2> QED
    BY <1>1, <1>3, <1>5, PutFacts
<1>7. /\ r.op = run[a].op /\ r.item = d /\ r.todo = run[a].todo /\ r.ok = run[a].ok
      /\ r.bad = run[a].bad /\ r.filed = run[a].filed /\ r.at = place /\ r.mem = m
      /\ r.err = "none" /\ r.fresh = FALSE
  BY <1>3 DEF Memories
<1> HIDE DEF r
<1>8. /\ It(a)' = d /\ Pl(a)' = PlatformOf[d] /\ Mem(a)' = m /\ run'[a].at = place /\ run'[a].err = "none"
      /\ Filed(a)' = Filed(a) /\ UNCHANGED <<op, ckpt, hist, outbox, lock, staging, dest, registered>>
  BY <1>1, <1>6, <1>7 DEF It, Pl, Mem, Filed, store, disk, shared
<1>9. Knows(a)'
  <2>1. Remembers(a)'
    BY <1>1, <1>2, <1>4, <1>8 DEF Remembers, Building, At
  <2>2. Excludes(a)'
    BY <1>4, <1>8 DEF Excludes, Guarded, At
  <2>3. Proves(a)'
    BY <1>2, <1>4, <1>6, <1>7, <1>8 DEF Proves, Building, At, Secure
  <2> QED
    BY <2>1, <2>2, <2>3 DEF Knows
<1>10. Shape(a)'
  <2>1. ~At(a, "note")' /\ ~At(a, "return")' /\ Approving(a)' = Approving(a)
    BY <1>4, <1>6, <1>7, <1>8 DEF At, Approving
  <2> QED
    BY <1>1, <1>3, <1>6, <1>7, <1>8, <2>1 DEF Task, Shape
<1>11. Notes(a)'
  BY <1>4, <1>8 DEF Notes, At
<1>12. Succeeds(a)'
  BY <1>3, <1>8 DEF Task, Succeeds
<1>13. RowTypes' /\ CountTypes'
  BY <1>1, Types DEF RowTypes, CountTypes, store
<1>14. /\ run'[a].op \in OpsOf(a) \cup {Nobody} /\ run'[a].item \in Of(a) \cup {Nobody}
       /\ run'[a].todo \subseteq Of(a) /\ run'[a].ok \subseteq Of(a)
  BY <1>3, <1>6, <1>7 DEF TypeOK
<1> QED
  BY <1>1, <1>6, <1>8, <1>9, <1>10, <1>11, <1>12, <1>13, <1>14, TaskKeeps

(* A run that has ended, or not begun, knows nothing. *)
LEMMA IdleFacts ==
  /\ Idle \in Memories
  /\ Idle.op = Nobody /\ Idle.at = "idle" /\ Idle.todo = {} /\ Idle.item = Nobody /\ Idle.ok = {}
  /\ Idle.bad = {} /\ Idle.filed = FALSE
<1>1. NoCheckpoint \in Checkpoint
  BY DEF NoCheckpoint, Checkpoint, Phase, Rebuildable, Result
<1>2. "idle" \in Place /\ "none" \in Error
  BY DEF Place, Error
<1> QED
  BY <1>1, <1>2 DEF Idle, Memories

(* The status of an approval that has returned. *)
LEMMA ReturnedSucceeded ==
  ASSUME Inv, NEW a \in Approval, At(a, "return"), Approving(a), ResultStatus(a) = "SUCCEEDED"
  PROVE  Filed(a) /\ \A d \in Of(a) : hist[d] = "SUCCESS"
<1>1. Task(a)
  BY DEF Inv
<1>2. run[a].bad = {} /\ \A d \in run[a].ok : hist[d] # "PARTIAL_SUCCESS"
  BY DEF ResultStatus
<1>3. \A d \in Of(a) : hist[d] = "SUCCESS"
  <2> TAKE d \in Of(a)
  <2>1. d \in run[a].ok
    BY <1>1, <1>2 DEF Task, Shape
  <2>2. hist[d] \in Public
    BY <1>1, <2>1 DEF Task, Shape
  <2> QED
    BY <1>2, <2>1, <2>2 DEF Public
<1>4. PICK d \in Of(a) : TRUE
  BY MediaAssumption
<1>5. Sound(d) /\ ApprovalOf[d] = a
  BY <1>1, Belongs DEF Task
<1>6. Filed(a)
  BY <1>3, <1>5 DEF Sound, Records, Files
<1> QED
  BY <1>3, <1>6

(* A run ends. *)
LEMMA EndKeeps ==
  ASSUME Inv, NEW a \in Approval, End(a)
  PROVE  Keeps(a)
<1>1. /\ run' = [run EXCEPT ![a] = Idle]
      /\ UNCHANGED <<ckpt, hist, outbox, lock, notice, disk, faults, crashes>>
      /\ TypeOK /\ Task(a)
  BY DEF End, Inv
<1>2. run' \in [Approval -> Memories] /\ run'[a] = Idle /\ \A b \in Approval \ {a} : run'[b] = run[b]
  BY <1>1, IdleFacts, PutFacts
<1>3. PICK s \in Status :
        /\ op' = [op EXCEPT ![run[a].op] = s] \/ op' = op
        /\ s = "SUCCEEDED" => At(a, "return") /\ ResultStatus(a) = "SUCCEEDED"
  <2>1. ResultStatus(a) \in Status
    BY DEF ResultStatus, Status
  <2>2. \A err : ErrorStatuses(a, err) \subseteq Status \ {"SUCCEEDED"}
    BY DEF ErrorStatuses, Status, ActiveStatus
  <2>3. CASE \E s \in IF At(a, "return") THEN {ResultStatus(a)} ELSE ErrorStatuses(a, run[a].err) :
               op' = [op EXCEPT ![run[a].op] = s]
    <3>1. PICK s \in IF At(a, "return") THEN {ResultStatus(a)} ELSE ErrorStatuses(a, run[a].err) :
             op' = [op EXCEPT ![run[a].op] = s]
      BY <2>3
    <3>2. CASE At(a, "return")
      BY <2>1, <3>1, <3>2
    <3>3. CASE ~At(a, "return")
      BY <2>2, <3>1, <3>3
    <3> QED
      BY <3>2, <3>3
  <2>4. CASE \E err \in RawErrors : \E s \in ErrorStatuses(a, err) : op' = [op EXCEPT ![run[a].op] = s]
    <3>1. PICK err \in RawErrors : \E s \in ErrorStatuses(a, err) : op' = [op EXCEPT ![run[a].op] = s]
      BY <2>4
    <3> QED
      BY <2>2, <3>1
  <2>5. CASE UNCHANGED op
    BY <2>5 DEF Status
  <2> QED
    BY <2>3, <2>4, <2>5 DEF End
<1>4. CountTypes'
  <2>1. writeFails' \in 0..MaxWriteFail /\ writeFailure' \in BOOLEAN
    <3>1. MaxWriteFail \in Nat /\ writeFails \in 0..MaxWriteFail /\ writeFailure \in BOOLEAN
      BY Types, MediaAssumption DEF CountTypes
    <3>2. \/ Committed \/ Lost
          \/ writeFails < MaxWriteFail /\ writeFails' = writeFails + 1 /\ writeFailure' = FALSE
      BY DEF End
    <3>3. CASE writeFails < MaxWriteFail /\ writeFails' = writeFails + 1 /\ writeFailure' = FALSE
      <4>1. writeFails' \in 0..MaxWriteFail
        BY <3>1, <3>3
      <4>2. writeFailure' \in BOOLEAN
        BY <3>3
      <4> QED
        BY <4>1, <4>2
    <3> QED
      BY <3>2, <3>3, Types, Counted
  <2> QED
    BY <1>1, <2>1, Types DEF CountTypes
<1>5. RowTypes'
  <2>1. op' \in [Op -> Status]
    BY <1>3, Types DEF RowTypes
  <2> QED
    BY <1>1, <2>1, Types DEF RowTypes
<1>6. run[a].op \in OpsOf(a) \cup {Nobody}
  BY <1>1 DEF TypeOK
<1>7. \A b \in Approval \ {a} : op'[b] = op[b]
  <2> TAKE b \in Approval \ {a}
  <2>1. b \in Op /\ b # run[a].op
    BY <1>6, Belongs DEF Op
  <2> QED
    BY <1>3, <2>1, Types DEF RowTypes
<1>8. Knows(a)' /\ Notes(a)'
  BY <1>2, IdleFacts DEF Knows, Notes, Handles, At, InHand, Building, Guarded
<1>9. Shape(a)'
  <2>1. ~Approving(a)'
    BY <1>2, IdleFacts, Belongs DEF Approving
  <2>2. ~Handles(a)' /\ ~At(a, "note")'
    BY <1>2, IdleFacts DEF Handles, At, InHand, Building, Guarded
  <2> QED
    BY <1>2, <2>1, <2>2, IdleFacts DEF Shape
<1>10. Succeeds(a)'
  <2>1. Filed(a)' = Filed(a) /\ hist' = hist
    BY <1>1 DEF Filed, disk
  <2> SUFFICES ASSUME op'[a] = "SUCCEEDED" PROVE Filed(a) /\ \A d \in Of(a) : hist[d] = "SUCCESS"
    BY <2>1 DEF Succeeds
  <2>2. CASE op'[a] = op[a]
    BY <1>1, <2>2 DEF Task, Succeeds
  <2>3. CASE op'[a] # op[a]
    <3>1. run[a].op = a /\ s = "SUCCEEDED"
      BY <1>3, <2>3, Types DEF RowTypes, Op
    <3>2. Approving(a)
      BY <3>1 DEF Approving
    <3> QED
      BY <1>3, <3>1, <3>2, ReturnedSucceeded
  <2> QED
    BY <2>2, <2>3
<1> QED
  BY <1>1, <1>2, <1>4, <1>5, <1>7, <1>8, <1>9, <1>10, IdleFacts, TaskKeeps

(* A run begins. *)
LEMMA BeginKeeps ==
  ASSUME Inv, NEW o \in Op, Begin(o)
  PROVE  \E a \in Approval : Keeps(a)
<1>1. PICK a \in Approval : a = TaskOf(o) /\ o \in OpsOf(a)
  BY Belongs, MediaAssumption DEF TaskOf, Op, OpsOf
<1>2. /\ run[a].op = Nobody /\ op[o] \in {"QUEUED", "RETRY_WAIT"}
      /\ UNCHANGED <<ckpt, hist, outbox, lock, notice, disk, faults, crashes>>
      /\ TypeOK /\ Task(a)
  BY <1>1 DEF Begin, Inv
<1> DEFINE todo == IF o \in Approval THEN Of(a) ELSE {o}
           r == [Idle EXCEPT !.op = o, !.at = "next", !.todo = todo]
<1>3. CASE op' = [op EXCEPT ![o] = "RUNNING"] /\ run' = [run EXCEPT ![a] = r] /\ Committed
  <2>1. todo \subseteq Of(a) /\ (o \in Approval => o = a /\ todo = Of(a)) /\ todo \subseteq Delivery
    BY <1>1, Belongs DEF OpsOf, TaskOf
  <2> HIDE DEF todo
  <2>2. /\ r \in Memories /\ r.op = o /\ r.at = "next" /\ r.todo = todo /\ r.ok = {} /\ r.bad = {}
        /\ r.filed = FALSE /\ r.item = Nobody
    BY <2>1, IdleFacts DEF Memories, Place
  <2>3. run' \in [Approval -> Memories] /\ run'[a] = r /\ \A b \in Approval \ {a} : run'[b] = run[b]
    <3> HIDE DEF r
    <3> QED
      BY <1>2, <1>3, <2>2, PutFacts
  <2> HIDE DEF r
  <2>4. op' \in [Op -> Status] /\ op'[o] = "RUNNING" /\ \A b \in Op \ {o} : op'[b] = op[b]
    BY <1>3, Types DEF RowTypes, Status, ActiveStatus
  <2>5. RowTypes' /\ CountTypes'
    <3>1. RowTypes'
      BY <1>2, <2>4, Types DEF RowTypes
    <3> QED
      BY <1>2, <1>3, <3>1, Types, Counted DEF CountTypes
  <2>6. \A b \in Approval \ {a} : op'[b] = op[b]
    BY <1>1, <2>4, Belongs DEF Op
  <2>7. ~Handles(a)' /\ ~At(a, "note")' /\ ~At(a, "return")'
    BY <2>2, <2>3 DEF Handles, At, InHand, Building, Guarded
  <2>8. Knows(a)' /\ Notes(a)'
    BY <2>7 DEF Knows, Notes
  <2>9. Shape(a)'
    BY <2>1, <2>2, <2>3, <2>7 DEF Shape, Approving
  <2>10. Succeeds(a)'
    <3>1. Filed(a)' = Filed(a) /\ hist' = hist
      BY <1>2 DEF Filed, disk
    <3>2. op'[a] = "SUCCEEDED" => op[a] = "SUCCEEDED"
      BY <2>4 DEF Op
    <3> QED
      BY <1>2, <3>1, <3>2 DEF Task, Succeeds
  <2>11. Keeps(a)
    BY <1>1, <1>2, <2>1, <2>2, <2>3, <2>5, <2>6, <2>8, <2>9, <2>10, TaskKeeps
  <2> QED
    BY <2>11
<1>4. CASE Lost /\ UNCHANGED <<op, run>>
  <2>1. RowTypes' /\ CountTypes'
    <3>1. RowTypes'
      BY <1>2, <1>4, Types DEF RowTypes
    <3> QED
      BY <1>2, <1>4, <3>1, Types, Counted DEF CountTypes
  <2>2. Apart(a) /\ Spares(a)
    <3>1. \A d \in Delivery : Untouched(d)
      BY <1>2, <1>4 DEF Untouched, disk, shared
    <3> QED
      BY <1>2, <1>4, <3>1, Belongs DEF Apart, Spares, Locks, disk, shared
  <2>3. Task(a)'
    BY <1>2, <2>2, SparedKept
  <2>4. DiskTypes' /\ LockTypes' /\ OutboxTypes'
    BY <1>2, <1>4, Types DEF DiskTypes, LockTypes, OutboxTypes, notice, disk, shared
  <2>5. Keeps(a)
    BY <1>2, <1>4, <2>1, <2>2, <2>3, <2>4, Types DEF Keeps, TypeOK
  <2> QED
    BY <2>5
<1> QED
  BY <1>1, <1>3, <1>4 DEF Begin

---------------------------------------------------------------------------
(* Steps that are not of a run. *)

(* Steps that leave every task alone. *)
LEMMA AllSpared ==
  ASSUME Inv, UNCHANGED run, \A b \in Approval : Spares(b),
         RowTypes', DiskTypes', LockTypes', OutboxTypes', CountTypes'
  PROVE  Inv'
<1>1. \A b \in Approval : Task(b)'
  BY SparedKept DEF Inv
<1>2. TypeOK'
  BY DEF Inv, TypeOK, RowTypes, DiskTypes, LockTypes, OutboxTypes, CountTypes
<1> QED
  BY <1>1, <1>2 DEF Inv, OutboxTypes

(* An operation is accepted or continued. *)
LEMMA EnqueueInv ==
  ASSUME Inv, NEW o \in Op, Enqueue(o)
  PROVE  Inv'
<1>1. /\ op' = [op EXCEPT ![o] = "QUEUED"] /\ Committed
      /\ UNCHANGED <<ckpt, hist, outbox, run, lock, notice, disk, faults, crashes>>
  BY DEF Enqueue
<1>2. op' \in [Op -> Status] /\ \A b \in Op : op'[b] = op[b] \/ op'[b] = "QUEUED"
  BY <1>1, Types DEF RowTypes, Status, ActiveStatus
<1>3. \A b \in Approval : Spares(b)
  <2> TAKE b \in Approval
  <2>1. \A d \in Of(b) : Untouched(d)
    BY <1>1 DEF Untouched, disk, shared
  <2>2. op'[b] = op[b] \/ op'[b] # "SUCCEEDED"
    BY <1>2 DEF Op
  <2> QED
    BY <1>1, <2>1, <2>2 DEF Spares, disk, shared
<1>4. RowTypes' /\ DiskTypes' /\ LockTypes' /\ OutboxTypes'
  BY <1>1, <1>2, Types DEF RowTypes, DiskTypes, LockTypes, OutboxTypes, notice, disk, shared
<1>5. CountTypes'
  BY <1>1, Types, Counted DEF CountTypes
<1> QED
  BY <1>1, <1>3, <1>4, <1>5, AllSpared

(* Another write of the state file. *)
LEMMA OtherWriteInv ==
  ASSUME Inv, OtherWrite
  PROVE  Inv'
<1>1. UNCHANGED <<store, run, lock, notice, disk, faults, crashes>>
  BY DEF OtherWrite
<1>2. \A b \in Approval : Spares(b)
  BY <1>1 DEF Spares, Untouched, store, disk, shared
<1>3. RowTypes' /\ DiskTypes' /\ LockTypes' /\ OutboxTypes'
  BY <1>1, Types DEF RowTypes, DiskTypes, LockTypes, OutboxTypes, store, notice, disk, shared
<1>4. CountTypes'
  BY <1>1, Types, Counted DEF OtherWrite, CountTypes
<1> QED
  BY <1>1, <1>2, <1>3, <1>4, AllSpared

(* The outbox calls the service. *)
LEMMA AnnounceInv ==
  ASSUME Inv, NEW d \in Delivery, Announce(d)
  PROVE  Inv'
<1>1. /\ UNCHANGED <<store, run, lock, disk, crashes, writeFailure, writeFails>>
      /\ outbox[d] = "PENDING" /\ announced' = announced \cup {d}
      /\ sending = Nobody /\ sending' \in {d, Nobody} /\ (UNCHANGED faults \/ Fault)
  BY DEF Announce, NothingStored
<1>2. \A b \in Approval : Spares(b)
  BY <1>1 DEF Spares, Untouched, store, disk, shared
<1>3. RowTypes' /\ DiskTypes' /\ LockTypes'
  BY <1>1, Types DEF RowTypes, DiskTypes, LockTypes, store, disk, shared
<1>4. OutboxTypes'
  BY <1>1, Types DEF OutboxTypes, store
<1>5. CountTypes'
  BY <1>1, Types, Counted DEF CountTypes
<1> QED
  BY <1>1, <1>2, <1>3, <1>4, <1>5, AllSpared

(* The outbox notes that the service was told. *)
LEMMA SentInv ==
  ASSUME Inv, NEW d \in Delivery, Sent(d)
  PROVE  Inv'
<1>1. /\ UNCHANGED <<op, ckpt, hist, run, lock, announced, disk, faults, crashes>>
      /\ sending = d /\ sending' = Nobody
      /\ \/ outbox' = [outbox EXCEPT ![d] = "SENT"] /\ Committed
         \/ Lost /\ UNCHANGED outbox
  BY DEF Sent
<1>2. outbox[d] # "NONE"
  BY <1>1, Belongs DEF Inv
<1>3. /\ outbox' \in [Delivery -> {"NONE", "PENDING", "SENT"}]
      /\ \A e \in Delivery : (outbox'[e] = "NONE") = (outbox[e] = "NONE")
  BY <1>1, <1>2, Types DEF RowTypes
<1>4. \A b \in Approval : Spares(b)
  <2>1. \A e \in Delivery : Untouched(e)
    BY <1>1, <1>3 DEF Untouched, disk, shared
  <2> QED
    BY <1>1, <2>1, Belongs DEF Spares, disk, shared
<1>5. RowTypes' /\ DiskTypes' /\ LockTypes' /\ OutboxTypes'
  <2>1. RowTypes'
    BY <1>1, <1>3, Types DEF RowTypes
  <2> QED
    BY <1>1, <2>1, Types DEF DiskTypes, LockTypes, OutboxTypes, disk, shared
<1>6. CountTypes'
  BY <1>1, Types, Counted DEF CountTypes
<1> QED
  BY <1>1, <1>4, <1>5, <1>6, AllSpared

(* An empty directory is deleted. *)
LEMMA RemoveLeftoverInv ==
  ASSUME Inv, NEW d \in Delivery, RemoveLeftover(d)
  PROVE  Inv'
<1>1. /\ UNCHANGED <<store, run, lock, notice, shared, archiveTemp, archive, faults, crashes,
                     writeFailure, writeFails>>
      /\ staging[d] = "empty" /\ staging' = [staging EXCEPT ![d] = "absent"]
  BY DEF RemoveLeftover, NothingStored
<1>2. \A b \in Approval : Spares(b)
  <2>1. \A e \in Delivery : Untouched(e)
    BY <1>1, Types DEF Untouched, store, shared, DiskTypes
  <2> QED
    BY <1>1, <2>1, Belongs DEF Spares, store, shared
<1>3. RowTypes' /\ DiskTypes' /\ LockTypes' /\ OutboxTypes' /\ CountTypes'
  BY <1>1, Types DEF RowTypes, DiskTypes, LockTypes, OutboxTypes, CountTypes, store, notice, shared
<1> QED
  BY <1>1, <1>2, <1>3, AllSpared

(* The process ends: the rows and the disk stay as they are. *)
LEMMA CrashInv ==
  ASSUME Inv, Crash
  PROVE  Inv'
<1>1. /\ crashes < MaxCrash /\ crashes' = crashes + 1
      /\ op' = [o \in Op |-> IF op[o] = "RUNNING" THEN "QUEUED" ELSE op[o]]
      /\ run' = [a \in Approval |-> Idle] /\ lock' = [p \in Platform |-> Nobody]
      /\ sending' = Nobody /\ writeFailure' = FALSE
      /\ UNCHANGED <<ckpt, hist, outbox, announced, disk, faults, writeFails>>
  BY DEF Crash
<1>2. RowTypes' /\ DiskTypes' /\ LockTypes' /\ OutboxTypes' /\ CountTypes'
  <2>1. op' \in [Op -> Status]
    BY <1>1, Types DEF RowTypes, Status, ActiveStatus
  <2>2. RowTypes' /\ DiskTypes'
    BY <1>1, <2>1, Types DEF RowTypes, DiskTypes, disk, shared
  <2>3. LockTypes' /\ OutboxTypes'
    BY <1>1, Types DEF LockTypes, OutboxTypes
  <2>4. CountTypes'
    <3>1. MaxCrash \in Nat
      BY MediaAssumption
    <3>2. crashes' \in 0..MaxCrash /\ UNCHANGED <<faults, writeFails>>
      BY <1>1, <3>1, Types DEF CountTypes
    <3>3. writeFailure' \in BOOLEAN
      BY <1>1
    <3> QED
      BY <3>2, <3>3, Types DEF CountTypes
  <2> QED
    BY <2>2, <2>3, <2>4
<1>3. \A a \in Approval : Task(a)'
  <2> TAKE a \in Approval
  <2>1. run'[a] = Idle /\ Task(a)
    BY <1>1 DEF Inv
  <2>2. \A d \in Of(a) : Sound(d)'
    <3> TAKE d \in Of(a)
    <3>1. Sound(d) /\ d \in Delivery
      BY <2>1, Belongs DEF Task
    <3>2. Untouched(d) /\ archive \subseteq archive'
      BY <1>1 DEF Untouched, disk, shared
    <3>3. lock'[Ozon] # Cleaner
      BY <1>1, Belongs
    <3> QED
      BY <3>1, <3>2, <3>3, SoundKept
  <2>3. Knows(a)' /\ Notes(a)' /\ ~Handles(a)' /\ ~At(a, "note")' /\ ~Approving(a)'
    BY <2>1, IdleFacts, Belongs DEF Knows, Notes, Handles, At, Approving, InHand, Building, Guarded
  <2>4. Shape(a)'
    BY <2>1, <2>3, IdleFacts DEF Shape
  <2>5. Succeeds(a)'
    <3>1. Filed(a)' = Filed(a) /\ hist' = hist
      BY <1>1 DEF Filed, disk
    <3>2. op'[a] = "SUCCEEDED" => op[a] = "SUCCEEDED"
      BY <1>1 DEF Op
    <3> QED
      BY <2>1, <3>1, <3>2 DEF Task, Succeeds
  <2> QED
    BY <2>2, <2>3, <2>4, <2>5 DEF Task
<1>4. TypeOK'
  <2>1. run' \in [Approval -> Memories]
    BY <1>1, IdleFacts
  <2>2. \A a \in Approval : /\ run'[a].op \in OpsOf(a) \cup {Nobody} /\ run'[a].item \in Of(a) \cup {Nobody}
                           /\ run'[a].todo \subseteq Of(a) /\ run'[a].ok \subseteq Of(a)
    BY <1>1, IdleFacts
  <2> QED
    BY <1>2, <2>1, <2>2 DEF TypeOK, RowTypes, DiskTypes, LockTypes, OutboxTypes, CountTypes
<1> QED
  BY <1>2, <1>3, <1>4 DEF Inv, OutboxTypes

(* A cleanup of one platform concerns nobody who holds its lock, and nothing *)
(* that is in doubt.                                                         *)
LEMMA CleanInv ==
  ASSUME Inv, NEW p \in Platform,
         UNCHANGED <<store, run, notice, registered, archiveTemp, archive, faults, crashes,
                     writeFailure, writeFails>>,
         DiskTypes', LockTypes', lock[p] \notin Approval,
         \A q \in Platform \ {p} : lock'[q] = lock[q] /\ manifest'[q] = manifest[q],
         \A d \in Delivery \ On(p) : staging'[d] = staging[d] /\ (d \in dest' <=> d \in dest),
         \A d \in On(p) : Placed(d)',
         p = Ozon => \A d \in On(p) : Secure(d) => registered[d] > 0
  PROVE  Inv'
<1>1. UNCHANGED <<op, ckpt, hist, outbox, run, registered, archive>>
  BY DEF store
<1>2. RowTypes' /\ OutboxTypes' /\ CountTypes'
  BY <1>1, Types DEF RowTypes, OutboxTypes, CountTypes, notice
<1>3. \A d \in Delivery : d \in On(p) <=> PlatformOf[d] = p
  BY DEF On
<1>4. \A b \in Approval : Task(b)'
  <2> TAKE b \in Approval
  <2>1. Task(b)
    BY DEF Inv
  <2>2. \A d \in Of(b) : Sound(d)'
    <3> TAKE d \in Of(b)
    <3>1. Sound(d) /\ d \in Delivery /\ PlatformOf[d] \in Platform
      BY <2>1, Belongs DEF Task
    <3>2. Records(d)'
      BY <1>1, <3>1 DEF Sound, Records, Filed
    <3>3. Placed(d)'
      <4>1. CASE PlatformOf[d] = p
        BY <1>3, <3>1, <4>1
      <4>2. CASE PlatformOf[d] # p
        <5>1. /\ manifest'[PlatformOf[d]] = manifest[PlatformOf[d]] /\ staging'[d] = staging[d]
              /\ d \in dest' <=> d \in dest
          BY <1>3, <3>1, <4>2
        <5> QED
          BY <1>1, <3>1, <5>1 DEF Sound, Placed
      <4> QED
        BY <4>1, <4>2
    <3>4. Proven(d)'
      <4> SUFFICES ASSUME PlatformOf[d] = Ozon, ckpt[d].phase \in Uncertain PROVE Secure(d)'
        BY <1>1 DEF Proven
      <4>1. Secure(d)
        BY <3>1 DEF Sound, Proven
      <4>2. CASE p = Ozon
        BY <1>1, <1>3, <3>1, <4>1, <4>2 DEF Secure
      <4>3. CASE p # Ozon
        <5>1. lock'[Ozon] = lock[Ozon] /\ staging'[d] = staging[d] /\ (d \in dest' <=> d \in dest)
          BY <1>3, <3>1, <4>3, Belongs
        <5> QED
          BY <1>1, <4>1, <5>1 DEF Secure
      <4> QED
        BY <4>2, <4>3
    <3> QED
      BY <3>2, <3>3, <3>4 DEF Sound
  <2>3. /\ It(b)' = It(b) /\ Mem(b)' = Mem(b) /\ Pl(b)' = Pl(b) /\ Handles(b)' = Handles(b)
        /\ Filed(b)' = Filed(b) /\ Approving(b)' = Approving(b) /\ \A place : At(b, place)' = At(b, place)
    BY <1>1 DEF It, Mem, Pl, Handles, At, Filed, Approving
  <2>4. Knows(b)'
    <3>1. SUFFICES ASSUME Handles(b) PROVE Remembers(b)' /\ Excludes(b)' /\ Proves(b)'
      BY <2>3 DEF Knows
    <3>2. Remembers(b) /\ Excludes(b) /\ Proves(b) /\ It(b) \in Delivery
          /\ Pl(b) = PlatformOf[It(b)] /\ Pl(b) \in Platform
      BY <3>1, Hand
    <3>3. Remembers(b)'
      BY <1>1, <2>3, <3>2 DEF Remembers
    <3>4. Pl(b) # p => /\ lock'[Pl(b)] = lock[Pl(b)] /\ manifest'[Pl(b)] = manifest[Pl(b)]
                       /\ staging'[It(b)] = staging[It(b)] /\ (It(b) \in dest' <=> It(b) \in dest)
      BY <1>3, <3>2
    <3>5. Excludes(b)'
      BY <1>1, <2>3, <3>2, <3>4 DEF Excludes, At, Guarded
    <3>6. Proves(b)'
      <4> SUFFICES ASSUME Pl(b) = Ozon
                   PROVE  /\ run[b].at \in Building => lock'[Ozon] = b
                          /\ At(b, "lock") => ~run[b].fresh
                          /\ run[b].at \in {"verified", "inspect", "intend"} /\ Mem(b).phase \in Rebuildable
                               => staging'[It(b)] = "complete"
                          /\ Mem(b).phase \in Uncertain => Secure(It(b))'
        BY <1>1, <2>3 DEF Proves
      <4>1. CASE p = Ozon
        <5>1. run[b].at \notin Building \cup Guarded
          BY <3>2, <4>1 DEF Proves, Excludes
        <5>2. Mem(b).phase \in Uncertain => Secure(It(b))'
          <6>1. Mem(b).phase \in Uncertain => registered[It(b)] > 0
            BY <1>3, <3>2, <4>1 DEF Proves
          <6> QED
            BY <1>1, <2>3, <6>1 DEF Secure
        <5> QED
          BY <3>2, <5>1, <5>2 DEF Proves, Building, Guarded
      <4>2. CASE p # Ozon
        <5>1. Mem(b).phase \in Uncertain => Secure(It(b))'
          BY <1>1, <2>3, <3>2, <3>4, <4>2 DEF Proves, Secure
        <5> QED
          BY <3>2, <3>4, <4>2, <5>1 DEF Proves
      <4> QED
        BY <4>1, <4>2
    <3> QED
      BY <3>3, <3>5, <3>6
  <2>5. Shape(b)' /\ Notes(b)' /\ Succeeds(b)'
    BY <1>1, <2>1, <2>3 DEF Task, Shape, Notes, Succeeds
  <2> QED
    BY <2>2, <2>4, <2>5 DEF Task
<1>5. TypeOK'
  BY <1>1, <1>2 DEF Inv, TypeOK, RowTypes, DiskTypes, LockTypes, OutboxTypes, CountTypes
<1> QED
  BY <1>2, <1>4, <1>5 DEF Inv, OutboxTypes

(* A cleanup looks. *)
LEMMA CleanLookInv ==
  ASSUME Inv, NEW p \in Platform, CleanLook(p)
  PROVE  Inv'
<1>1. /\ lock[p] = Nobody /\ lock' = [lock EXCEPT ![p] = Cleaner] /\ dest \cap On(p) = manifest[p]
      /\ \A d \in On(p) : staging[d] = "absent"
      /\ UNCHANGED <<store, run, notice, disk, faults, crashes, writeFailure, writeFails>>
  BY DEF CleanLook, NothingStored
<1>2. DiskTypes' /\ LockTypes'
  BY <1>1, Types DEF DiskTypes, LockTypes, disk, shared
<1>3. \A d \in On(p) : Sound(d)
  BY Belongs DEF On, Inv, Task
<1>4. \A d \in On(p) : Placed(d)'
  BY <1>1, <1>3 DEF Sound, Placed, store, disk, shared
<1>5. \A d \in On(p) : Secure(d) => registered[d] > 0
  <2> SUFFICES ASSUME NEW d \in On(p), d \in dest PROVE registered[d] > 0
    BY <1>1 DEF Secure
  <2>1. d \in manifest[PlatformOf[d]]
    BY <1>1 DEF On
  <2> QED
    BY <1>3, <2>1 DEF Sound, Placed
<1>6. \A q \in Platform \ {p} : lock'[q] = lock[q]
  BY <1>1, Types DEF LockTypes
<1>7. UNCHANGED <<store, run, notice, registered, archiveTemp, archive, manifest, staging, dest>>
  BY <1>1 DEF disk, shared
<1> QED
  BY <1>1, <1>2, <1>4, <1>5, <1>6, <1>7, Belongs, CleanInv

(* A cleanup takes the directory away, or cannot. *)
LEMMA CleanMoveInv ==
  ASSUME Inv, NEW p \in Platform, CleanMove(p)
  PROVE  Inv'
<1>1. /\ lock[p] = Cleaner /\ lock' = [lock EXCEPT ![p] = Nobody]
      /\ \/ /\ manifest' = [manifest EXCEPT ![p] = {}] /\ dest' = dest \ On(p)
            /\ staging' = [d \in Delivery |-> IF d \in On(p) THEN "absent" ELSE staging[d]]
         \/ UNCHANGED <<manifest, dest, staging>>
      /\ UNCHANGED <<store, run, notice, registered, archiveTemp, archive, faults, crashes,
                     writeFailure, writeFails>>
  BY DEF CleanMove, NothingStored
<1>2. DiskTypes'
  BY <1>1, Types DEF DiskTypes
<1>3. LockTypes' /\ \A q \in Platform \ {p} : lock'[q] = lock[q]
  BY <1>1, Types DEF LockTypes
<1>4. \A q \in Platform \ {p} : manifest'[q] = manifest[q]
  BY <1>1, Types DEF DiskTypes
<1>5. \A d \in Delivery \ On(p) : staging'[d] = staging[d] /\ (d \in dest' <=> d \in dest)
  BY <1>1
<1>6. \A d \in On(p) : Placed(d)'
  <2> TAKE d \in On(p)
  <2>1. Sound(d) /\ d \in Delivery /\ PlatformOf[d] = p
    BY Belongs DEF On, Inv, Task
  <2>2. CASE UNCHANGED <<manifest, dest, staging>>
    BY <1>1, <2>1, <2>2 DEF Sound, Placed, store
  <2>3. CASE d \notin dest' /\ staging'[d] = "absent" /\ manifest'[p] = {}
    BY <2>1, <2>3 DEF Placed
  <2>4. \/ UNCHANGED <<manifest, dest, staging>>
        \/ (d \notin dest' /\ staging'[d] = "absent" /\ manifest'[p] = {})
    BY <1>1, <2>1, Types DEF DiskTypes
  <2> QED
    BY <2>2, <2>3, <2>4
<1>7. p = Ozon => \A d \in On(p) : Secure(d) => registered[d] > 0
  BY <1>1 DEF Secure
<1> QED
  BY <1>1, <1>2, <1>3, <1>4, <1>5, <1>6, <1>7, Belongs, CleanInv

---------------------------------------------------------------------------
(* The invariant. *)

(* It holds before anything is accepted. *)
LEMMA InitInv == Init => Inv
<1> SUFFICES ASSUME Init PROVE Inv
  OBVIOUS
<1>1. /\ op = [o \in Op |-> "ABSENT"] /\ ckpt = [d \in Delivery |-> NoCheckpoint]
      /\ hist = [d \in Delivery |-> "NONE"] /\ outbox = [d \in Delivery |-> "NONE"]
      /\ run = [a \in Approval |-> Idle] /\ lock = [p \in Platform |-> Nobody]
      /\ sending = Nobody /\ announced = {} /\ writeFailure = FALSE
      /\ manifest = [p \in Platform |-> {}] /\ dest = {} /\ archive = {}
      /\ staging = [d \in Delivery |-> "absent"] /\ archiveTemp = [d \in Delivery |-> "absent"]
      /\ registered = [d \in Delivery |-> 0] /\ faults = 0 /\ crashes = 0 /\ writeFails = 0
  BY DEF Init
<1>2. NoCheckpoint \in Checkpoint /\ NoCheckpoint.phase = "NONE" /\ NoCheckpoint.result = "FAILED"
  BY DEF NoCheckpoint, Checkpoint, Phase, Rebuildable, Result
<1>3. RowTypes
  BY <1>1, <1>2 DEF RowTypes, Status
<1>4. DiskTypes
  BY <1>1 DEF DiskTypes
<1>5. LockTypes /\ OutboxTypes
  BY <1>1 DEF LockTypes, OutboxTypes
<1>6. CountTypes
  <2>1. MaxFaults \in Nat /\ MaxCrash \in Nat /\ MaxWriteFail \in Nat
    BY MediaAssumption
  <2>2. faults \in 0..MaxFaults /\ crashes \in 0..MaxCrash /\ writeFails \in 0..MaxWriteFail
    BY <1>1, <2>1
  <2>3. writeFailure \in BOOLEAN
    BY <1>1
  <2> QED
    BY <2>2, <2>3 DEF CountTypes
<1>7. run \in [Approval -> Memories] /\ \A a \in Approval : run[a] = Idle
  BY <1>1, IdleFacts
<1>8. TypeOK
  <2>1. \A a \in Approval : /\ run[a].op \in OpsOf(a) \cup {Nobody} /\ run[a].item \in Of(a) \cup {Nobody}
                           /\ run[a].todo \subseteq Of(a) /\ run[a].ok \subseteq Of(a)
    BY <1>7, IdleFacts
  <2> QED
    BY <1>3, <1>4, <1>5, <1>6, <1>7, <2>1 DEF TypeOK, RowTypes, DiskTypes, LockTypes, OutboxTypes, CountTypes
<1>9. \A a \in Approval : Task(a)
  <2> TAKE a \in Approval
  <2>1. \A d \in Of(a) : Sound(d)
    <3> TAKE d \in Of(a)
    <3>1. d \in Delivery /\ PlatformOf[d] \in Platform
      BY Belongs
    <3>2. Records(d)
      BY <1>1, <1>2, <3>1 DEF Records, Settling
    <3>3. Placed(d) /\ Proven(d)
      BY <1>1, <1>2, <3>1 DEF Placed, Proven, Uncertain
    <3> QED
      BY <3>2, <3>3 DEF Sound
  <2>2. Knows(a) /\ Notes(a) /\ ~Handles(a) /\ ~At(a, "note") /\ ~Approving(a)
    BY <1>7, IdleFacts, Belongs DEF Knows, Notes, Handles, At, Approving, InHand, Building, Guarded
  <2>3. Shape(a)
    BY <1>7, <2>2, IdleFacts DEF Shape
  <2>4. Succeeds(a)
    BY <1>1 DEF Succeeds, Op
  <2> QED
    BY <2>1, <2>2, <2>3, <2>4 DEF Task
<1> QED
  BY <1>1, <1>8, <1>9 DEF Inv

(* Every step of a run keeps it. *)
LEMMA WorkKeeps ==
  ASSUME Inv, NEW a \in Approval, Work(a)
  PROVE  Keeps(a)
<1>1. CASE Refuse(a) \/ Lock(a) \/ Clear(a) \/ Build(a) \/ BuildFails(a)
  BY <1>1, RefuseKeeps, LockKeeps, ClearKeeps, BuildKeeps, BuildFailsKeeps
<1>2. CASE \E d \in Of(a) : Deliver(a, d) \/ Skip(a, d)
  BY <1>2, DeliverKeeps, SkipKeeps
<1>3. CASE Verify(a) \/ Inspect(a) \/ Intend(a) \/ Rename(a) \/ RenameFails(a)
  BY <1>3, VerifyKeeps, InspectKeeps, IntendKeeps, RenameKeeps, BreakKeeps
<1>4. CASE Read(a) \/ Write(a) \/ Break(a) \/ Archive(a) \/ ArchiveFails(a)
  BY <1>4, ReadKeeps, WriteKeeps, BreakKeeps, ArchiveKeeps
<1>5. CASE Save(a) \/ Catch(a) \/ Note(a) \/ Conclude(a) \/ End(a)
  BY <1>5, SaveKeeps, CatchKeeps, NoteKeeps, ConcludeKeeps, EndKeeps
<1> QED
  BY <1>1, <1>2, <1>3, <1>4, <1>5 DEF Work

(* Every step keeps it. *)
LEMMA NextInv == Inv /\ [Next]_vars => Inv'
<1> SUFFICES ASSUME Inv, [Next]_vars PROVE Inv'
  OBVIOUS
<1>1. CASE \E a \in Approval : Work(a)
  BY <1>1, WorkKeeps, KeepsInv
<1>2. CASE \/ \E a \in Approval : Accept(a)
           \/ \E o \in Op : Requeue(o)
           \/ \E d \in Delivery : AcceptRetry(d)
  BY <1>2, EnqueueInv DEF Accept, Requeue, AcceptRetry, Op
<1>3. CASE \E o \in Op : Begin(o)
  BY <1>3, BeginKeeps, KeepsInv
<1>4. CASE \E d \in Delivery : RemoveLeftover(d)
  BY <1>4, RemoveLeftoverInv
<1>5. CASE \E p \in Platform : CleanLook(p) \/ CleanMove(p)
  BY <1>5, CleanLookInv, CleanMoveInv
<1>6. CASE Tick \/ OtherWrite \/ Crash
  BY <1>6, AnnounceInv, SentInv, OtherWriteInv, CrashInv DEF Tick
<1>7. CASE UNCHANGED vars
  <2>1. UNCHANGED <<store, run, lock, notice, disk, faults, crashes, writeFailure, writeFails>>
    BY <1>7 DEF vars
  <2>2. \A b \in Approval : Spares(b)
    BY <2>1 DEF Spares, Untouched, store, disk, shared
  <2>3. RowTypes' /\ DiskTypes' /\ LockTypes' /\ OutboxTypes' /\ CountTypes'
    BY <2>1, Types DEF RowTypes, DiskTypes, LockTypes, OutboxTypes, CountTypes, store, notice, disk, shared
  <2> QED
    BY <2>1, <2>2, <2>3, AllSpared
<1> QED
  BY <1>1, <1>2, <1>3, <1>4, <1>5, <1>6, <1>7 DEF Next

(* What the rows say of a delivery, what lies on the disk and what the runs *)
(* have in mind agree in every reachable state.                             *)
THEOREM Invariance == Spec => []Inv
<1> QED
  BY InitInv, NextInv, PTL DEF Spec

---------------------------------------------------------------------------
(* What follows. *)

(* The variables have the types that TypeOK states. *)
THEOREM TypeCorrect == Spec => []TypeOK
<1>1. Inv => TypeOK
  BY DEF Inv
<1> QED
  BY <1>1, Invariance, PTL

(* Every delivery is sound. *)
LEMMA AllSound ==
  ASSUME Inv
  PROVE  \A d \in Delivery : Sound(d) /\ registered[d] \in Nat
BY Types, Belongs DEF Inv, Task, DiskTypes

(* However often a delivery is retried and wherever it crashed, its media   *)
(* are written to the manifest at most once (deliver, updateManifest).      *)
THEOREM MediaRegisteredOnce == Spec => []RegisteredOnce
<1>1. Inv => RegisteredOnce
  BY AllSound DEF RegisteredOnce, Sound, Records
<1> QED
  BY <1>1, Invariance, PTL

(* Checkpoint, history and outbox agree with the manifest, and what is in   *)
(* doubt can be settled: in every state, although three writes make them    *)
(* (deliver, saveCheckpoint and their callers).                             *)
THEOREM RecordsAgreeAlways == Spec => []RecordsAgree
<1>1. Inv => RecordsAgree
  <2> SUFFICES ASSUME Inv PROVE RecordsAgree
    OBVIOUS
  <2>1. CheckpointTellsTruth
    BY AllSound DEF CheckpointTellsTruth, Sound, Records, Settling
  <2>2. EvidenceKept
    <3> SUFFICES ASSUME NEW d \in On(Ozon), ckpt[d].phase \in Uncertain, registered[d] = 0
                 PROVE  staging[d] = "complete" \/ d \in dest
      BY DEF EvidenceKept
    <3>1. Sound(d) /\ PlatformOf[d] = Ozon
      BY AllSound DEF On
    <3> QED
      BY <3>1 DEF Sound, Proven, Secure
  <2>3. HistoryAgrees
    BY AllSound DEF HistoryAgrees, Sound, Records, Settling
  <2> QED
    BY <2>1, <2>2, <2>3 DEF RecordsAgree
<1> QED
  BY <1>1, Invariance, PTL

(* An approval that succeeded has delivered to all of its platforms and is  *)
(* archived (approveTask, retrySubmission).                                 *)
THEOREM SuccessIsDelivered == Spec => []SucceededMeansDelivered
<1>1. Inv => SucceededMeansDelivered
  BY DEF Inv, Task, Succeeds, Filed, SucceededMeansDelivered
<1> QED
  BY <1>1, Invariance, PTL

(* Two steps write to the manifests: one that registers, under the lock,    *)
(* what has been read and one delivery more, and the cleanup.               *)
LEMMA ManifestStep ==
  Inv /\ [Next]_vars => \A p \in Platform : manifest[p] \subseteq manifest'[p] \/ manifest'[p] = {}
<1> SUFFICES ASSUME Inv, [Next]_vars
             PROVE  \A p \in Platform : manifest[p] \subseteq manifest'[p] \/ manifest'[p] = {}
  OBVIOUS
<1>1. ASSUME NEW a \in Approval, Write(a)
      PROVE  \A p \in Platform : manifest[p] \subseteq manifest'[p]
  <2>1. Handles(a) /\ At(a, "write")
    BY <1>1 DEF Write, At, Handles, InHand, Guarded
  <2>2. run[a].base = manifest[Pl(a)] /\ Pl(a) \in Platform
    BY <2>1, Hand DEF Excludes
  <2> QED
    BY <1>1, <2>2, Types DEF Write, DiskTypes
<1>2. ASSUME NEW q \in Platform, CleanMove(q)
      PROVE  \A p \in Platform : manifest'[p] = manifest[p] \/ manifest'[p] = {}
  BY <1>2, Types DEF CleanMove, DiskTypes
<1>3. ASSUME NEW a \in Approval, Work(a), ~Write(a)
      PROVE  UNCHANGED manifest
  <2>1. CASE Refuse(a) \/ Lock(a) \/ Clear(a) \/ Build(a) \/ BuildFails(a)
    BY <2>1 DEF Refuse, Lock, Clear, Build, BuildFails, disk, shared
  <2>2. CASE \E d \in Of(a) : Deliver(a, d) \/ Skip(a, d)
    BY <2>2 DEF Deliver, Skip, disk, shared
  <2>3. CASE Verify(a) \/ Inspect(a) \/ Intend(a) \/ Rename(a) \/ RenameFails(a)
    BY <2>3 DEF Verify, Inspect, Intend, SaveCheckpoint, Rename, RenameFails, disk, shared
  <2>4. CASE Read(a) \/ Break(a) \/ Archive(a) \/ ArchiveFails(a)
    BY <2>4 DEF Read, Break, Archive, ArchiveFails, disk, shared
  <2>5. CASE Save(a) \/ Catch(a) \/ Note(a) \/ Conclude(a) \/ End(a)
    BY <2>5 DEF Save, Catch, Note, Conclude, End, disk, shared
  <2> QED
    BY <1>3, <2>1, <2>2, <2>3, <2>4, <2>5 DEF Work
<1>4. CASE \/ \E a \in Approval : Accept(a)
           \/ \E o \in Op : Requeue(o) \/ Begin(o)
           \/ \E d \in Delivery : AcceptRetry(d) \/ RemoveLeftover(d)
  BY <1>4 DEF Accept, Requeue, Begin, AcceptRetry, RemoveLeftover, Enqueue, disk, shared
<1>5. CASE \/ \E p \in Platform : CleanLook(p)
           \/ Tick \/ OtherWrite \/ Crash \/ UNCHANGED vars
  BY <1>5 DEF CleanLook, Tick, Announce, Sent, OtherWrite, Crash, vars, disk, shared
<1> QED
  BY <1>1, <1>2, <1>3, <1>4, <1>5 DEF Next

(* Tasks of a SKU that are delivered at the same time keep each other's     *)
(* media in the manifest (updateManifest under withSkuLock).                *)
THEOREM ManifestKept == Spec => ManifestKeepsOthers
<1> QED
  BY Invariance, ManifestStep, PTL DEF Spec, ManifestKeepsOthers
=============================================================================
