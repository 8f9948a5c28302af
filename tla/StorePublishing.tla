-------------------------- MODULE StorePublishing --------------------------
(***************************************************************************)
(* Several Wildberries stores publish one SKU from one shared draft.       *)
(*                                                                         *)
(*   job      wb_auto_publish_jobs: one run per store, with its preset     *)
(*   skuLock  the advisory lock the workers take for the SKU               *)
(*   root     the root configuration lock, while it outlives a statement   *)
(*   lease    the row of wb_auto_generation_leases for the SKU             *)
(*   draft    the row of wb_listing_drafts; gen is its generated version   *)
(*   pub      wb_store_publications: how many the run froze, the status,   *)
(*            and the version it was frozen from                           *)
(*   net      the request on its way to n8n, and the task in n8n           *)
(*   work     what each worker holds while it takes one job forward        *)
(*   upsets   how many faults and user actions have happened               *)
(*                                                                         *)
(* A worker claims a job, takes the SKU lock, waits for its turn to        *)
(* generate, renews the lease ("fences") before each write of the draft,   *)
(* freezes a version for its store, gives the turn up and dispatches.      *)
(*                                                                         *)
(* CHECKING stands for CHECKING, INITIALIZING and GENERATING, QUEUED for   *)
(* QUEUED and RUNNING.  The lease of 60 seconds on the job row is left     *)
(* out: a job's own transitions clear it, so what keeps a second worker    *)
(* away is the SKU lock.  A version is what its contents say:              *)
(* for which preset, and whether media were assigned; an id no row uses    *)
(* any more may come again.  Manual drafts, new media, pauses, cards that  *)
(* exist already, COMPATIBLE_UPSERT and scheduled retries are left out.    *)
(***************************************************************************)
EXTENDS Integers, FiniteSets

CONSTANTS
  Store,      \* the stores of the SKU
  Default,    \* the store whose user actions share the workers' lock key
  MaxWork,    \* jobs in progress at a time, over all processes
  MaxUpsets,  \* crashes, failures, refusals, lost messages and user actions; a
              \* stall counts as two
  None

ASSUME StoreAssumption ==
  /\ IsFiniteSet(Store) /\ Default \in Store
  /\ MaxWork \in Nat \ {0} /\ MaxUpsets \in Nat
  /\ None \notin Store \union Nat

VARIABLES job, skuLock, root, lease, draft, pub, net, work, upsets

vars == <<job, skuLock, root, lease, draft, pub, net, work, upsets>>

Worker == 1 .. MaxWork

Terminal == {"SUCCEEDED", "CANCELLED"}
Cancellable == {"WAITING_STABLE", "WAITING_GENERATION_TURN", "CHECKING",
                "NEEDS_ATTENTION", "FAILED"}
Recheckable == {"WAITING_STABLE", "NEEDS_ATTENTION", "FAILED"}
Claimable == {"WAITING_STABLE", "WAITING_GENERATION_TURN", "CHECKING", "SUBMITTING",
              "WAITING_NETWORK"}
Unsent == {"PLANNED", "DISPATCHING", "NEEDS_ATTENTION"}

Nothing == [id |-> 0, preset |-> None, whole |-> FALSE]
NoLease == [owner |-> None, tok |-> 0, live |-> FALSE]
Idle == [pc |-> "idle", of |-> None, saw |-> FALSE, tok |-> 0, ok |-> FALSE,
         fresh |-> FALSE, src |-> Nothing, st |-> "none"]

\* A preset is named after a store that uses it: stores share one or not.
Init ==
  /\ \E preset \in [Store -> Store] :
       /\ \A s \in Store : preset[preset[s]] = preset[s]
       /\ preset[Default] = Default
       /\ job = [s \in Store |-> [st |-> "WAITING_STABLE", preset |-> preset[s],
                                  linked |-> FALSE, known |-> FALSE]]
  /\ skuLock = None
  /\ root = None
  /\ lease = NoLease
  /\ draft = [st |-> "none", owner |-> None, preset |-> None, media |-> "none", gen |-> Nothing]
  /\ pub = [s \in Store |-> [n |-> 0, st |-> "none", src |-> Nothing]]
  /\ net = [s \in Store |-> [req |-> FALSE, task |-> "none"]]
  /\ work = [w \in Worker |-> Idle]
  /\ upsets = 0

Upset(cost) == upsets + cost <= MaxUpsets /\ upsets' = upsets + cost

At(w, pc) == work[w].pc = pc
Of(w) == work[w].of
Goto(w, pc) == work' = [work EXCEPT ![w].pc = pc, ![w].ok = FALSE]

---------------------------------------------------------------------------
(* The generation lease. *)

Mine(w) == lease.owner = Of(w) /\ lease.tok = work[w].tok /\ lease.live
Held(w) == work[w].tok > 0 /\ lease.owner = Of(w) /\ lease.tok = work[w].tok

\* releaseGenerationLease deletes the row the token names, expired or not.
Released(w) == IF Held(w) THEN NoLease ELSE lease

Frozen(s) == pub[s].n > 0

\* Mutant: a lease whose holder is gone can only be taken by its own store.
MayTakeUnexpired(s) == lease.owner = s \/ Frozen(lease.owner)

\* The state of the owner's job is no reason to take its turn away.
MayTake(s) == lease.owner = s \/ ~lease.live \/ Frozen(lease.owner)

---------------------------------------------------------------------------
(* How a worker moves a job, and how it ends. *)

\* transition: a job in a terminal state stays there (TASK_LOCKED).
Moved(s, st) == IF job[s].st \in Terminal THEN job ELSE [job EXCEPT ![s].st = st]

Leave(w) ==
  /\ work' = [work EXCEPT ![w] = Idle]
  /\ skuLock' = IF skuLock = w THEN None ELSE skuLock
  /\ lease' = Released(w)

\* processJob ends: the finally block, and what handleJobError makes of an error.
Exit(w, st) == Leave(w) /\ job' = Moved(Of(w), st)

\* The same, with the task id of the publication.
ExitKnown(w, st) ==
  /\ Leave(w)
  /\ job' = IF job[Of(w)].st \in Terminal THEN job
            ELSE [job EXCEPT ![Of(w)].st = st, ![Of(w)].known = TRUE]

\* claimDue and withSkuLock: a job refused the lock is given back, so a claim is
\* one step.  Any free worker may take the job: which one makes no difference.
\* A job that waited for the network resumes in the state it was claimed in then.
Claim(w, s) ==
  /\ At(w, "idle") /\ \A v \in 1 .. (w - 1) : ~At(v, "idle")
  /\ skuLock = None
  /\ job[s].st \in Claimable
  /\ skuLock' = w
  /\ \E saw \in IF job[s].st = "WAITING_NETWORK" THEN BOOLEAN ELSE {job[s].st = "SUBMITTING"} :
       work' = [work EXCEPT ![w] = [Idle EXCEPT !.pc = "begin", !.of = s, !.saw = saw]]
  /\ UNCHANGED <<job, root, lease, draft, pub, net, upsets>>

\* syncPublication: the status of the runtime task, if there is one.
Mapped(task) == IF task = "BLOCKED" THEN "NEEDS_ATTENTION" ELSE task
Synced(s) == IF net[s].task = "none" THEN pub[s].st ELSE Mapped(net[s].task)

\* A publication the run has frozen is taken up where it stands.
Begin(w) ==
  LET s == Of(w) IN
  /\ At(w, "begin")
  /\ \/ /\ ~Frozen(s)
        /\ work' = [work EXCEPT ![w].pc = "turn", ![w].saw = FALSE]
        /\ UNCHANGED <<job, skuLock, lease, pub>>
     \/ /\ Frozen(s)
        /\ pub' = [pub EXCEPT ![s].st = Synced(s)]
        /\ LET linked == [job EXCEPT ![s].linked = TRUE]
               stopped == job[s].st \in Terminal
           IN  \/ /\ Synced(s) \notin Unsent
                  /\ Leave(w)
                  /\ job' = IF stopped THEN linked
                            ELSE [linked EXCEPT ![s].st = Synced(s), ![s].known = TRUE]
               \/ /\ Synced(s) \in Unsent /\ stopped /\ ~work[w].saw
                  /\ Leave(w)
                  /\ job' = linked
               \/ /\ Synced(s) \in Unsent /\ (~stopped \/ work[w].saw)
                  /\ job' = IF work[w].saw THEN linked ELSE [linked EXCEPT ![s].st = "SUBMITTING"]
                  /\ work' = [work EXCEPT ![w].pc = "dispatch", ![w].st = Synced(s),
                                                 ![w].saw = FALSE]
                  /\ UNCHANGED <<skuLock, lease>>
  /\ UNCHANGED <<root, draft, net, upsets>>

Then(w, pc) == [work[w] EXCEPT !.pc = pc, !.ok = FALSE]

\* The lease is renewed before each of these steps, not within it; most of them
\* announce themselves in the job's state first.
Fenced == {"create", "rebuild", "scan", "assign", "reserve"}
Silent == {"scan", "assign"}

Fence(w) ==
  LET s == Of(w)
      stopped == work[w].pc \notin Silent /\ job[s].st \in Terminal
  IN
  /\ work[w].pc \in Fenced /\ ~work[w].ok
  /\ IF Mine(w) /\ ~stopped
     THEN /\ work' = [work EXCEPT ![w].ok = TRUE]
          /\ job' = IF work[w].pc \in Silent THEN job ELSE [job EXCEPT ![s].st = "CHECKING"]
          /\ UNCHANGED <<skuLock, lease>>
     ELSE Exit(w, "WAITING_GENERATION_TURN")
  /\ UNCHANGED <<root, draft, pub, net, upsets>>

---------------------------------------------------------------------------
(* The shared draft. *)

Ready(w, pc) == At(w, pc) /\ work[w].ok

\* The draft's version moves on: copies the other workers hold are out of date.
Bumped(w, next) ==
  [v \in Worker |-> IF v = w THEN next ELSE [work[v] EXCEPT !.fresh = FALSE]]

\* Is the generated version for another preset, or its owner's run not frozen from it?
Rebuilding(s) ==
  LET frozen == Frozen(draft.owner) /\ pub[draft.owner].src = draft.gen
  IN  \/ draft.gen # Nothing /\ draft.gen.preset # job[s].preset
      \/ draft.owner # s /\ ~(draft.gen # Nothing /\ frozen)

Onward(w) ==
  IF draft.st = "GENERATED"
  THEN [Then(w, "vouch") EXCEPT !.src = draft.gen] ELSE Then(w, "scan")

\* claimGenerationLease; under the lease the draft is read and its fate decided.
Turn(w) ==
  LET s == Of(w)
      next == IF draft.st = "none" THEN Then(w, "create")
              ELSE IF Rebuilding(s) THEN Then(w, "rebuild") ELSE Onward(w)
      take(tok) == /\ job[s].st \notin Terminal
                   /\ lease' = [owner |-> s, tok |-> tok, live |-> TRUE]
                   /\ job' = [job EXCEPT ![s].st = "CHECKING"]
                   /\ work' = [work EXCEPT ![w] = [next EXCEPT !.tok = tok]]
                   /\ UNCHANGED skuLock
  IN
  /\ At(w, "turn")
  /\ \/ lease.owner = None /\ take(1)
     \/ lease.owner # None /\ MayTake(s) /\ take(lease.tok + 1)
     \/ lease.owner # None /\ ~MayTake(s) /\ Exit(w, "WAITING_GENERATION_TURN")
     \* a job that was cancelled takes its turn and lets go of it
     \/ /\ job[s].st \in Terminal
        /\ Leave(w) /\ UNCHANGED job
  /\ UNCHANGED <<root, draft, pub, net, upsets>>

\* createListing: ON CONFLICT DO NOTHING.
Create(w) ==
  /\ Ready(w, "create") /\ root = None
  /\ draft' = IF draft.st # "none" THEN draft
              ELSE [st |-> "DRAFT", owner |-> Of(w), preset |-> job[Of(w)].preset,
                    media |-> "none", gen |-> Nothing]
  /\ work' = [work EXCEPT ![w] = Then(w, "look")]
  /\ UNCHANGED <<job, skuLock, root, lease, pub, net, upsets>>

\* replaceInitializedListing checks the lease once more in its transaction; it
\* does not wait for a generation in progress.
Rebuild(w) ==
  /\ Ready(w, "rebuild")
  /\ IF Mine(w)
     THEN /\ draft' = [draft EXCEPT !.st = "STALE", !.owner = Of(w), !.media = "none",
                                    !.preset = job[Of(w)].preset]
          /\ work' = Bumped(w, Then(w, "look"))
          /\ UNCHANGED <<job, skuLock, lease>>
     ELSE Exit(w, "WAITING_GENERATION_TURN") /\ UNCHANGED draft
  /\ UNCHANGED <<root, pub, net, upsets>>

\* The draft is read again after it was created or rebuilt.
Look(w) ==
  /\ At(w, "look")
  /\ IF job[Of(w)].st \in Terminal THEN Exit(w, "CANCELLED")
     ELSE /\ work' = [work EXCEPT ![w] = Onward(w)]
          /\ UNCHANGED <<job, skuLock, lease>>
  /\ UNCHANGED <<root, draft, pub, net, upsets>>

Outdated == IF draft.gen = Nothing THEN "DRAFT" ELSE "STALE"

\* replaceMediaAssets: the draft moves only if the directory has changed.
Scan(w) ==
  LET next == [Then(w, "assign") EXCEPT !.fresh = TRUE] IN
  /\ Ready(w, "scan") /\ root = None
  /\ IF draft.media = "none"
     THEN /\ draft' = [draft EXCEPT !.media = "scanned",
                                    !.st = IF draft.gen = Nothing THEN @ ELSE "STALE"]
          /\ work' = Bumped(w, next)
     ELSE /\ work' = [work EXCEPT ![w] = next]
          /\ UNCHANGED draft
  /\ UNCHANGED <<job, skuLock, root, lease, pub, net, upsets>>

Assign(w) ==
  /\ Ready(w, "assign") /\ root = None
  /\ IF work[w].fresh
     THEN /\ draft' = [draft EXCEPT !.st = Outdated, !.owner = Of(w), !.media = "assigned"]
          /\ work' = Bumped(w, Then(w, "reserve"))
          /\ UNCHANGED <<job, skuLock, lease>>
     ELSE Exit(w, "NEEDS_ATTENTION") /\ UNCHANGED draft
  /\ UNCHANGED <<root, pub, net, upsets>>

InUse == {draft.gen.id} \union {work[w].src.id : w \in Worker} \union {pub[s].src.id : s \in Store}
Fresh == CHOOSE i \in 1 .. Cardinality(InUse) + 1 : i \notin InUse

\* reserveGeneration takes a copy of the draft; generate keeps the root locked.
Reserve(w) ==
  /\ Ready(w, "reserve") /\ root = None
  /\ IF work[w].fresh /\ draft.st # "GENERATING"
     THEN /\ root' = w
          /\ draft' = [draft EXCEPT !.st = "GENERATING", !.owner = Of(w)]
          /\ work' = [work EXCEPT ![w] = [Then(w, "generate") EXCEPT !.fresh = FALSE, !.src =
                        [id |-> Fresh, preset |-> draft.preset, whole |-> draft.media = "assigned"]]]
          /\ UNCHANGED <<job, skuLock, lease>>
     ELSE Exit(w, "NEEDS_ATTENTION") /\ UNCHANGED <<root, draft>>
  /\ UNCHANGED <<pub, net, upsets>>

\* completeGeneration points the draft at the version, whoever owns it by now.
Complete(w) ==
  /\ At(w, "generate")
  /\ draft' = [draft EXCEPT !.st = "GENERATED", !.gen = work[w].src]
  /\ root' = None
  /\ Goto(w, "vouch")
  /\ UNCHANGED <<job, skuLock, lease, pub, net, upsets>>

\* Mutant: the root configuration lock is not given back.
FailGenerationLocked(w) ==
  /\ At(w, "generate")
  /\ Upset(1)
  /\ draft' = [draft EXCEPT !.st = Outdated]
  /\ Exit(w, "NEEDS_ATTENTION")
  /\ UNCHANGED <<root, pub, net>>

FailGeneration(w) ==
  /\ At(w, "generate")
  /\ Upset(1)
  /\ draft' = [draft EXCEPT !.st = Outdated]
  /\ root' = None
  /\ Exit(w, "NEEDS_ATTENTION")
  /\ UNCHANGED <<pub, net>>

---------------------------------------------------------------------------
(* Freezing a version for the store. *)

\* Mutant: a version generated for another preset passes.
VouchedForAll(s, version) == TRUE

\* assertGeneratedVersionPreset
Vouched(s, version) == version.preset = job[s].preset

Vouch(w) ==
  LET s == Of(w) IN
  /\ At(w, "vouch")
  /\ IF ~Vouched(s, work[w].src) THEN Exit(w, "NEEDS_ATTENTION")
     ELSE IF ~Mine(w) \/ job[s].st \in Terminal THEN Exit(w, "WAITING_GENERATION_TURN")
     ELSE /\ job' = [job EXCEPT ![s].st = "SUBMITTING"]
          /\ Goto(w, "freeze")
          /\ UNCHANGED <<skuLock, lease>>
  /\ UNCHANGED <<root, draft, pub, net, upsets>>

Current(s, version) ==
  draft.gen = version /\ draft.st = "GENERATED" /\ Vouched(s, version)

Planned(w) == [pub EXCEPT ![Of(w)] = [n |-> @.n + 1, st |-> "PLANNED", src |-> work[w].src]]

\* Mutant: the request key of the run is not looked up.
FreezeAgain(w) ==
  /\ At(w, "freeze")
  /\ IF Current(Of(w), work[w].src)
     THEN /\ pub' = Planned(w)
          /\ work' = [work EXCEPT ![w].pc = "link", ![w].st = "PLANNED"]
          /\ UNCHANGED <<job, skuLock, lease>>
     ELSE Exit(w, "NEEDS_ATTENTION") /\ UNCHANGED pub
  /\ UNCHANGED <<root, draft, net, upsets>>

\* createAutomationMaterializedPublication; the lease is not looked at again.
Freeze(w) ==
  LET s == Of(w) IN
  /\ At(w, "freeze")
  /\ IF Frozen(s)
     THEN /\ work' = [work EXCEPT ![w].pc = "link", ![w].st = pub[s].st]
          /\ UNCHANGED <<job, skuLock, lease, pub>>
     ELSE IF Current(s, work[w].src)
     THEN /\ pub' = Planned(w)
          /\ work' = [work EXCEPT ![w].pc = "link", ![w].st = "PLANNED"]
          /\ UNCHANGED <<job, skuLock, lease>>
     ELSE Exit(w, "NEEDS_ATTENTION") /\ UNCHANGED pub
  /\ UNCHANGED <<root, draft, net, upsets>>

\* linkPublication; the turn is over.
Link(w) ==
  /\ At(w, "link")
  /\ job' = [job EXCEPT ![Of(w)].linked = TRUE]
  /\ lease' = Released(w)
  /\ work' = [work EXCEPT ![w].pc = "dispatch", ![w].tok = 0, ![w].src = Nothing]
  /\ UNCHANGED <<skuLock, root, draft, pub, net, upsets>>

---------------------------------------------------------------------------
(* Dispatching the publication. *)

PubAt(s, st) == pub' = [pub EXCEPT ![s].st = st]

\* A publication that is not new is looked up in n8n by its task id first.
Dispatch(w) ==
  LET s == Of(w) st == work[w].st IN
  /\ At(w, "dispatch")
  /\ \/ /\ st \in {"QUEUED", "SUCCEEDED"}
        /\ ExitKnown(w, "QUEUED")
        /\ UNCHANGED upsets
     \/ /\ st = "FAILED"
        /\ Exit(w, "NEEDS_ATTENTION")
        /\ UNCHANGED upsets
     \/ /\ st \in Unsent
        /\ \/ (st = "PLANNED" \/ net[s].task = "none") /\ Goto(w, "package") /\ UNCHANGED upsets
           \/ st # "PLANNED" /\ net[s].task # "none" /\ Goto(w, "found") /\ UNCHANGED upsets
           \/ st # "PLANNED" /\ Goto(w, "doubt") /\ Upset(1)
        /\ UNCHANGED <<job, skuLock, lease>>
  /\ UNCHANGED <<root, draft, pub, net>>

\* markPublicationQueued, then the job; refused if the status is not DISPATCHING.
Queued(w) ==
  IF pub[Of(w)].st = "DISPATCHING"
  THEN PubAt(Of(w), "QUEUED") /\ ExitKnown(w, "QUEUED")
  ELSE Exit(w, "NEEDS_ATTENTION") /\ UNCHANGED pub

\* markPublicationDispatchUnknown, likewise.
Unknown(w) ==
  /\ Exit(w, IF pub[Of(w)].st = "DISPATCHING" THEN "WAITING_NETWORK" ELSE "NEEDS_ATTENTION")
  /\ UNCHANGED pub

\* markPublicationFailed, likewise.
Refused(w) ==
  /\ IF pub[Of(w)].st \in Unsent THEN PubAt(Of(w), "NEEDS_ATTENTION") ELSE UNCHANGED pub
  /\ Exit(w, "NEEDS_ATTENTION")

\* markPublicationDispatching
MayDispatch(s) == pub[s].st \in {"PLANNED", "NEEDS_ATTENTION"}

Found(w) ==
  LET s == Of(w) IN
  /\ At(w, "found")
  /\ IF work[w].st = "DISPATCHING" THEN Queued(w)
     ELSE IF MayDispatch(s)
     THEN /\ PubAt(s, "DISPATCHING")
          /\ work' = [work EXCEPT ![w].st = "DISPATCHING"]
          /\ UNCHANGED <<job, skuLock, lease>>
     ELSE Exit(w, "NEEDS_ATTENTION") /\ UNCHANGED pub
  /\ UNCHANGED <<root, draft, net, upsets>>

Doubt(w) ==
  /\ At(w, "doubt")
  /\ IF work[w].st = "DISPATCHING" THEN Unknown(w)
     ELSE Exit(w, "WAITING_NETWORK") /\ UNCHANGED pub
  /\ UNCHANGED <<root, draft, net, upsets>>

\* prepareStorePublicationPackage
Package(w) ==
  LET s == Of(w) IN
  /\ At(w, "package")
  /\ \/ Refused(w) /\ Upset(1)
     \/ /\ UNCHANGED upsets
        /\ IF work[w].st = "DISPATCHING"
           THEN Goto(w, "send") /\ UNCHANGED <<job, skuLock, lease, pub>>
           ELSE IF MayDispatch(s)
           THEN PubAt(s, "DISPATCHING") /\ Goto(w, "send") /\ UNCHANGED <<job, skuLock, lease>>
           ELSE Exit(w, "NEEDS_ATTENTION") /\ UNCHANGED pub
  /\ UNCHANGED <<root, draft, net>>

\* submitListing
Send(w) ==
  /\ At(w, "send")
  /\ net' = [net EXCEPT ![Of(w)].req = TRUE]
  /\ work' = [work EXCEPT ![w].pc = "sent", ![w].st = "none"]
  /\ UNCHANGED <<job, skuLock, root, lease, draft, pub, upsets>>

\* The answer: the task is there, nothing is known, or n8n declined it.
Answer(w) ==
  LET s == Of(w) IN
  /\ At(w, "sent")
  /\ \/ net[s].task # "none" /\ Queued(w) /\ UNCHANGED <<net, upsets>>
     \/ net[s] = [req |-> FALSE, task |-> "none"] /\ Unknown(w) /\ UNCHANGED <<net, upsets>>
     \/ Unknown(w) /\ Upset(1) /\ UNCHANGED net
     \/ /\ net[s] = [req |-> TRUE, task |-> "none"]
        /\ net' = [net EXCEPT ![s].req = FALSE]
        /\ Refused(w) /\ Upset(1)
  /\ UNCHANGED <<root, draft>>

---------------------------------------------------------------------------
(* n8n and the synchronisation of submitted jobs. *)

\* enqueueRuntimeJob: the task id makes a repeated request idempotent.
Arrive(s) ==
  /\ net[s].req
  /\ net' = [net EXCEPT ![s] = [req |-> FALSE, task |-> IF @.task = "none" THEN "QUEUED" ELSE @.task]]
  /\ UNCHANGED <<job, skuLock, root, lease, draft, pub, work, upsets>>

Lose(s) ==
  /\ net[s].req
  /\ Upset(1)
  /\ net' = [net EXCEPT ![s].req = FALSE]
  /\ UNCHANGED <<job, skuLock, root, lease, draft, pub, work>>

\* transitionRuntimeJob writes its status over the publication's.
Run(s) ==
  /\ net[s].task = "QUEUED"
  /\ \E task \in {"SUCCEEDED", "FAILED", "BLOCKED"} :
       /\ net' = [net EXCEPT ![s].task = task]
       /\ PubAt(s, Mapped(task))
       /\ IF task = "FAILED" THEN Upset(1) ELSE UNCHANGED upsets
  /\ UNCHANGED <<job, skuLock, root, lease, draft, work>>

\* synchronizeSubmittedJobs
Sync(s) ==
  LET target == IF Synced(s) \in {"PLANNED", "DISPATCHING"} THEN "QUEUED" ELSE Synced(s) IN
  /\ job[s].known /\ job[s].linked
  /\ job[s].st \in {"QUEUED", "WAITING_NETWORK", "FAILED"}
  /\ PubAt(s, Synced(s))
  /\ job' = [job EXCEPT ![s].st = target]
  /\ UNCHANGED <<skuLock, root, lease, draft, net, work, upsets>>

---------------------------------------------------------------------------
(* The user.  Both actions lock the SKU under the store's own key, which is *)
(* the workers' key for the default store only.                            *)

Act(s) == (s = Default => skuLock = None) /\ Upset(1)

\* recheck also takes the draft over for the run.
Recheck(s) ==
  /\ Act(s)
  /\ job[s].st \in Recheckable /\ ~job[s].known
  /\ job' = [job EXCEPT ![s].st = "CHECKING"]
  /\ draft' = IF draft.st = "none" THEN draft ELSE [draft EXCEPT !.owner = s]
  /\ UNCHANGED <<skuLock, root, lease, pub, net, work>>

Cancel(s) ==
  /\ Act(s)
  /\ job[s].st \in Cancellable
  /\ job' = [job EXCEPT ![s].st = "CANCELLED"]
  /\ UNCHANGED <<skuLock, root, lease, draft, pub, net, work>>

---------------------------------------------------------------------------
(* Faults. *)

\* A worker dies: its locks go with its sessions, its lease stays.
Crash(w) ==
  /\ ~At(w, "idle")
  /\ Upset(1)
  /\ work' = [work EXCEPT ![w] = Idle]
  /\ skuLock' = IF skuLock = w THEN None ELSE skuLock
  /\ root' = IF root = w THEN None ELSE root
  /\ UNCHANGED <<job, lease, draft, pub, net>>

\* The holder of the SKU lock stalls: its session is lost, or its lease lapses,
\* or both, and it does not notice before its next fence.
Stall ==
  /\ skuLock # None
  /\ Upset(2)
  /\ skuLock' \in {skuLock, None}
  /\ lease' \in {lease, [lease EXCEPT !.live = FALSE]}
  /\ UNCHANGED <<job, root, draft, pub, net, work>>

\* A lease that nobody renews any more lapses.
Lapse ==
  /\ lease.live
  /\ \A w \in Worker : ~Held(w)
  /\ lease' = [lease EXCEPT !.live = FALSE]
  /\ UNCHANGED <<job, skuLock, root, draft, pub, net, work, upsets>>

---------------------------------------------------------------------------

Step(w) ==
  \/ Begin(w) \/ Turn(w) \/ Fence(w) \/ Create(w) \/ Rebuild(w)
  \/ Look(w) \/ Scan(w) \/ Assign(w) \/ Reserve(w) \/ Complete(w) \/ Vouch(w) \/ Freeze(w)
  \/ Link(w) \/ Dispatch(w) \/ Found(w) \/ Doubt(w) \/ Package(w) \/ Send(w) \/ Answer(w)

Next ==
  \/ \E w \in Worker : \/ Step(w) \/ FailGeneration(w) \/ Crash(w)
                       \/ \E s \in Store : Claim(w, s)
  \/ \E s \in Store : Arrive(s) \/ Lose(s) \/ Run(s) \/ Sync(s) \/ Recheck(s) \/ Cancel(s)
  \/ Stall \/ Lapse

\* claimDue and the lock serve the job that has waited longest: a job that was
\* refused the lock keeps its due time, one that has run is due later.
Fairness ==
  /\ \A w \in Worker : WF_vars(Step(w))
  /\ \A s \in Store : /\ SF_vars(\E w \in Worker : Claim(w, s))
                      /\ WF_vars(Arrive(s) \/ Run(s) \/ Sync(s))
  /\ WF_vars(Lapse)

Spec == Init /\ [][Next]_vars /\ Fairness

---------------------------------------------------------------------------
(* Properties. *)

Statuses == Unsent \union {"none", "QUEUED", "SUCCEEDED", "FAILED"}

Versions == [id : Nat, preset : Store \union {None}, whole : BOOLEAN]

States == Claimable \union Cancellable \union Terminal \union {"QUEUED"}

Jobs == [st : States, preset : Store, linked : BOOLEAN, known : BOOLEAN]

Leases == [owner : Store \union {None}, tok : Nat, live : BOOLEAN]

Drafts == [st : {"none", "DRAFT", "STALE", "GENERATING", "GENERATED"},
           owner : Store \union {None}, preset : Store \union {None},
           media : {"none", "scanned", "assigned"}, gen : Versions]

Publications == [n : Nat, st : Statuses, src : Versions]

Requests == [req : BOOLEAN, task : {"none", "QUEUED", "SUCCEEDED", "FAILED", "BLOCKED"}]

Places == {"idle", "begin", "turn", "look", "generate", "vouch", "freeze", "link",
           "dispatch", "found", "doubt", "package", "send", "sent"} \union Fenced

Progress == [pc : Places, of : Store \union {None}, saw : BOOLEAN, tok : Nat, ok : BOOLEAN,
             fresh : BOOLEAN, src : Versions, st : Statuses]

\* Every variable holds values the code can store in it; a worker that holds a
\* job is at it, and the root lock outlives a statement only in a generation.
TypeOK ==
  /\ job \in [Store -> Jobs]
  /\ skuLock \in Worker \union {None} /\ root \in Worker \union {None}
  /\ lease \in Leases /\ (lease.owner = None) = (lease.tok = 0)
  /\ draft \in Drafts
  /\ pub \in [Store -> Publications]
  /\ net \in [Store -> Requests]
  /\ work \in [Worker -> Progress]
  /\ \A w \in Worker : (work[w].pc = "idle") = (Of(w) = None)
  /\ \A w \in Worker : root = w => At(w, "generate")
  /\ upsets \in 0 .. MaxUpsets

\* Whatever leases lapse and workers overlap on the one shared draft, a store
\* publishes a version made for its own preset, and never one without media.
FrozenForItsStore ==
  \A s \in Store : Frozen(s) => pub[s].src.preset = job[s].preset /\ pub[s].src.whole

\* A run freezes one publication, however often it is retried or taken over; a
\* task in n8n belongs to a publication its job knows of; and a job that is
\* said to be submitted or done has its task, and has it done.
OneTaskPerRun ==
  \A s \in Store :
    /\ pub[s].n <= 1
    /\ net[s].task # "none" => job[s].linked
    /\ job[s].st = "SUCCEEDED" => net[s].task = "SUCCEEDED"
    /\ job[s].st = "QUEUED" => net[s].task # "none"

Settled == {"SUCCEEDED", "FAILED", "NEEDS_ATTENTION", "CANCELLED"}

\* Every store's job comes to an end or to the user, whoever died holding the
\* turn: a lease can delay the other stores, never stop them.
StoresSettle == \A s \in Store : []<>(job[s].st \in Settled)
=============================================================================
