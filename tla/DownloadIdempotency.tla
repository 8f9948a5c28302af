------------------------ MODULE DownloadIdempotency ------------------------
(***************************************************************************)
(* What the n8n workflows keep on disk about one download job, so that it  *)
(* can be asked for again under the same id (recovery mode                 *)
(* IDEMPOTENT_REPLAY of module DownloadJobs): download-idempotency-v1.cjs  *)
(* and its use by the PDD downloader and the detail image stitcher.        *)
(*                                                                         *)
(* A request starts an n8n execution: preflight, downloader, stitcher and  *)
(* finalize are processes of its own.  The first execution owns the job.   *)
(* Preflight answers a later one from the receipt, tells it to come back,  *)
(* or takes over from an owner whose heartbeat is stale: by what is found  *)
(* in the output folder it is either recorded as done, or its stitching is *)
(* resumed, or the job has failed, as a second download is never tried.    *)
(* What changes the record does so under a transition lock, a directory    *)
(* that is itself reclaimed when its holder is gone.                       *)
(*                                                                         *)
(* A step is an operation on the files that other processes can come       *)
(* between; reads in a row, of which only the last can go stale, are one   *)
(* step, as are making the lock and naming its holder.  The token of an    *)
(* owner or holder is the execution that made it.                          *)
(***************************************************************************)
EXTENDS Naturals

CONSTANTS
  Exec,      \* executions of the workflow for the job
  None,
  Overlap,   \* may two requests be in preflight, and two processes reclaim the lock, at once?
             \* The code lets them; FALSE keeps these milliseconds apart
  MaxCrash,  \* bound: executions that die
  MaxSleep,  \* bound: heartbeats of live executions that become stale
  MaxHang,   \* bound: locks of live processes that become stale
  MaxBusy    \* bound: times the browser profile is in use

ASSUME IdempotencyAssumption ==
  /\ None \notin Exec /\ Overlap \in BOOLEAN
  /\ {MaxCrash, MaxSleep, MaxHang, MaxBusy} \subseteq Nat

VARIABLES
  owner,    \* owner.json, None: no job folder
  beat,     \* heartbeat.json: "none", "fresh" or "stale"
  receipt,  \* receipt.json
  lock,     \* the transition lock
  art,      \* the output folder: "none", "reserved", "failed", "media" or "complete"
  mem,      \* [Exec -> the process at work]
  ans,      \* [Exec -> what its request was answered]
  crashes, sleeps, hangs, busies

files  == <<owner, beat, receipt, lock, art>>
bounds == <<crashes, sleeps, hangs, busies>>
vars   == <<files, mem, ans, bounds>>

Terminal  == {"succeeded", "failed"}
NoReceipt == [state |-> "none", owner |-> None]
Locks     == [token: Exec, fresh: BOOLEAN]
NoLock    == [token |-> None, fresh |-> FALSE]

(* What a process does under the lock, and where an execution goes on. *)
Touching == {"launch", "reserve", "save", "stitch", "commit"}
Doing    == Touching \cup {"preflight", "finalize"}
Locking  == {"lock", "check", "steal", "remake", "putback", "held", "assert", "write", "write2",
             "release", "unlock"}
Reclaiming == {"check", "steal", "remake", "putback"}
Work     == {"act"}
Ended    == {"new", "over", "dead"}

Places == Locking \cup Work \cup Ended \cup {"claim", "read", "receipt", "beat"}
Plans  == {"none", "replace", "resume", "retryable"} \cup Terminal

Memories == [at: Places, doing: Doing, owner: Exec \cup {None}, tomb: Locks \cup {NoLock}, plan: Plans,
             then: {"act", "lock", "over"}, result: {"ok", "busy", "failed"}]

NewMem == [at |-> "new", doing |-> "preflight", owner |-> None, tomb |-> NoLock,
           plan |-> "none", then |-> "over", result |-> "ok"]

TypeOK ==
  /\ owner \in Exec \cup {None} /\ beat \in {"none", "fresh", "stale"}
  /\ receipt \in [state: Terminal \cup {"none", "retryable"}, owner: Exec \cup {None}]
  /\ lock \in Locks \cup {NoLock}
  /\ art \in {"none", "reserved", "failed", "media", "complete"}
  /\ mem \in [Exec -> Memories]
  /\ ans \in [Exec -> Terminal \cup {"none", "running", "retryable", "error"}]
  /\ crashes \in 0..MaxCrash /\ sleeps \in 0..MaxSleep /\ hangs \in 0..MaxHang /\ busies \in 0..MaxBusy
  /\ (owner = None <=> beat = "none")
  /\ receipt.state = "succeeded" => art = "complete"

Init ==
  /\ owner = None /\ beat = "none" /\ receipt = NoReceipt /\ lock = NoLock /\ art = "none"
  /\ mem = [e \in Exec |-> NewMem] /\ ans = [e \in Exec |-> "none"]
  /\ crashes = 0 /\ sleeps = 0 /\ hangs = 0 /\ busies = 0

At(e, place) == mem[e].at = place
Becomes(e, m) == mem' = [mem EXCEPT ![e] = m]
Goto(e, place) == Becomes(e, [mem[e] EXCEPT !.at = place])
For(e, what) == mem[e].doing = what
Live(e) == mem[e].at \notin Ended
InPreflight(e) == Live(e) /\ For(e, "preflight")

(* The execution takes the lock for its next undertaking. *)
ToLock(e, what) == Becomes(e, [mem[e] EXCEPT !.at = "lock", !.doing = what, !.owner = e])

(* Nothing is left to be done but to record the result. *)
ToFinalize(e, result) ==
  Becomes(e, [mem[e] EXCEPT !.at = "lock", !.doing = "finalize", !.result = result])

(* The request is answered and nothing is left to be done for it. *)
Answer(e, a) == Goto(e, "over") /\ ans' = [ans EXCEPT ![e] = a]

(* The answer is known, the lock is still to be given back. *)
Conclude(e, a) ==
  /\ Becomes(e, [mem[e] EXCEPT !.at = "release", !.then = "over"])
  /\ ans' = [ans EXCEPT ![e] = a]

-----------------------------------------------------------------------------
(* preflight, up to the lock                                               *)

Ask(e) ==
  /\ At(e, "new") /\ (Overlap \/ \A f \in Exec : ~InPreflight(f))
  /\ Goto(e, "claim")
  /\ UNCHANGED <<files, ans, bounds>>

(* createJobState: the folder with owner and heartbeat appears by one rename. *)
Claim(e) ==
  /\ At(e, "claim")
  /\ IF owner = None
     THEN owner' = e /\ beat' = "fresh" /\ ToLock(e, "launch")
     ELSE Goto(e, "read") /\ UNCHANGED <<owner, beat>>
  /\ UNCHANGED <<receipt, lock, art, ans, bounds>>

ReadOwner(e) ==
  /\ At(e, "read")
  /\ Becomes(e, [mem[e] EXCEPT !.owner = owner, !.at = "receipt"])
  /\ UNCHANGED <<files, ans, bounds>>

ReadReceipt(e) ==
  /\ At(e, "receipt")
  /\ \/ receipt.state = "none" /\ Goto(e, "beat") /\ UNCHANGED ans
     \/ receipt.state # "none" /\ receipt.owner # mem[e].owner /\ Answer(e, "failed")
     \/ receipt.state = "retryable" /\ receipt.owner = mem[e].owner /\ Goto(e, "lock") /\ UNCHANGED ans
     \/ receipt.state \in Terminal /\ receipt.owner = mem[e].owner /\ Answer(e, receipt.state)
  /\ UNCHANGED <<files, bounds>>

ReadBeat(e) ==
  /\ At(e, "beat")
  /\ IF beat = "fresh" THEN Answer(e, "running") ELSE Goto(e, "lock") /\ UNCHANGED ans
  /\ UNCHANGED <<files, bounds>>

-----------------------------------------------------------------------------
(* The transition lock                                                     *)

(* acquireTransitionLock returned ''. *)
Refused(e) ==
  IF mem[e].doing \in Touching
  THEN ToFinalize(e, "failed") /\ UNCHANGED ans
  ELSE Answer(e, "running")

Lock(e) ==
  /\ At(e, "lock")
  /\ IF lock = NoLock
     THEN lock' = [token |-> e, fresh |-> TRUE] /\ Goto(e, "held") /\ UNCHANGED ans
     ELSE /\ UNCHANGED lock
          /\ IF lock.fresh THEN Refused(e)
             ELSE /\ Overlap \/ \A f \in Exec : mem[f].at \notin Reclaiming
                  /\ Goto(e, "check") /\ UNCHANGED ans
  /\ UNCHANGED <<owner, beat, receipt, art, bounds>>

(* Mutant: only the lock of a finished execution. *)
ReclaimableIfRetryable(e) ==
  owner = mem[e].owner /\ receipt.state = "retryable"

(* May a stale lock be reclaimed? *)
Reclaimable(e) ==
  /\ owner = mem[e].owner /\ receipt.state \notin Terminal
  /\ receipt.state = "retryable" \/ beat # "fresh"

Check(e) ==
  /\ At(e, "check")
  /\ IF Reclaimable(e) THEN Goto(e, "steal") /\ UNCHANGED ans ELSE Refused(e)
  /\ UNCHANGED <<files, bounds>>

(* Whatever lock there is by now is put aside ... *)
Steal(e) ==
  /\ At(e, "steal")
  /\ IF lock = NoLock THEN Refused(e) /\ UNCHANGED lock
     ELSE /\ lock' = NoLock
          /\ Becomes(e, [mem[e] EXCEPT !.tomb = lock, !.at = "remake"])
          /\ UNCHANGED ans
  /\ UNCHANGED <<owner, beat, receipt, art, bounds>>

(* ... and another one made, ... *)
Remake(e) ==
  /\ At(e, "remake")
  /\ IF lock = NoLock
     THEN /\ lock' = [token |-> e, fresh |-> TRUE]
          /\ Becomes(e, [mem[e] EXCEPT !.tomb = NoLock, !.at = "held"])
     ELSE Goto(e, "putback") /\ UNCHANGED lock
  /\ UNCHANGED <<owner, beat, receipt, art, ans, bounds>>

(* ... or, if somebody was faster and has finished, the old one put back. *)
PutBack(e) ==
  /\ At(e, "putback")
  /\ lock' = IF lock = NoLock THEN mem[e].tomb ELSE lock
  /\ IF mem[e].doing \in Touching
     THEN /\ Becomes(e, [mem[e] EXCEPT !.tomb = NoLock, !.at = "lock", !.doing = "finalize",
                                       !.result = "failed"])
          /\ UNCHANGED ans
     ELSE /\ Becomes(e, [mem[e] EXCEPT !.tomb = NoLock, !.at = "over"])
          /\ ans' = [ans EXCEPT ![e] = "running"]
  /\ UNCHANGED <<owner, beat, receipt, art, bounds>>

Planned(e) == CASE mem[e].plan = "replace" -> "launch"
                [] mem[e].plan = "resume"  -> "stitch"
                [] OTHER                   -> "finalize"

Then(e) ==
  IF mem[e].then = "lock"
  THEN Becomes(e, [mem[e] EXCEPT !.at = "lock", !.doing = Planned(e), !.owner = e, !.plan = "none"])
  ELSE Goto(e, mem[e].then)

(* releaseTransitionLock compares the token, then renames what is there. *)
Release(e) ==
  /\ At(e, "release")
  /\ IF lock.token = e THEN Goto(e, "unlock") ELSE Then(e)
  /\ UNCHANGED <<files, ans, bounds>>

Unlock(e) ==
  /\ At(e, "unlock")
  /\ lock' = NoLock /\ Then(e)
  /\ UNCHANGED <<owner, beat, receipt, art, ans, bounds>>

-----------------------------------------------------------------------------
(* preflight and finalize, under the lock                                  *)

ToAssert(e, plan) ==
  Becomes(e, [mem[e] EXCEPT !.at = "assert", !.plan = plan, !.owner = owner]) /\ UNCHANGED ans

(* Mutant: the long image is not looked for. *)
LeftoverMedia == IF art \in {"complete", "media"} THEN "succeeded" ELSE "failed"

(* inspectArtifacts decides about what a stale owner has left. *)
Leftover == IF art = "complete" THEN "succeeded" ELSE IF art = "media" THEN "resume" ELSE "failed"

Recheck(e) ==
  /\ At(e, "held") /\ For(e, "preflight")
  /\ \/ receipt.state \in Terminal /\ Conclude(e, receipt.state)
     \/ receipt.state = "retryable" /\ ToAssert(e, "replace")
     \/ receipt.state = "none" /\ beat = "fresh" /\ Conclude(e, "running")
     \/ receipt.state = "none" /\ beat # "fresh" /\ ToAssert(e, Leftover)
  /\ UNCHANGED <<files, bounds>>

Outcome(e) == CASE mem[e].result = "busy" -> "retryable"
                [] mem[e].result = "ok" /\ art = "complete" -> "succeeded"
                [] OTHER -> "failed"

(* Mutant: an execution that still owns the job overwrites the receipt. *)
FinalizeAgain(e) ==
  /\ At(e, "held") /\ For(e, "finalize")
  /\ IF owner # e THEN Conclude(e, "failed") ELSE ToAssert(e, Outcome(e))
  /\ UNCHANGED <<files, bounds>>

(* Mutant: only the receipt is looked at, not the owner. *)
FinalizeLate(e) ==
  /\ At(e, "held") /\ For(e, "finalize")
  /\ IF receipt.state \in Terminal THEN Conclude(e, receipt.state)
     ELSE Becomes(e, [mem[e] EXCEPT !.at = "assert", !.plan = Outcome(e)]) /\ UNCHANGED ans
  /\ UNCHANGED <<files, bounds>>

Finalize(e) ==
  /\ At(e, "held") /\ For(e, "finalize")
  /\ \/ owner # e /\ Conclude(e, "failed")
     \/ owner = e /\ receipt.state \in Terminal /\ receipt.owner = e /\ Conclude(e, receipt.state)
     \/ /\ owner = e /\ ~(receipt.state \in Terminal /\ receipt.owner = e)
        /\ ToAssert(e, Outcome(e))
  /\ UNCHANGED <<files, bounds>>

(* assertTransitionLockOwner *)
AssertOwner(e) ==
  /\ At(e, "assert")
  /\ IF lock.token = e THEN Goto(e, "write") /\ UNCHANGED ans ELSE Answer(e, "error")
  /\ UNCHANGED <<files, bounds>>

(* replaceOwner, in two steps; a receipt. *)
Write(e) ==
  /\ At(e, "write")
  /\ IF mem[e].plan \in {"replace", "resume"}
     THEN owner' = e /\ Goto(e, "write2") /\ UNCHANGED <<beat, receipt, ans>>
     ELSE /\ receipt' = [state |-> mem[e].plan, owner |-> mem[e].owner]
          /\ beat' = IF For(e, "preflight") /\ mem[e].plan = "succeeded" THEN beat ELSE "fresh"
          /\ Conclude(e, mem[e].plan)
          /\ UNCHANGED owner
  /\ UNCHANGED <<lock, art, bounds>>

Replaced(e) ==
  /\ At(e, "write2")
  /\ beat' = "fresh" /\ receipt' = NoReceipt
  /\ Becomes(e, [mem[e] EXCEPT !.at = "release", !.then = "lock"])
  /\ UNCHANGED <<owner, lock, art, ans, bounds>>

-----------------------------------------------------------------------------
(* The downloader and the stitcher: before each thing they do the heartbeat *)
(* is touched, which fails once the job has another owner or a receipt.     *)

Touch(e) ==
  /\ At(e, "held") /\ mem[e].doing \in Touching
  /\ IF owner = e /\ receipt.state = "none" /\ lock.token = e
     THEN /\ beat' = "fresh"
          /\ Becomes(e, [mem[e] EXCEPT !.at = "release", !.then = "act"])
     ELSE /\ Becomes(e, [mem[e] EXCEPT !.at = "release", !.then = "lock", !.result = "failed"])
          /\ UNCHANGED beat
  /\ UNCHANGED <<owner, receipt, lock, art, ans, bounds>>

Acts(e, what) == At(e, "act") /\ For(e, what) /\ UNCHANGED <<owner, beat, receipt, lock, ans>>

Failing(e) ==
  /\ At(e, "act") /\ ToFinalize(e, "failed")
  /\ art' = IF For(e, "save") THEN "failed" ELSE art
  /\ UNCHANGED <<owner, beat, receipt, lock, ans, bounds>>

Launch(e) ==
  /\ Acts(e, "launch") /\ UNCHANGED art
  /\ \/ ToLock(e, "reserve") /\ UNCHANGED bounds
     \/ /\ busies < MaxBusy /\ busies' = busies + 1
        /\ ToFinalize(e, "busy") /\ UNCHANGED <<crashes, sleeps, hangs>>

(* The folder is named after the first owner: it can be made once. *)
Reserve(e) ==
  /\ Acts(e, "reserve") /\ UNCHANGED bounds
  /\ IF art = "none" THEN art' = "reserved" /\ ToLock(e, "save")
                     ELSE UNCHANGED art /\ ToFinalize(e, "failed")

Save(e)   == Acts(e, "save") /\ art' = "media" /\ ToLock(e, "stitch") /\ UNCHANGED bounds
Stitch(e) == Acts(e, "stitch") /\ ToLock(e, "commit") /\ UNCHANGED <<art, bounds>>
Commit(e) == Acts(e, "commit") /\ art' = "complete" /\ ToFinalize(e, "ok") /\ UNCHANGED bounds

-----------------------------------------------------------------------------
(* Crashes, and time.                                                      *)

Crash(e) ==
  /\ Live(e) /\ crashes < MaxCrash /\ crashes' = crashes + 1
  /\ Becomes(e, [NewMem EXCEPT !.at = "dead"]) /\ ans' = [ans EXCEPT ![e] = "none"]
  /\ UNCHANGED <<files, sleeps, hangs, busies>>

OwnerWorks == owner # None /\ Live(owner)
Holders == {e \in Exec : mem[e].at \in {"held", "assert", "write", "write2", "release", "unlock"}}

BeatAges ==
  /\ beat = "fresh" /\ beat' = "stale"
  /\ IF OwnerWorks THEN sleeps < MaxSleep /\ sleeps' = sleeps + 1 ELSE UNCHANGED sleeps
  /\ UNCHANGED <<owner, receipt, lock, art, mem, ans, crashes, hangs, busies>>

LockAges ==
  /\ lock.fresh /\ lock' = [lock EXCEPT !.fresh = FALSE]
  /\ IF lock.token \in Holders THEN hangs < MaxHang /\ hangs' = hangs + 1 ELSE UNCHANGED hangs
  /\ UNCHANGED <<owner, beat, receipt, art, mem, ans, crashes, sleeps, busies>>

(* An execution nothing refers to any more stands for a new one. *)
Recycle(e) ==
  /\ mem[e].at \in {"over", "dead"} /\ e \notin {owner, receipt.owner, lock.token}
  /\ \A f \in Exec \ {e} : e \notin {mem[f].owner, mem[f].tomb.token}
  /\ Becomes(e, NewMem) /\ ans' = [ans EXCEPT ![e] = "none"]
  /\ UNCHANGED <<files, bounds>>

-----------------------------------------------------------------------------
Step(e) ==
  \/ Claim(e) \/ ReadOwner(e) \/ ReadReceipt(e) \/ ReadBeat(e)
  \/ Lock(e) \/ Check(e) \/ Steal(e) \/ Remake(e) \/ PutBack(e) \/ Release(e) \/ Unlock(e)
  \/ Recheck(e) \/ Finalize(e) \/ AssertOwner(e) \/ Write(e) \/ Replaced(e)
  \/ Touch(e) \/ Failing(e) \/ Launch(e) \/ Reserve(e) \/ Save(e) \/ Stitch(e) \/ Commit(e)

Next == BeatAges \/ LockAges \/ \E e \in Exec : Ask(e) \/ Step(e) \/ Crash(e) \/ Recycle(e)

(* The worker asks again as long as it has no final answer; processes end; *)
(* what nobody refreshes becomes stale.                                    *)
Fairness ==
  /\ WF_vars(BeatAges /\ ~OwnerWorks) /\ WF_vars(LockAges /\ lock.token \notin Holders)
  /\ \A e \in Exec : WF_vars(Ask(e)) /\ WF_vars(Step(e)) /\ WF_vars(Recycle(e))

Spec == Init /\ [][Next]_vars /\ Fairness

-----------------------------------------------------------------------------
(* A final receipt stays as it is: no late finalize, no recovery and no    *)
(* takeover replaces it, so that every replay gives the same answer.       *)
ReceiptFinal == [][receipt.state \in Terminal => receipt' = receipt]_vars

(* An execution is replaced only if it gave the job back or is silent.     *)
TakenFromTheSilent ==
  [][owner # None /\ owner' # owner => receipt.state = "retryable" \/ beat = "stale"]_vars

(* A request is told that the job succeeded only when its folder is complete. *)
SuccessIsComplete == \A e \in Exec : ans[e] = "succeeded" => art = "complete"

(* A success is never told of an incomplete folder, and never beside a     *)
(* failure, but for the answer finalize gives an execution whose job was   *)
(* taken over (409, failed): its late result does not count any more.      *)
AnswersAgree ==
  /\ SuccessIsComplete
  /\ \A e, f \in Exec : ans[e] = "succeeded" /\ ans[f] = "failed" => For(f, "finalize") /\ owner # f

(* An execution whose job was taken over does not record a result.         *)
LateResultRejected == [][receipt' # receipt /\ receipt' # NoReceipt => receipt'.owner = owner]_vars

(* The job belongs to one execution at a time: another one takes it only   *)
(* from an owner that gave it back or is silent, what it recorded is final *)
(* and what a former owner brings late is not recorded.                    *)
OwnershipRespected == ReceiptFinal /\ TakenFromTheSilent /\ LateResultRejected

(* Whichever execution crashes, something is recorded about the job.       *)
JobIsSettled == owner # None ~> receipt.state # "none"

=============================================================================
