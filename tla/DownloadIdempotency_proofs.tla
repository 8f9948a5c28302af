---------------------- MODULE DownloadIdempotency_proofs ----------------------
(***************************************************************************)
(* Proofs about the files of a download job, for any number of executions, *)
(* crashes, silent owners, locks of live processes that become stale and   *)
(* busy browsers, whatever the timing (Overlap or not).                    *)
(***************************************************************************)
EXTENDS DownloadIdempotency, TLAPS

---------------------------------------------------------------------------
(* The invariant. *)

\* What a process may rely on in the output folder.
Founded(e) ==
  /\ mem[e].at = "new" => mem[e].doing = "preflight" /\ mem[e].plan = "none"
  /\ mem[e].at \in {"claim", "read", "receipt", "beat"} => mem[e].doing = "preflight"
  /\ Live(e) /\ mem[e].at # "claim" => owner # None
  /\ Live(e) /\ mem[e].doing = "save" => art = "reserved"
  /\ Live(e) /\ mem[e].doing \in {"stitch", "commit"} => art \in {"media", "complete"}
  /\ Live(e) /\ mem[e].plan = "resume" => art \in {"media", "complete"}
  /\ Live(e) /\ mem[e].plan = "succeeded" => art = "complete"

ArtInv ==
  /\ \A e \in Exec : Founded(e)
  /\ \A e, f \in Exec : Live(e) /\ Live(f) /\ mem[e].doing = "save" /\ mem[f].doing = "save" => e = f

---------------------------------------------------------------------------
(* Steps of one process. *)

\* Process e goes on at a place, with an undertaking, the job, the lock it
\* has put aside and the plan it knows.
Turns(e, at, doing, job, tomb, plan) ==
  /\ mem' \in [Exec -> Memories]
  /\ \A f \in Exec \ {e} : mem'[f] = mem[f]
  /\ mem'[e].at = at /\ mem'[e].doing = doing /\ mem'[e].owner = job
  /\ mem'[e].tomb = tomb /\ mem'[e].plan = plan

\* It goes on elsewhere and knows what it knew.
Walks(e, at) == Turns(e, at, mem[e].doing, mem[e].owner, mem[e].tomb, mem[e].plan)

(* The parts of a memory. *)
LEMMA Parts ==
  ASSUME NEW m \in Memories
  PROVE  /\ m.at \in Places /\ m.doing \in Doing /\ m.owner \in Exec \cup {None}
         /\ m.tomb \in Locks \cup {NoLock} /\ m.plan \in Plans /\ m.then \in {"act", "lock", "over"}
BY DEF Memories

(* An assignment to the memory of one process. *)
LEMMA Assigned ==
  ASSUME mem \in [Exec -> Memories], NEW e \in Exec, NEW m \in Memories, Becomes(e, m)
  PROVE  Turns(e, m.at, m.doing, m.owner, m.tomb, m.plan)
BY DEF Becomes, Turns

(* Goto changes the place only. *)
LEMMA GotoTurns ==
  ASSUME mem \in [Exec -> Memories], NEW e \in Exec, NEW p \in Places, Goto(e, p)
  PROVE  Walks(e, p)
<1> DEFINE m == [mem[e] EXCEPT !.at = p]
<1>1. /\ m \in Memories /\ m.at = p /\ m.doing = mem[e].doing /\ m.owner = mem[e].owner
      /\ m.tomb = mem[e].tomb /\ m.plan = mem[e].plan
  BY DEF Memories
<1>2. Becomes(e, m)
  BY DEF Goto
<1> QED
  BY <1>1, <1>2, Assigned DEF Walks

(* What is decided under the lock. *)
LEMMA AssertTurns ==
  ASSUME mem \in [Exec -> Memories], owner \in Exec \cup {None}, NEW e \in Exec, NEW p \in Plans, ToAssert(e, p)
  PROVE  Turns(e, "assert", mem[e].doing, owner, mem[e].tomb, p) /\ UNCHANGED ans
<1> DEFINE m == [mem[e] EXCEPT !.at = "assert", !.plan = p, !.owner = owner]
<1>1. /\ m \in Memories /\ m.at = "assert" /\ m.doing = mem[e].doing /\ m.owner = owner
      /\ m.tomb = mem[e].tomb /\ m.plan = p
  BY ZenonT(60) DEF Memories, Places, Locking
<1>2. Becomes(e, m)
  BY DEF ToAssert
<1> QED
  BY <1>1, <1>2, Assigned DEF ToAssert

(* The next undertaking begins with the lock. *)
LEMMA LockTurns ==
  ASSUME mem \in [Exec -> Memories], NEW e \in Exec, NEW w \in Doing, ToLock(e, w)
  PROVE  Turns(e, "lock", w, e, mem[e].tomb, mem[e].plan)
<1> DEFINE m == [mem[e] EXCEPT !.at = "lock", !.doing = w, !.owner = e]
<1>1. /\ m \in Memories /\ m.at = "lock" /\ m.doing = w /\ m.owner = e
      /\ m.tomb = mem[e].tomb /\ m.plan = mem[e].plan
  BY ZenonT(60) DEF Memories, Places, Locking
<1>2. Becomes(e, m)
  BY DEF ToLock
<1> QED
  BY <1>1, <1>2, Assigned

(* The result is to be recorded. *)
LEMMA FinalizeTurns ==
  ASSUME mem \in [Exec -> Memories], NEW e \in Exec, NEW r \in {"ok", "busy", "failed"}, ToFinalize(e, r)
  PROVE  Turns(e, "lock", "finalize", mem[e].owner, mem[e].tomb, mem[e].plan)
<1> DEFINE m == [mem[e] EXCEPT !.at = "lock", !.doing = "finalize", !.result = r]
<1>0. "lock" \in Places /\ "finalize" \in Doing
  BY DEF Places, Locking, Doing
<1>1. /\ m \in Memories /\ m.at = "lock" /\ m.doing = "finalize" /\ m.owner = mem[e].owner
      /\ m.tomb = mem[e].tomb /\ m.plan = mem[e].plan
  BY ZenonT(60), <1>0 DEF Memories
<1>2. Becomes(e, m)
  BY DEF ToFinalize
<1> QED
  BY <1>1, <1>2, Assigned

(* The answer is known and the lock is given back. *)
LEMMA ReleaseTurns ==
  ASSUME mem \in [Exec -> Memories], NEW e \in Exec, NEW t \in {"act", "lock", "over"},
         NEW r \in {"ok", "busy", "failed"},
         \/ Becomes(e, [mem[e] EXCEPT !.at = "release", !.then = t])
         \/ Becomes(e, [mem[e] EXCEPT !.at = "release", !.then = t, !.result = r])
  PROVE  Walks(e, "release")
<1> DEFINE m == [mem[e] EXCEPT !.at = "release", !.then = t]
           n == [mem[e] EXCEPT !.at = "release", !.then = t, !.result = r]
<1>0. "release" \in Places
  BY DEF Places, Locking
<1>1. /\ m \in Memories /\ m.at = "release" /\ m.doing = mem[e].doing /\ m.owner = mem[e].owner
      /\ m.tomb = mem[e].tomb /\ m.plan = mem[e].plan
  BY <1>0 DEF Memories
<1>2. /\ n \in Memories /\ n.at = "release" /\ n.doing = mem[e].doing /\ n.owner = mem[e].owner
      /\ n.tomb = mem[e].tomb /\ n.plan = mem[e].plan
  BY ZenonT(60), <1>0 DEF Memories
<1>3. Becomes(e, m) \/ Becomes(e, n)
  OBVIOUS
<1> QED
  BY <1>1, <1>2, <1>3, Assigned DEF Walks

(* acquireTransitionLock returned ''. *)
LEMMA RefusedTurns ==
  ASSUME mem \in [Exec -> Memories], NEW e \in Exec, Refused(e)
  PROVE  \/ Turns(e, "lock", "finalize", mem[e].owner, mem[e].tomb, mem[e].plan) /\ UNCHANGED ans
         \/ Walks(e, "over") /\ ans' = [ans EXCEPT ![e] = "running"]
<1>1. "over" \in Places
  BY DEF Places, Ended
<1> QED
  BY <1>1, GotoTurns, FinalizeTurns DEF Refused, Answer

(* A lock that was in the way is kept in mind, or forgotten. *)
LEMMA TombTurns ==
  ASSUME mem \in [Exec -> Memories], NEW e \in Exec, NEW t \in Locks \cup {NoLock},
         NEW p \in Places, Becomes(e, [mem[e] EXCEPT !.tomb = t, !.at = p])
  PROVE  Turns(e, p, mem[e].doing, mem[e].owner, t, mem[e].plan)
<1> DEFINE m == [mem[e] EXCEPT !.tomb = t, !.at = p]
<1>1. /\ m \in Memories /\ m.at = p /\ m.doing = mem[e].doing /\ m.owner = mem[e].owner
      /\ m.tomb = t /\ m.plan = mem[e].plan
  BY DEF Memories
<1> QED
  BY <1>1, Assigned

(* The lock that was put aside is put back. *)
LEMMA PutBackTurns ==
  ASSUME mem \in [Exec -> Memories], NEW e \in Exec, PutBack(e)
  PROVE  \/ Turns(e, "lock", "finalize", mem[e].owner, NoLock, mem[e].plan) /\ UNCHANGED ans
         \/ /\ Turns(e, "over", mem[e].doing, mem[e].owner, NoLock, mem[e].plan)
            /\ ans' = [ans EXCEPT ![e] = "running"]
<1> DEFINE m == [mem[e] EXCEPT !.tomb = NoLock, !.at = "lock", !.doing = "finalize", !.result = "failed"]
<1>0. "lock" \in Places /\ "over" \in Places /\ "finalize" \in Doing
  BY DEF Places, Locking, Ended, Doing
<1>1. /\ m \in Memories /\ m.at = "lock" /\ m.doing = "finalize" /\ m.owner = mem[e].owner
      /\ m.tomb = NoLock /\ m.plan = mem[e].plan
  BY ZenonT(60), <1>0 DEF Memories
<1>2. CASE Becomes(e, m) /\ UNCHANGED ans
  BY <1>1, <1>2, Assigned
<1>3. CASE /\ Becomes(e, [mem[e] EXCEPT !.tomb = NoLock, !.at = "over"])
           /\ ans' = [ans EXCEPT ![e] = "running"]
  BY <1>0, <1>3, TombTurns
<1> QED
  BY <1>2, <1>3 DEF PutBack

(* What follows when the lock has been given back. *)
LEMMA ThenTurns ==
  ASSUME mem \in [Exec -> Memories], NEW e \in Exec, Then(e)
  PROVE  \/ Walks(e, "act") \/ Walks(e, "over")
         \/ Turns(e, "lock", "launch", e, mem[e].tomb, "none")
         \/ Turns(e, "lock", "finalize", e, mem[e].tomb, "none")
         \/ Turns(e, "lock", "stitch", e, mem[e].tomb, "none") /\ mem[e].plan = "resume"
<1> DEFINE m == [mem[e] EXCEPT !.at = "lock", !.doing = Planned(e), !.owner = e, !.plan = "none"]
<1>0. "lock" \in Places /\ "act" \in Places /\ "over" \in Places /\ "none" \in Plans
  BY DEF Places, Locking, Ended, Work, Plans
<1>1. PICK w \in {"launch", "stitch", "finalize"} : w = Planned(e) /\ (w = "stitch" => mem[e].plan = "resume")
  BY DEF Planned
<1>2. w \in Doing
  BY DEF Doing, Touching
<1>3. CASE Becomes(e, m)
  <2>1. /\ m \in Memories /\ m.at = "lock" /\ m.doing = w /\ m.owner = e
        /\ m.tomb = mem[e].tomb /\ m.plan = "none"
    BY ZenonT(60), <1>0, <1>1, <1>2 DEF Memories
  <2>2. Turns(e, "lock", w, e, mem[e].tomb, "none")
    BY <1>3, <2>1, Assigned
  <2> QED
    BY <1>1, <2>2
<1>4. CASE mem[e].then # "lock" /\ Goto(e, mem[e].then)
  <2>1. mem[e].then \in {"act", "over"}
    BY <1>4, Parts
  <2> QED
    BY <1>0, <1>4, <2>1, GotoTurns
<1> QED
  BY <1>3, <1>4 DEF Then

(* Only its process changes its memory; no other action does but those above. *)
LEMMA ReadTurns ==
  ASSUME mem \in [Exec -> Memories], owner \in Exec \cup {None}, NEW e \in Exec, ReadOwner(e)
  PROVE  Turns(e, "receipt", mem[e].doing, owner, mem[e].tomb, mem[e].plan)
<1> DEFINE m == [mem[e] EXCEPT !.owner = owner, !.at = "receipt"]
<1>1. /\ m \in Memories /\ m.at = "receipt" /\ m.doing = mem[e].doing /\ m.owner = owner
      /\ m.tomb = mem[e].tomb /\ m.plan = mem[e].plan
  BY ZenonT(60) DEF Memories, Places
<1> QED
  BY <1>1, Assigned DEF ReadOwner

(* A process dies, or its name is used for a new one. *)
LEMMA CrashTurns ==
  ASSUME mem \in [Exec -> Memories], NEW e \in Exec
  PROVE  /\ Becomes(e, [NewMem EXCEPT !.at = "dead"]) => Turns(e, "dead", "preflight", None, NoLock, "none")
         /\ Becomes(e, NewMem) => Turns(e, "new", "preflight", None, NoLock, "none")
<1> DEFINE m == [NewMem EXCEPT !.at = "dead"]
<1>1. /\ m \in Memories /\ m.at = "dead" /\ m.doing = "preflight" /\ m.owner = None
      /\ m.tomb = NoLock /\ m.plan = "none"
  BY DEF Memories, NewMem, Places, Ended, Doing, Plans
<1>2. /\ NewMem \in Memories /\ NewMem.at = "new" /\ NewMem.doing = "preflight" /\ NewMem.owner = None
      /\ NewMem.tomb = NoLock /\ NewMem.plan = "none"
  BY DEF Memories, NewMem, Places, Ended, Doing, Plans
<1> QED
  BY <1>1, <1>2, Assigned

---------------------------------------------------------------------------
(* What the actions do to the memory of their process. *)

Typed ==
  /\ mem \in [Exec -> Memories] /\ owner \in Exec \cup {None} /\ lock \in Locks \cup {NoLock}
  /\ receipt.state \in Terminal \cup {"none", "retryable"}

(* The actions of preflight before the lock. *)
LEMMA AskingTurns ==
  ASSUME Typed, NEW e \in Exec
  PROVE  /\ Ask(e) => Walks(e, "claim")
         /\ Claim(e) => \/ owner = None /\ owner' = e /\ Turns(e, "lock", "launch", e, mem[e].tomb, mem[e].plan)
                        \/ owner # None /\ UNCHANGED <<owner, beat>> /\ Walks(e, "read")
         /\ ReadReceipt(e) =>
              \/ receipt.state = "none" /\ Walks(e, "beat") /\ UNCHANGED ans
              \/ /\ receipt.state # "none" /\ receipt.owner # mem[e].owner
                 /\ Walks(e, "over") /\ ans' = [ans EXCEPT ![e] = "failed"]
              \/ receipt.owner = mem[e].owner /\ Walks(e, "lock") /\ UNCHANGED ans
              \/ /\ receipt.state \in Terminal
                 /\ Walks(e, "over") /\ ans' = [ans EXCEPT ![e] = receipt.state]
         /\ ReadBeat(e) => \/ Walks(e, "over") /\ ans' = [ans EXCEPT ![e] = "running"]
                           \/ Walks(e, "lock") /\ UNCHANGED ans
<1>1. /\ {"claim", "read", "beat", "over", "lock"} \subseteq Places
      /\ "launch" \in Doing
  BY DEF Places, Locking, Ended, Doing, Touching
<1>2. Ask(e) => Walks(e, "claim")
  BY <1>1, GotoTurns DEF Ask, Typed
<1>3. Claim(e) => \/ owner = None /\ owner' = e /\ Turns(e, "lock", "launch", e, mem[e].tomb, mem[e].plan)
                  \/ owner # None /\ UNCHANGED <<owner, beat>> /\ Walks(e, "read")
  BY <1>1, GotoTurns, LockTurns DEF Claim, Typed
<1>4. /\ Goto(e, "beat") => Walks(e, "beat")
      /\ Goto(e, "lock") => Walks(e, "lock")
      /\ Goto(e, "over") => Walks(e, "over")
  BY <1>1, GotoTurns DEF Typed
<1>5. ReadReceipt(e) =>
              \/ receipt.state = "none" /\ Walks(e, "beat") /\ UNCHANGED ans
              \/ /\ receipt.state # "none" /\ receipt.owner # mem[e].owner
                 /\ Walks(e, "over") /\ ans' = [ans EXCEPT ![e] = "failed"]
              \/ receipt.owner = mem[e].owner /\ Walks(e, "lock") /\ UNCHANGED ans
              \/ /\ receipt.state \in Terminal
                 /\ Walks(e, "over") /\ ans' = [ans EXCEPT ![e] = receipt.state]
  BY <1>4 DEF ReadReceipt, Answer
<1>6. ReadBeat(e) => \/ Walks(e, "over") /\ ans' = [ans EXCEPT ![e] = "running"]
                     \/ Walks(e, "lock") /\ UNCHANGED ans
  BY <1>4 DEF ReadBeat, Answer
<1> QED
  BY <1>2, <1>3, <1>5, <1>6

(* The actions on the transition lock. *)
LEMMA LockingTurns ==
  ASSUME Typed, NEW e \in Exec
  PROVE  /\ Lock(e) => \/ lock = NoLock /\ lock' = [token |-> e, fresh |-> TRUE] /\ Walks(e, "held") /\ UNCHANGED ans
                       \/ UNCHANGED lock /\ lock.fresh /\ Refused(e)
                       \/ /\ UNCHANGED <<lock, ans>> /\ lock # NoLock /\ ~lock.fresh /\ Walks(e, "check")
                          /\ Overlap \/ \A f \in Exec : mem[f].at \notin Reclaiming
         /\ Check(e) => Refused(e) \/ (Walks(e, "steal") /\ UNCHANGED ans)
         /\ Steal(e) => \/ lock = NoLock /\ UNCHANGED lock /\ Refused(e)
                        \/ /\ lock # NoLock /\ lock' = NoLock /\ UNCHANGED ans
                           /\ Turns(e, "remake", mem[e].doing, mem[e].owner, lock, mem[e].plan)
         /\ Remake(e) => \/ /\ lock = NoLock /\ lock' = [token |-> e, fresh |-> TRUE]
                            /\ Turns(e, "held", mem[e].doing, mem[e].owner, NoLock, mem[e].plan)
                         \/ UNCHANGED lock /\ Walks(e, "putback")
         /\ Release(e) => Then(e) \/ (Walks(e, "unlock") /\ lock.token = e)
<1>1. {"held", "check", "steal", "remake", "putback", "unlock"} \subseteq Places
  BY DEF Places, Locking
<1>2. \A p \in {"held", "check", "steal", "remake", "putback", "unlock"} : Goto(e, p) => Walks(e, p)
  BY <1>1, GotoTurns DEF Typed
<1>3. \A p \in {"held", "remake"} : \A t \in Locks \cup {NoLock} :
        Becomes(e, [mem[e] EXCEPT !.tomb = t, !.at = p])
          => Turns(e, p, mem[e].doing, mem[e].owner, t, mem[e].plan)
  BY <1>1, TombTurns DEF Typed
<1>4. lock \in Locks \cup {NoLock} /\ NoLock \in Locks \cup {NoLock}
  BY DEF Typed
<1>5. Lock(e) => \/ lock = NoLock /\ lock' = [token |-> e, fresh |-> TRUE] /\ Walks(e, "held") /\ UNCHANGED ans
                 \/ UNCHANGED lock /\ lock.fresh /\ Refused(e)
                 \/ /\ UNCHANGED <<lock, ans>> /\ lock # NoLock /\ ~lock.fresh /\ Walks(e, "check")
                    /\ Overlap \/ \A f \in Exec : mem[f].at \notin Reclaiming
  BY <1>2 DEF Lock
<1>6. Check(e) => Refused(e) \/ (Walks(e, "steal") /\ UNCHANGED ans)
  BY <1>2 DEF Check
<1>7. Steal(e) => \/ lock = NoLock /\ UNCHANGED lock /\ Refused(e)
                  \/ /\ lock # NoLock /\ lock' = NoLock /\ UNCHANGED ans
                     /\ Turns(e, "remake", mem[e].doing, mem[e].owner, lock, mem[e].plan)
  BY <1>3, <1>4 DEF Steal
<1>8. Remake(e) => \/ /\ lock = NoLock /\ lock' = [token |-> e, fresh |-> TRUE]
                      /\ Turns(e, "held", mem[e].doing, mem[e].owner, NoLock, mem[e].plan)
                   \/ UNCHANGED lock /\ Walks(e, "putback")
  BY <1>2, <1>3, <1>4 DEF Remake
<1>9. Release(e) => Then(e) \/ (Walks(e, "unlock") /\ lock.token = e)
  BY <1>2 DEF Release
<1> QED
  BY <1>5, <1>6, <1>7, <1>8, <1>9

(* The actions under the lock. *)
LEMMA HoldingTurns ==
  ASSUME Typed, NEW e \in Exec
  PROVE  /\ Recheck(e) =>
              \/ /\ receipt.state \in Terminal
                 /\ Walks(e, "release") /\ ans' = [ans EXCEPT ![e] = receipt.state]
              \/ Walks(e, "release") /\ ans' = [ans EXCEPT ![e] = "running"]
              \/ \E p \in {"replace", "resume", "succeeded", "failed"} :
                   /\ Turns(e, "assert", mem[e].doing, owner, mem[e].tomb, p) /\ UNCHANGED ans
                   /\ receipt.state \notin Terminal
                   /\ p = "replace" => receipt.state = "retryable"
                   /\ p = "resume" => receipt.state = "none" /\ beat # "fresh" /\ art = "media"
                   /\ p = "succeeded" => art = "complete"
         /\ Finalize(e) =>
              \/ Walks(e, "release") /\ ans' = [ans EXCEPT ![e] = "failed"]
              \/ /\ receipt.state \in Terminal
                 /\ Walks(e, "release") /\ ans' = [ans EXCEPT ![e] = receipt.state]
              \/ \E p \in {"retryable", "succeeded", "failed"} :
                   /\ Turns(e, "assert", mem[e].doing, owner, mem[e].tomb, p) /\ UNCHANGED ans
                   /\ owner = e /\ ~(receipt.state \in Terminal /\ receipt.owner = e)
                   /\ p = "succeeded" => art = "complete"
         /\ AssertOwner(e) => \/ Walks(e, "write") /\ UNCHANGED ans
                              \/ Walks(e, "over") /\ ans' = [ans EXCEPT ![e] = "error"]
         /\ Write(e) => \/ /\ mem[e].plan \in {"replace", "resume"}
                           /\ owner' = e /\ Walks(e, "write2") /\ UNCHANGED <<beat, receipt, ans>>
                        \/ /\ mem[e].plan \notin {"replace", "resume"} /\ UNCHANGED owner
                           /\ receipt' = [state |-> mem[e].plan, owner |-> mem[e].owner]
                           /\ beat' \in {beat, "fresh"}
                           /\ Walks(e, "release") /\ ans' = [ans EXCEPT ![e] = mem[e].plan]
         /\ Replaced(e) => Walks(e, "release")
         /\ Touch(e) => Walks(e, "release") /\ (UNCHANGED beat \/ (owner = e /\ beat' = "fresh"))
<1>1. {"write", "over", "write2"} \subseteq Places /\ {"replace", "resume", "retryable", "succeeded", "failed"} \subseteq Plans
  BY DEF Places, Locking, Ended, Plans, Terminal
<1>2. \A p \in {"write", "over", "write2"} : Goto(e, p) => Walks(e, p)
  BY SMTT(30), <1>1, GotoTurns DEF Typed
<1>3. ASSUME NEW a PROVE Conclude(e, a) => Walks(e, "release") /\ ans' = [ans EXCEPT ![e] = a]
  BY ReleaseTurns DEF Conclude, Typed
<1>4. \A p \in Plans : ToAssert(e, p) => Turns(e, "assert", mem[e].doing, owner, mem[e].tomb, p) /\ UNCHANGED ans
  BY AssertTurns DEF Typed
<1>5. Recheck(e) =>
              \/ /\ receipt.state \in Terminal
                 /\ Walks(e, "release") /\ ans' = [ans EXCEPT ![e] = receipt.state]
              \/ Walks(e, "release") /\ ans' = [ans EXCEPT ![e] = "running"]
              \/ \E p \in {"replace", "resume", "succeeded", "failed"} :
                   /\ Turns(e, "assert", mem[e].doing, owner, mem[e].tomb, p) /\ UNCHANGED ans
                   /\ receipt.state \notin Terminal
                   /\ p = "replace" => receipt.state = "retryable"
                   /\ p = "resume" => receipt.state = "none" /\ beat # "fresh" /\ art = "media"
                   /\ p = "succeeded" => art = "complete"
  <2>1. CASE receipt.state = "retryable" /\ ToAssert(e, "replace")
    BY <1>1, <1>4, <2>1 DEF Terminal
  <2>2. CASE receipt.state = "none" /\ beat # "fresh" /\ ToAssert(e, Leftover)
    <3>1. PICK p \in {"resume", "succeeded", "failed"} :
            /\ p = Leftover /\ (p = "resume" => art = "media") /\ (p = "succeeded" => art = "complete")
      BY DEF Leftover
    <3> QED
      BY <1>1, <1>4, <2>2, <3>1 DEF Terminal
  <2> QED
    BY <1>3, <2>1, <2>2 DEF Recheck
<1>6. Finalize(e) =>
              \/ Walks(e, "release") /\ ans' = [ans EXCEPT ![e] = "failed"]
              \/ /\ receipt.state \in Terminal
                 /\ Walks(e, "release") /\ ans' = [ans EXCEPT ![e] = receipt.state]
              \/ \E p \in {"retryable", "succeeded", "failed"} :
                   /\ Turns(e, "assert", mem[e].doing, owner, mem[e].tomb, p) /\ UNCHANGED ans
                   /\ owner = e /\ ~(receipt.state \in Terminal /\ receipt.owner = e)
                   /\ p = "succeeded" => art = "complete"
  <2>1. PICK p \in {"retryable", "succeeded", "failed"} : p = Outcome(e) /\ (p = "succeeded" => art = "complete")
    BY DEF Outcome
  <2> QED
    BY <1>1, <1>3, <1>4, <2>1 DEF Finalize
<1>7. AssertOwner(e) => \/ Walks(e, "write") /\ UNCHANGED ans
                        \/ Walks(e, "over") /\ ans' = [ans EXCEPT ![e] = "error"]
  BY <1>2 DEF AssertOwner, Answer
<1>8. Write(e) => \/ /\ mem[e].plan \in {"replace", "resume"}
                     /\ owner' = e /\ Walks(e, "write2") /\ UNCHANGED <<beat, receipt, ans>>
                  \/ /\ mem[e].plan \notin {"replace", "resume"} /\ UNCHANGED owner
                     /\ receipt' = [state |-> mem[e].plan, owner |-> mem[e].owner]
                     /\ beat' \in {beat, "fresh"}
                     /\ Walks(e, "release") /\ ans' = [ans EXCEPT ![e] = mem[e].plan]
  BY SMTT(30), <1>2, <1>3 DEF Write
<1>9. Replaced(e) => Walks(e, "release")
  BY ZenonT(60), ReleaseTurns DEF Replaced, Typed
<1>10. Touch(e) => Walks(e, "release") /\ (UNCHANGED beat \/ (owner = e /\ beat' = "fresh"))
  BY ReleaseTurns DEF Touch, Typed
<1> QED
  BY <1>5, <1>6, <1>7, <1>8, <1>9, <1>10

(* The downloader and the stitcher. *)
LEMMA ActingTurns ==
  ASSUME Typed, NEW e \in Exec
  PROVE  /\ Failing(e) => Turns(e, "lock", "finalize", mem[e].owner, mem[e].tomb, mem[e].plan)
         /\ Launch(e) => \/ Turns(e, "lock", "finalize", mem[e].owner, mem[e].tomb, mem[e].plan)
                         \/ Turns(e, "lock", "reserve", e, mem[e].tomb, mem[e].plan)
         /\ Reserve(e) => \/ art' = art /\ Turns(e, "lock", "finalize", mem[e].owner, mem[e].tomb, mem[e].plan)
                          \/ /\ art = "none" /\ art' = "reserved"
                             /\ Turns(e, "lock", "save", e, mem[e].tomb, mem[e].plan)
         /\ Save(e) => Turns(e, "lock", "stitch", e, mem[e].tomb, mem[e].plan)
         /\ Stitch(e) => Turns(e, "lock", "commit", e, mem[e].tomb, mem[e].plan)
         /\ Commit(e) => Turns(e, "lock", "finalize", mem[e].owner, mem[e].tomb, mem[e].plan)
<1>1. \A r \in {"ok", "busy", "failed"} :
        ToFinalize(e, r) => Turns(e, "lock", "finalize", mem[e].owner, mem[e].tomb, mem[e].plan)
  BY FinalizeTurns DEF Typed
<1>2. \A w \in {"reserve", "save", "stitch", "commit"} :
        ToLock(e, w) => Turns(e, "lock", w, e, mem[e].tomb, mem[e].plan)
  BY LockTurns DEF Typed, Doing, Touching
<1> QED
  BY <1>1, <1>2 DEF Failing, Launch, Reserve, Save, Stitch, Commit

---------------------------------------------------------------------------
(* The types, and what is in the output folder.  Timing does not matter. *)

Safe == TypeOK /\ ArtInv

LEMMA SafeTyped == Safe => Typed
BY DEF Safe, TypeOK, Typed

(* A step of process e keeps the others' knowledge of the folder. *)
LEMMA ArtKept ==
  ASSUME ArtInv, NEW e \in Exec, NEW p, NEW w, NEW j, NEW t, NEW l, Turns(e, p, w, j, t, l),
         art' = art, owner # None => owner' # None,
         p = "new" => w = "preflight" /\ l = "none",
         p \in {"claim", "read", "receipt", "beat"} => w = "preflight",
         p \notin Ended =>
           /\ p # "claim" => owner' # None
           /\ w = "save" => (Live(e) /\ mem[e].doing = "save") \/ art = "reserved"
           /\ w = "save" => \A f \in Exec \ {e} : ~(Live(f) /\ mem[f].doing = "save")
           /\ w \in {"stitch", "commit"} => art \in {"media", "complete"}
           /\ l = "resume" => art \in {"media", "complete"}
           /\ l = "succeeded" => art = "complete"
  PROVE  ArtInv'
<1>1. \A f \in Exec \ {e} : mem'[f] = mem[f]
  BY DEF Turns
<1>2. mem'[e].at = p /\ mem'[e].doing = w /\ mem'[e].plan = l
  BY DEF Turns
<1>3. Founded(e)'
  BY <1>2 DEF Founded, Live, ArtInv
<1>4. ASSUME NEW f \in Exec \ {e} PROVE Founded(f)'
  BY <1>1 DEF Founded, Live, ArtInv
<1>5. ASSUME NEW f \in Exec, NEW g \in Exec, Live(f)', Live(g)', mem'[f].doing = "save", mem'[g].doing = "save"
      PROVE  f = g
  BY <1>1, <1>2, <1>5 DEF Live, ArtInv
<1> QED
  BY <1>3, <1>4, <1>5 DEF ArtInv

(* The process goes on and knows what it knew. *)
LEMMA ArtWalks ==
  ASSUME ArtInv, NEW e \in Exec, NEW p \in Places, Walks(e, p), art' = art, owner # None => owner' # None,
         Live(e) \/ p \in {"over", "dead"},
         p # "new", p \in {"claim", "read", "receipt", "beat"} => mem[e].doing = "preflight",
         p \notin {"claim", "over", "dead"} => owner' # None
  PROVE  ArtInv'
<1>1. Founded(e) /\ \A f \in Exec \ {e} : Live(e) /\ mem[e].doing = "save" => ~(Live(f) /\ mem[f].doing = "save")
  BY DEF ArtInv
<1> QED
  BY <1>1, ArtKept DEF Walks, Founded, Ended, Live

(* It will record its result next. *)
LEMMA ArtFinalizes ==
  ASSUME ArtInv, NEW e \in Exec, NEW j, NEW t, Live(e), mem[e].at # "claim",
         Turns(e, "lock", "finalize", j, t, mem[e].plan), UNCHANGED <<art, owner>>
  PROVE  ArtInv'
<1>1. Founded(e)
  BY DEF ArtInv
<1> QED
  BY <1>1, ArtKept DEF Founded

(* Asking, and the lock. *)
LEMMA ArtAsking ==
  ASSUME Typed, ArtInv, NEW e \in Exec, Ask(e) \/ Claim(e) \/ ReadOwner(e) \/ ReadReceipt(e) \/ ReadBeat(e)
  PROVE  ArtInv'
<1>1. Founded(e) /\ UNCHANGED art /\ (owner # None => owner' # None)
  BY IdempotencyAssumption DEF ArtInv, Ask, Claim, ReadOwner, ReadReceipt, ReadBeat, files
<1>2. {"claim", "read", "receipt", "beat", "lock", "over"} \subseteq Places
  BY DEF Places, Locking, Ended
<1>3. CASE Ask(e)
  BY <1>1, <1>2, <1>3, AskingTurns, ArtKept DEF Ask, Walks, Founded, At
<1>4. CASE Claim(e)
  <2>1. Live(e) /\ At(e, "claim") /\ mem[e].doing = "preflight"
    BY <1>1, <1>4 DEF Claim, At, Live, Ended, Founded
  <2>2. CASE owner = None /\ owner' = e /\ Turns(e, "lock", "launch", e, mem[e].tomb, mem[e].plan)
    BY <1>1, <2>1, <2>2, ArtKept, IdempotencyAssumption DEF Founded
  <2>3. CASE owner # None /\ UNCHANGED owner /\ Walks(e, "read")
    BY <1>1, <1>2, <2>1, <2>3, ArtWalks
  <2> QED
    BY <1>4, <2>2, <2>3, AskingTurns
<1>5. CASE ReadOwner(e)
  <2>1. Live(e) /\ At(e, "read") /\ mem[e].doing = "preflight" /\ UNCHANGED owner
    BY <1>1, <1>5 DEF ReadOwner, At, Live, Ended, Founded, files
  <2>2. Turns(e, "receipt", mem[e].doing, owner, mem[e].tomb, mem[e].plan)
    BY <1>5, ReadTurns DEF Typed
  <2> QED
    BY <1>1, <2>1, <2>2, ArtKept DEF Founded, At
<1>6. CASE ReadReceipt(e) \/ ReadBeat(e)
  <2>1. Live(e) /\ mem[e].at # "claim" /\ mem[e].doing = "preflight" /\ UNCHANGED owner
    BY <1>1, <1>6 DEF ReadReceipt, ReadBeat, At, Live, Ended, Founded, files
  <2>2. Walks(e, "beat") \/ Walks(e, "over") \/ Walks(e, "lock")
    BY <1>6, AskingTurns
  <2> QED
    BY <1>1, <1>2, <2>1, <2>2, ArtWalks DEF Founded
<1> QED
  BY <1>3, <1>4, <1>5, <1>6

LEMMA ArtLocking ==
  ASSUME Typed, ArtInv, NEW e \in Exec,
         Lock(e) \/ Check(e) \/ Steal(e) \/ Remake(e) \/ PutBack(e) \/ Release(e) \/ Unlock(e)
  PROVE  ArtInv'
<1>1. Founded(e) /\ UNCHANGED <<art, owner>>
  BY DEF ArtInv, Lock, Check, Steal, Remake, PutBack, Release, Unlock, files
<1>2. {"held", "check", "steal", "remake", "putback", "unlock", "act", "over", "lock"} \subseteq Places
  BY DEF Places, Locking, Ended, Work
<1>3. Live(e) /\ mem[e].at # "claim" /\ owner # None
  BY <1>1 DEF Lock, Check, Steal, Remake, PutBack, Release, Unlock, At, Live, Ended, Founded
<1>4. ASSUME NEW p \in Places, p \notin {"new", "claim", "read", "receipt", "beat"}, Walks(e, p) PROVE ArtInv'
  BY <1>1, <1>3, <1>4, ArtWalks
<1>5. ASSUME NEW t, Turns(e, "lock", "finalize", mem[e].owner, t, mem[e].plan) PROVE ArtInv'
  BY <1>1, <1>3, <1>5, ArtFinalizes
<1>6. ASSUME NEW p \in {"over", "remake", "held"}, NEW t, Turns(e, p, mem[e].doing, mem[e].owner, t, mem[e].plan)
      PROVE  ArtInv'
  <2>1. \A f \in Exec \ {e} : mem[e].doing = "save" => ~(Live(f) /\ mem[f].doing = "save")
    BY <1>3 DEF ArtInv
  <2> QED
    BY <1>1, <1>3, <1>6, <2>1, ArtKept DEF Founded
<1>7. ASSUME Then(e) PROVE ArtInv'
  <2>1. CASE Walks(e, "act") \/ Walks(e, "over")
    BY <1>2, <1>4, <2>1
  <2>2. CASE \/ Turns(e, "lock", "launch", e, mem[e].tomb, "none")
             \/ Turns(e, "lock", "finalize", e, mem[e].tomb, "none")
    BY <1>1, <1>3, <2>2, ArtKept
  <2>3. CASE Turns(e, "lock", "stitch", e, mem[e].tomb, "none") /\ mem[e].plan = "resume"
    <3>1. art \in {"media", "complete"}
      BY <1>1, <1>3, <2>3 DEF Founded
    <3> QED
      BY <1>1, <1>3, <2>3, <3>1, ArtKept
  <2> QED
    BY <1>7, <2>1, <2>2, <2>3, ThenTurns DEF Typed
<1>8. ASSUME Refused(e) PROVE ArtInv'
  BY <1>2, <1>4, <1>5, <1>8, RefusedTurns DEF Typed
<1>9. CASE Lock(e) \/ Check(e)
  BY <1>2, <1>4, <1>8, <1>9, LockingTurns
<1>10. CASE Steal(e) \/ Remake(e)
  BY <1>2, <1>4, <1>6, <1>8, <1>10, LockingTurns
<1>11. CASE PutBack(e)
  BY <1>5, <1>6, <1>11, PutBackTurns DEF Typed
<1>12. CASE Release(e) \/ Unlock(e)
  BY <1>2, <1>4, <1>7, <1>12, LockingTurns DEF Unlock
<1> QED
  BY <1>9, <1>10, <1>11, <1>12

(* What is done under the lock. *)
LEMMA ArtHolding ==
  ASSUME Typed, ArtInv, NEW e \in Exec,
         Recheck(e) \/ Finalize(e) \/ AssertOwner(e) \/ Write(e) \/ Replaced(e) \/ Touch(e)
  PROVE  ArtInv'
<1>1. Founded(e) /\ UNCHANGED art
  BY DEF ArtInv, Recheck, Finalize, AssertOwner, Write, Replaced, Touch, files
<1>2. {"release", "write", "over", "write2"} \subseteq Places
  BY DEF Places, Locking, Ended
<1>3. Live(e) /\ mem[e].at # "claim" /\ owner # None
  BY <1>1 DEF Recheck, Finalize, AssertOwner, Write, Replaced, Touch, At, Live, Ended, Founded
<1>4. owner' # None
  BY <1>3, IdempotencyAssumption DEF Recheck, Finalize, AssertOwner, Write, Replaced, Touch, files
<1>5. ASSUME NEW p \in {"release", "write", "over", "write2"}, Walks(e, p) PROVE ArtInv'
  BY <1>1, <1>2, <1>3, <1>4, <1>5, ArtWalks
<1>6. ASSUME NEW l, Turns(e, "assert", mem[e].doing, owner, mem[e].tomb, l),
             l = "resume" => art = "media", l = "succeeded" => art = "complete"
      PROVE  ArtInv'
  <2>1. \A f \in Exec \ {e} : mem[e].doing = "save" => ~(Live(f) /\ mem[f].doing = "save")
    BY <1>3 DEF ArtInv
  <2> QED
    BY <1>1, <1>3, <1>4, <1>6, <2>1, ArtKept DEF Founded
<1>7. CASE Recheck(e)
  BY <1>5, <1>6, <1>7, HoldingTurns
<1>8. CASE Finalize(e)
  BY <1>5, <1>6, <1>8, HoldingTurns
<1>9. CASE AssertOwner(e) \/ Write(e) \/ Replaced(e) \/ Touch(e)
  BY <1>5, <1>9, HoldingTurns
<1> QED
  BY <1>7, <1>8, <1>9

(* What downloader and stitcher do to the output folder. *)
LEMMA ArtActing ==
  ASSUME Typed, ArtInv, NEW e \in Exec,
         Failing(e) \/ Launch(e) \/ Reserve(e) \/ Save(e) \/ Stitch(e) \/ Commit(e)
  PROVE  /\ ArtInv' /\ UNCHANGED <<owner, beat, receipt, lock, ans>>
         /\ art = "complete" => art' = "complete"
<1>1. /\ Founded(e) /\ UNCHANGED <<owner, beat, receipt, lock, ans>>
      /\ At(e, "act") /\ Live(e) /\ owner # None
  BY DEF ArtInv, Failing, Launch, Reserve, Save, Stitch, Commit, Acts, At, Live, Ended, Founded
<1>2. \A f \in Exec : Founded(f) /\ (f # e /\ mem[e].doing = "save" => ~(Live(f) /\ mem[f].doing = "save"))
  BY <1>1 DEF ArtInv
<1>3. CASE UNCHANGED art /\ Turns(e, "lock", "finalize", mem[e].owner, mem[e].tomb, mem[e].plan)
  BY <1>1, <1>3, ArtFinalizes DEF At
<1>4. CASE Stitch(e) \/ (Launch(e) /\ Turns(e, "lock", "reserve", e, mem[e].tomb, mem[e].plan))
  <2>1. UNCHANGED art /\ (Stitch(e) => mem[e].doing = "stitch")
    BY <1>4 DEF Stitch, Launch, Acts, For
  <2>2. \E w \in {"reserve", "commit"} : /\ Turns(e, "lock", w, e, mem[e].tomb, mem[e].plan)
                                         /\ w = "commit" => mem[e].doing = "stitch"
    BY <1>4, <2>1, ActingTurns
  <2> QED
    BY <1>1, <2>1, <2>2, ArtKept DEF Founded, At
<1>5. ASSUME NEW p, NEW w, NEW j, Turns(e, p, w, j, mem[e].tomb, mem[e].plan), p = "lock",
             \/ art = "none" /\ art' = "reserved" /\ w = "save"
             \/ mem[e].doing = "save" /\ art' \in {"failed", "media"} /\ w = "finalize"
             \/ mem[e].doing = "save" /\ art' = "media" /\ w = "stitch"
             \/ mem[e].doing = "commit" /\ art' = "complete" /\ w = "finalize"
      PROVE  ArtInv' /\ (art = "complete" => art' = "complete")
  <2>1. \A f \in Exec \ {e} : mem'[f] = mem[f]
    BY <1>5 DEF Turns
  <2>2. mem'[e].at = "lock" /\ mem'[e].doing = w /\ mem'[e].plan = mem[e].plan
    BY <1>5 DEF Turns
  <2>3. Founded(e)'
    BY <1>1, <1>5, <2>2 DEF Founded, Live, Ended
  <2>4. ASSUME NEW f \in Exec \ {e} PROVE Founded(f)'
    BY <1>1, <1>2, <1>5, <2>1 DEF Founded, Live
  <2>5. ASSUME NEW f \in Exec, NEW g \in Exec, Live(f)', Live(g)', mem'[f].doing = "save", mem'[g].doing = "save"
        PROVE  f = g
    BY <1>2, <1>5, <2>1, <2>2, <2>5 DEF Live, Founded, ArtInv
  <2>6. art = "complete" => art' = "complete"
    BY <1>1, <1>5 DEF Founded
  <2> QED
    BY <2>3, <2>4, <2>5, <2>6 DEF ArtInv
<1>6. CASE Failing(e)
  BY <1>3, <1>5, <1>6, ActingTurns DEF Failing, For
<1>7. CASE Reserve(e)
  <2>1. CASE art = "none" /\ art' = "reserved" /\ Turns(e, "lock", "save", e, mem[e].tomb, mem[e].plan)
    BY <1>1, <1>5, <2>1
  <2> QED
    BY <1>1, <1>3, <1>7, <2>1, ActingTurns
<1>8. CASE Save(e) \/ Commit(e)
  BY <1>5, <1>8, ActingTurns DEF Save, Commit, Acts, For
<1>9. CASE Launch(e)
  <2>1. UNCHANGED art
    BY <1>9 DEF Launch
  <2> QED
    BY <1>1, <1>3, <1>4, <1>9, <2>1, ActingTurns
<1>10. CASE Stitch(e)
  <2>1. UNCHANGED art
    BY <1>10 DEF Stitch
  <2> QED
    BY <1>1, <1>4, <1>10, <2>1
<1> QED
  BY <1>1, <1>6, <1>7, <1>8, <1>9, <1>10

\* The types, part by part.
FileTypes ==
  /\ owner \in Exec \cup {None} /\ beat \in {"none", "fresh", "stale"}
  /\ receipt \in [state: Terminal \cup {"none", "retryable"}, owner: Exec \cup {None}]
  /\ (owner = None <=> beat = "none")
AnsTypes == ans \in [Exec -> Terminal \cup {"none", "running", "retryable", "error"}]
ArtTypes == /\ art \in {"none", "reserved", "failed", "media", "complete"}
            /\ receipt.state = "succeeded" => art = "complete"
BoundTypes == /\ crashes \in 0..MaxCrash /\ sleeps \in 0..MaxSleep
              /\ hangs \in 0..MaxHang /\ busies \in 0..MaxBusy

LEMMA TypeParts ==
  TypeOK <=> FileTypes /\ AnsTypes /\ ArtTypes /\ BoundTypes /\ lock \in Locks \cup {NoLock}
             /\ mem \in [Exec -> Memories]
BY DEF TypeOK, FileTypes, AnsTypes, ArtTypes, BoundTypes

(* The memories stay memories, and a step changes one of them. *)
LEMMA MemoryTypes ==
  ASSUME Typed, NEW e \in Exec, Ask(e) \/ Step(e) \/ Crash(e) \/ Recycle(e)
  PROVE  mem' \in [Exec -> Memories] /\ \A f \in Exec \ {e} : mem'[f] = mem[f]
<1> DEFINE Other == mem' \in [Exec -> Memories] /\ \A f \in Exec \ {e} : mem'[f] = mem[f]
<1>1. ASSUME NEW p, NEW w, NEW j, NEW t, NEW l, Turns(e, p, w, j, t, l) PROVE Other
  BY <1>1 DEF Turns
<1>2. ASSUME NEW p, Walks(e, p) PROVE Other
  BY <1>1, <1>2 DEF Walks
<1> HIDE DEF Other
<1> SUFFICES Other
  BY DEF Other
<1>3. Refused(e) => Other
  BY <1>1, <1>2, RefusedTurns DEF Typed
<1>4. Then(e) => Other
  BY <1>1, <1>2, ThenTurns DEF Typed
<1>5. CASE Ask(e) \/ Claim(e) \/ ReadReceipt(e) \/ ReadBeat(e)
  BY <1>1, <1>2, <1>5, AskingTurns
<1>6. CASE ReadOwner(e) \/ PutBack(e)
  BY <1>1, <1>2, <1>6, ReadTurns, PutBackTurns DEF Typed
<1>7. CASE Lock(e) \/ Check(e) \/ Steal(e)
  BY <1>1, <1>2, <1>3, <1>7, LockingTurns
<1>8. CASE Remake(e) \/ Release(e) \/ Unlock(e)
  BY <1>1, <1>2, <1>4, <1>8, LockingTurns DEF Unlock
<1>9. CASE Recheck(e) \/ Finalize(e)
  BY <1>1, <1>2, <1>9, HoldingTurns
<1>10. CASE AssertOwner(e) \/ Write(e) \/ Replaced(e) \/ Touch(e)
  BY <1>1, <1>2, <1>10, HoldingTurns
<1>11. CASE Failing(e) \/ Launch(e) \/ Reserve(e) \/ Save(e) \/ Stitch(e) \/ Commit(e)
  BY <1>1, <1>11, ActingTurns
<1>12. CASE Crash(e) \/ Recycle(e)
  BY <1>1, <1>12, CrashTurns DEF Crash, Recycle, Typed
<1> QED
  BY <1>5, <1>6, <1>7, <1>8, <1>9, <1>10, <1>11, <1>12 DEF Step

(* So does the lock. *)
LEMMA LockTypes ==
  ASSUME Typed, NEW e \in Exec, Ask(e) \/ Step(e) \/ Crash(e) \/ Recycle(e)
  PROVE  lock' \in Locks \cup {NoLock}
<1>1. [token |-> e, fresh |-> TRUE] \in Locks
  BY DEF Locks
<1>2. mem[e].tomb \in Locks \cup {NoLock}
  BY Parts DEF Typed
<1>3. lock \in Locks \cup {NoLock}
  BY DEF Typed
<1>4. CASE Lock(e) \/ Steal(e) \/ Remake(e) \/ PutBack(e) \/ Unlock(e)
  BY <1>1, <1>2, <1>3, <1>4 DEF Lock, Steal, Remake, PutBack, Unlock
<1>5. CASE UNCHANGED lock
  BY <1>3, <1>5
<1>6. CASE Ask(e) \/ Claim(e) \/ ReadOwner(e) \/ ReadReceipt(e) \/ ReadBeat(e) \/ Check(e) \/ Release(e)
  BY <1>5, <1>6 DEF Ask, Claim, ReadOwner, ReadReceipt, ReadBeat, Check, Release, files
<1>7. CASE Recheck(e) \/ Finalize(e) \/ AssertOwner(e) \/ Write(e) \/ Replaced(e) \/ Touch(e)
  BY <1>5, <1>7 DEF Recheck, Finalize, AssertOwner, Write, Replaced, Touch, files
<1>8. CASE Failing(e) \/ Launch(e) \/ Reserve(e) \/ Save(e) \/ Stitch(e) \/ Commit(e)
  BY <1>5, <1>8 DEF Failing, Launch, Reserve, Save, Stitch, Commit, Acts
<1>9. CASE Crash(e) \/ Recycle(e)
  BY <1>5, <1>9 DEF Crash, Recycle, files
<1> QED
  BY <1>4, <1>6, <1>7, <1>8, <1>9 DEF Step

(* The steps that leave owner, heartbeat and receipt alone. *)
LEMMA JobUntouched ==
  ASSUME Typed, NEW e \in Exec,
         \/ Ask(e) \/ ReadOwner(e) \/ ReadReceipt(e) \/ ReadBeat(e)
         \/ Lock(e) \/ Check(e) \/ Steal(e) \/ Remake(e) \/ PutBack(e) \/ Release(e) \/ Unlock(e)
         \/ Recheck(e) \/ Finalize(e) \/ AssertOwner(e)
         \/ Failing(e) \/ Launch(e) \/ Reserve(e) \/ Save(e) \/ Stitch(e) \/ Commit(e)
         \/ Crash(e) \/ Recycle(e)
  PROVE  UNCHANGED <<owner, beat, receipt>>
<1>1. CASE Ask(e) \/ ReadOwner(e) \/ ReadReceipt(e) \/ ReadBeat(e) \/ Recheck(e) \/ Finalize(e) \/ AssertOwner(e)
  BY <1>1 DEF Ask, ReadOwner, ReadReceipt, ReadBeat, Recheck, Finalize, AssertOwner, files
<1>2. CASE Lock(e) \/ Check(e) \/ Steal(e) \/ Remake(e) \/ PutBack(e) \/ Release(e) \/ Unlock(e)
  BY <1>2 DEF Lock, Check, Steal, Remake, PutBack, Release, Unlock, files
<1>3. CASE Failing(e) \/ Launch(e) \/ Reserve(e) \/ Save(e) \/ Stitch(e) \/ Commit(e)
  BY <1>3 DEF Failing, Launch, Reserve, Save, Stitch, Commit, Acts
<1>4. CASE Crash(e) \/ Recycle(e)
  BY <1>4 DEF Crash, Recycle, files
<1> QED
  BY <1>1, <1>2, <1>3, <1>4

(* Owner, heartbeat and receipt. *)
LEMMA FileStep ==
  ASSUME Safe, NEW e \in Exec, Ask(e) \/ Step(e) \/ Crash(e) \/ Recycle(e)
  PROVE  FileTypes'
<1>1. FileTypes /\ Typed /\ Founded(e)
  BY TypeParts, SafeTyped DEF Safe, ArtInv
<1>2. CASE UNCHANGED <<owner, beat, receipt>>
  BY <1>1, <1>2 DEF FileTypes
<1>3. CASE Claim(e)
  BY <1>1, <1>3, IdempotencyAssumption DEF Claim, FileTypes
<1>4. CASE Write(e)
  <2>1. owner # None
    BY <1>1, <1>4 DEF Write, At, Live, Ended, Founded
  <2>2. mem[e].owner \in Exec \cup {None} /\ mem[e].plan \in Plans
    BY <1>1, Parts DEF Typed
  <2>3. CASE owner' = e /\ UNCHANGED <<beat, receipt>>
    BY <1>1, <2>1, <2>3, IdempotencyAssumption DEF FileTypes
  <2>4. CASE /\ mem[e].plan \notin {"replace", "resume"} /\ UNCHANGED owner
             /\ receipt' = [state |-> mem[e].plan, owner |-> mem[e].owner]
             /\ beat' \in {beat, "fresh"}
    <3>1. mem[e].plan \in Terminal \cup {"none", "retryable"}
      BY <2>2, <2>4 DEF Plans
    <3>2. receipt' \in [state: Terminal \cup {"none", "retryable"}, owner: Exec \cup {None}]
      BY <2>2, <2>4, <3>1
    <3> QED
      BY <1>1, <2>1, <2>4, <3>2 DEF FileTypes
  <2> QED
    BY <1>1, <1>4, <2>3, <2>4, HoldingTurns
<1>5. CASE Replaced(e)
  <2>1. owner # None
    BY <1>1, <1>5 DEF Replaced, At, Live, Ended, Founded
  <2>2. NoReceipt \in [state: Terminal \cup {"none", "retryable"}, owner: Exec \cup {None}]
    BY DEF NoReceipt
  <2> QED
    BY <1>1, <1>5, <2>1, <2>2 DEF Replaced, FileTypes
<1>6. CASE Touch(e)
  <2>1. owner # None
    BY <1>1, <1>6 DEF Touch, At, Live, Ended, Founded
  <2> QED
    BY <1>1, <1>6, <2>1 DEF Touch, FileTypes
<1> QED
  BY <1>1, <1>2, <1>3, <1>4, <1>5, <1>6, JobUntouched DEF Step

(* The steps that answer nobody. *)
LEMMA Unanswered ==
  ASSUME NEW e \in Exec,
         \/ Ask(e) \/ Claim(e) \/ ReadOwner(e) \/ Remake(e) \/ Release(e) \/ Unlock(e)
         \/ Replaced(e) \/ Touch(e)
         \/ Failing(e) \/ Launch(e) \/ Reserve(e) \/ Save(e) \/ Stitch(e) \/ Commit(e)
  PROVE  UNCHANGED ans
<1>1. CASE Ask(e) \/ Claim(e) \/ ReadOwner(e) \/ Remake(e) \/ Release(e) \/ Unlock(e)
  BY <1>1 DEF Ask, Claim, ReadOwner, Remake, Release, Unlock
<1>2. CASE Replaced(e) \/ Touch(e)
  BY <1>2 DEF Replaced, Touch
<1>3. CASE Failing(e) \/ Launch(e) \/ Reserve(e) \/ Save(e) \/ Stitch(e) \/ Commit(e)
  BY <1>3 DEF Failing, Launch, Reserve, Save, Stitch, Commit, Acts
<1> QED
  BY <1>1, <1>2, <1>3

\* Process e is answered v.
Answers(e, v) == ans' = [ans EXCEPT ![e] = v]

(* What a step answers: what the receipt says, nothing final, or that the   *)
(* receipt or the job is of another owner (failed).                         *)
LEMMA AnswerKinds ==
  ASSUME Typed, NEW e \in Exec, Ask(e) \/ Step(e) \/ Crash(e) \/ Recycle(e)
  PROVE  \/ UNCHANGED ans
         \/ Answers(e, "none") \/ Answers(e, "running") \/ Answers(e, "error")
         \/ Answers(e, receipt.state) /\ receipt.state \in Terminal /\ UNCHANGED receipt
         \/ Answers(e, "failed")
         \/ /\ Write(e) /\ mem[e].plan \notin {"replace", "resume"} /\ Answers(e, mem[e].plan)
            /\ receipt'.state = mem[e].plan
<1>1. Refused(e) => UNCHANGED ans \/ Answers(e, "running")
  BY RefusedTurns DEF Answers, Typed
<1>2. CASE ReadReceipt(e)
  BY <1>2, AskingTurns, JobUntouched DEF Answers
<1>3. CASE ReadBeat(e)
  BY <1>3, AskingTurns DEF Answers
<1>4. CASE Lock(e) \/ Check(e) \/ Steal(e)
  BY <1>1, <1>4, LockingTurns
<1>5. CASE PutBack(e)
  BY <1>5, PutBackTurns DEF Answers, Typed
<1>6. CASE Recheck(e) \/ Finalize(e)
  BY <1>6, HoldingTurns, JobUntouched DEF Answers
<1>7. CASE AssertOwner(e)
  BY <1>7, HoldingTurns DEF Answers
<1>8. CASE Write(e)
  <2>1. CASE UNCHANGED ans
    BY <2>1
  <2>2. CASE /\ mem[e].plan \notin {"replace", "resume"} /\ Answers(e, mem[e].plan)
             /\ receipt' = [state |-> mem[e].plan, owner |-> mem[e].owner]
    BY <1>8, <2>2
  <2> QED
    BY <1>8, <2>1, <2>2, HoldingTurns DEF Answers
<1>9. CASE Crash(e) \/ Recycle(e)
  BY <1>9 DEF Crash, Recycle, Answers
<1> QED
  BY <1>2, <1>3, <1>4, <1>5, <1>6, <1>7, <1>8, <1>9, Unanswered DEF Step

LEMMA AnsStep ==
  ASSUME Safe, NEW e \in Exec, Ask(e) \/ Step(e) \/ Crash(e) \/ Recycle(e)
  PROVE  AnsTypes'
<1>1. AnsTypes /\ Typed /\ mem[e].plan \in Plans
  BY TypeParts, SafeTyped, Parts DEF Safe, Typed
<1>2. ASSUME NEW v \in Terminal \cup {"none", "running", "retryable", "error"}, Answers(e, v)
      PROVE  AnsTypes'
  BY <1>1, <1>2 DEF Answers, AnsTypes
<1>3. CASE UNCHANGED ans
  BY <1>1, <1>3 DEF AnsTypes
<1>4. CASE Answers(e, "none") \/ Answers(e, "running") \/ Answers(e, "error")
  BY <1>2, <1>4
<1>5. CASE Answers(e, receipt.state) /\ receipt.state \in Terminal
  BY <1>2, <1>5
<1>6. CASE Answers(e, "failed")
  BY <1>2, <1>6 DEF Terminal
<1>7. CASE mem[e].plan \notin {"replace", "resume"} /\ Answers(e, mem[e].plan)
  BY <1>1, <1>2, <1>7 DEF Plans
<1> QED
  BY <1>1, <1>3, <1>4, <1>5, <1>6, <1>7, AnswerKinds

(* Which step writes which receipt. *)
LEMMA ReceiptKinds ==
  ASSUME Typed, NEW e \in Exec, Ask(e) \/ Step(e) \/ Crash(e) \/ Recycle(e)
  PROVE  \/ UNCHANGED receipt
         \/ Replaced(e) /\ receipt' = NoReceipt
         \/ /\ Write(e) /\ mem[e].plan \notin {"replace", "resume"} /\ UNCHANGED owner
            /\ receipt' = [state |-> mem[e].plan, owner |-> mem[e].owner]
<1>1. CASE Claim(e) \/ Touch(e)
  BY <1>1 DEF Claim, Touch
<1>2. CASE Write(e)
  BY <1>2, HoldingTurns
<1>3. CASE Replaced(e)
  BY <1>3 DEF Replaced
<1> QED
  BY <1>1, <1>2, <1>3, JobUntouched DEF Step

(* What is in the output folder stays there once a success is recorded. *)
LEMMA FolderStep ==
  ASSUME Safe, NEW e \in Exec, Ask(e) \/ Step(e) \/ Crash(e) \/ Recycle(e)
  PROVE  ArtTypes'
<1>1. ArtTypes /\ Typed /\ Founded(e)
  BY TypeParts, SafeTyped DEF Safe, ArtInv
<1>2. CASE Failing(e) \/ Launch(e) \/ Reserve(e) \/ Save(e) \/ Stitch(e) \/ Commit(e)
  <2>1. UNCHANGED receipt /\ (art = "complete" => art' = "complete")
    BY <1>1, <1>2, ArtActing DEF Safe
  <2>2. art' \in {"none", "reserved", "failed", "media", "complete"}
    BY <1>1, <1>2 DEF ArtTypes, Failing, Launch, Reserve, Save, Stitch, Commit
  <2> QED
    BY <1>1, <2>1, <2>2 DEF ArtTypes
<1>3. CASE UNCHANGED art
  <2>1. CASE UNCHANGED receipt
    BY <1>1, <1>3, <2>1 DEF ArtTypes
  <2>2. CASE receipt' = NoReceipt
    BY <1>1, <1>3, <2>2 DEF ArtTypes, NoReceipt
  <2>3. CASE Write(e) /\ receipt' = [state |-> mem[e].plan, owner |-> mem[e].owner]
    <3>1. receipt'.state = "succeeded" => art = "complete"
      BY <1>1, <2>3 DEF Founded, Write, At, Live, Ended
    <3> QED
      BY <1>1, <1>3, <3>1 DEF ArtTypes
  <2> QED
    BY <1>1, <2>1, <2>2, <2>3, ReceiptKinds
<1>4. CASE Ask(e) \/ Claim(e) \/ ReadOwner(e) \/ ReadReceipt(e) \/ ReadBeat(e) \/ Crash(e) \/ Recycle(e)
  BY <1>3, <1>4 DEF Ask, Claim, ReadOwner, ReadReceipt, ReadBeat, Crash, Recycle, files
<1>5. CASE Lock(e) \/ Check(e) \/ Steal(e) \/ Remake(e) \/ PutBack(e) \/ Release(e) \/ Unlock(e)
  BY <1>3, <1>5 DEF Lock, Check, Steal, Remake, PutBack, Release, Unlock, files
<1>6. CASE Recheck(e) \/ Finalize(e) \/ AssertOwner(e) \/ Write(e) \/ Replaced(e) \/ Touch(e)
  BY <1>3, <1>6 DEF Recheck, Finalize, AssertOwner, Write, Replaced, Touch, files
<1> QED
  BY <1>2, <1>4, <1>5, <1>6 DEF Step

LEMMA BoundStep ==
  ASSUME TypeOK, NEW e \in Exec, Ask(e) \/ Step(e) \/ Crash(e) \/ Recycle(e)
  PROVE  BoundTypes'
<1>1. BoundTypes /\ {MaxCrash, MaxBusy} \subseteq Nat
  BY TypeParts, IdempotencyAssumption
<1>2. CASE UNCHANGED bounds
  BY <1>1, <1>2 DEF BoundTypes, bounds
<1>3. CASE Launch(e)
  <2>1. CASE busies < MaxBusy /\ busies' = busies + 1 /\ UNCHANGED <<crashes, sleeps, hangs>>
    BY <1>1, <2>1 DEF BoundTypes
  <2> QED
    BY <1>2, <1>3, <2>1 DEF Launch
<1>4. CASE Crash(e)
  <2>1. crashes < MaxCrash /\ crashes' = crashes + 1 /\ UNCHANGED <<sleeps, hangs, busies>>
    BY <1>4 DEF Crash
  <2> QED
    BY <1>1, <2>1 DEF BoundTypes
<1>5. CASE Ask(e) \/ Claim(e) \/ ReadOwner(e) \/ ReadReceipt(e) \/ ReadBeat(e) \/ Recycle(e)
  BY <1>2, <1>5 DEF Ask, Claim, ReadOwner, ReadReceipt, ReadBeat, Recycle
<1>6. CASE Lock(e) \/ Check(e) \/ Steal(e) \/ Remake(e) \/ PutBack(e) \/ Release(e) \/ Unlock(e)
  BY <1>2, <1>6 DEF Lock, Check, Steal, Remake, PutBack, Release, Unlock
<1>7. CASE Recheck(e) \/ Finalize(e) \/ AssertOwner(e) \/ Write(e) \/ Replaced(e) \/ Touch(e)
  BY <1>2, <1>7 DEF Recheck, Finalize, AssertOwner, Write, Replaced, Touch
<1>8. CASE Failing(e) \/ Reserve(e) \/ Save(e) \/ Stitch(e) \/ Commit(e)
  BY <1>2, <1>8 DEF Failing, Reserve, Save, Stitch, Commit
<1> QED
  BY <1>3, <1>4, <1>5, <1>6, <1>7, <1>8 DEF Step

(* Time goes by. *)
LEMMA SafeAges ==
  ASSUME Safe, BeatAges \/ LockAges
  PROVE  Safe'
<1>1. UNCHANGED <<owner, receipt, art, mem, ans, crashes, busies>>
  BY DEF BeatAges, LockAges
<1>2. /\ beat' \in {"none", "fresh", "stale"} /\ (owner' = None <=> beat' = "none")
      /\ lock' \in Locks \cup {NoLock}
  <2>1. CASE BeatAges
    BY <2>1 DEF BeatAges, Safe, TypeOK
  <2>2. CASE LockAges
    <3>1. lock \in Locks
      BY <2>2 DEF LockAges, Safe, TypeOK, NoLock
    <3>2. lock' \in Locks
      BY <2>2, <3>1 DEF LockAges, Locks
    <3> QED
      BY <2>2, <3>2 DEF LockAges, Safe, TypeOK
  <2> QED
    BY <2>1, <2>2
<1>3. sleeps' \in 0..MaxSleep /\ hangs' \in 0..MaxHang
  BY IdempotencyAssumption DEF BeatAges, LockAges, Safe, TypeOK
<1>4. TypeOK'
  BY <1>1, <1>2, <1>3 DEF Safe, TypeOK
<1>5. ArtInv'
  BY <1>1 DEF Safe, ArtInv, Founded, Live
<1> QED
  BY <1>4, <1>5 DEF Safe

LEMMA SafeStep == Safe /\ [Next]_vars => Safe'
<1> SUFFICES ASSUME Safe, [Next]_vars PROVE Safe'
  OBVIOUS
<1>0. Typed
  BY SafeTyped
<1>1. ASSUME NEW e \in Exec, Ask(e) \/ Step(e) \/ Crash(e) \/ Recycle(e) PROVE Safe'
  <2>1. TypeOK
    BY DEF Safe
  <2>2. FileTypes' /\ AnsTypes'
    BY <1>1, FileStep, AnsStep
  <2>3. ArtTypes' /\ BoundTypes'
    BY <1>1, <2>1, FolderStep, BoundStep
  <2>4. lock' \in Locks \cup {NoLock} /\ mem' \in [Exec -> Memories]
    BY <1>0, <1>1, LockTypes, MemoryTypes
  <2>5. TypeOK'
    BY <2>2, <2>3, <2>4, TypeParts DEF TypeOK, FileTypes, AnsTypes, ArtTypes, BoundTypes
  <2>6. ArtInv
    BY DEF Safe
  <2>7. CASE Crash(e)
    <3>1. UNCHANGED <<art, owner>> /\ Turns(e, "dead", "preflight", None, NoLock, "none")
      BY <1>0, <2>7, CrashTurns DEF Crash, files, Typed
    <3> QED
      BY <2>5, <2>6, <3>1, ArtKept DEF Safe, Ended
  <2>8. CASE Recycle(e)
    <3>1. UNCHANGED <<art, owner>> /\ Turns(e, "new", "preflight", None, NoLock, "none")
      BY <1>0, <2>8, CrashTurns DEF Recycle, files, Typed
    <3> QED
      BY <2>5, <2>6, <3>1, ArtKept DEF Safe, Ended
  <2>9. CASE Ask(e) \/ Step(e)
    <3>1. ArtInv'
      BY <1>0, <2>6, <2>9, ArtAsking, ArtLocking, ArtHolding, ArtActing DEF Step
    <3> QED
      BY <2>5, <3>1 DEF Safe
  <2> QED
    BY <1>1, <2>7, <2>8, <2>9
<1>2. CASE UNCHANGED vars
  BY <1>2 DEF vars, files, bounds, Safe, TypeOK, ArtInv, Founded, Live
<1> QED
  BY <1>1, <1>2, SafeAges DEF Next

LEMMA SafeInit == Init => Safe
<1> SUFFICES ASSUME Init PROVE Safe
  OBVIOUS
<1>1. NewMem \in Memories /\ NewMem.at = "new" /\ NewMem.doing = "preflight" /\ NewMem.plan = "none"
  BY DEF NewMem, Memories, Places, Ended, Doing, Plans
<1>2. mem \in [Exec -> Memories] /\ \A e \in Exec : mem[e] = NewMem
  BY <1>1 DEF Init
<1>3. TypeOK
  BY <1>2, IdempotencyAssumption DEF Init, TypeOK, NoReceipt
<1>4. ArtInv
  BY <1>1, <1>2 DEF ArtInv, Founded, Live, Ended
<1> QED
  BY <1>3, <1>4 DEF Safe

(* The variables have the types that TypeOK states, and a success is only   *)
(* recorded of a complete output folder, whatever the timing.               *)
THEOREM TypeCorrect == Spec => []TypeOK
<1>1. Safe => TypeOK
  BY DEF Safe
<1> QED
  BY <1>1, SafeInit, SafeStep, PTL DEF Spec

---------------------------------------------------------------------------
(* The output folder and the answers. *)

\* How the output folder may change.
Advances == {<<"none", "reserved">>, <<"reserved", "media">>, <<"reserved", "failed">>,
             <<"media", "complete">>}

(* Only downloader and stitcher change the folder, and only forwards. *)
LEMMA FolderAdvances ==
  ASSUME Safe, [Next]_vars, art' # art
  PROVE  <<art, art'>> \in Advances
<1>1. PICK e \in Exec : Ask(e) \/ Step(e) \/ Crash(e) \/ Recycle(e)
  BY DEF Next, BeatAges, LockAges, vars, files
<1>2. Founded(e)
  BY DEF Safe, ArtInv
<1>3. ~(Ask(e) \/ Claim(e) \/ ReadOwner(e) \/ ReadReceipt(e) \/ ReadBeat(e) \/ Crash(e) \/ Recycle(e))
  BY DEF Ask, Claim, ReadOwner, ReadReceipt, ReadBeat, Crash, Recycle, files
<1>4. ~(Lock(e) \/ Check(e) \/ Steal(e) \/ Remake(e) \/ PutBack(e) \/ Release(e) \/ Unlock(e))
  BY DEF Lock, Check, Steal, Remake, PutBack, Release, Unlock, files
<1>5. ~(Recheck(e) \/ Finalize(e) \/ AssertOwner(e) \/ Write(e) \/ Replaced(e) \/ Touch(e))
  BY DEF Recheck, Finalize, AssertOwner, Write, Replaced, Touch, files
<1>6. CASE Failing(e) \/ Save(e)
  <2>1. mem[e].doing = "save" /\ Live(e) /\ art' \in {"failed", "media"}
    BY <1>6 DEF Failing, Save, Acts, At, For, Live, Ended
  <2> QED
    BY <1>2, <2>1 DEF Founded, Advances
<1>7. CASE Commit(e)
  <2>1. mem[e].doing = "commit" /\ Live(e) /\ art' = "complete"
    BY <1>7 DEF Commit, Acts, At, For, Live, Ended
  <2> QED
    BY <1>2, <2>1 DEF Founded, Advances
<1>8. CASE Launch(e) \/ Reserve(e) \/ Stitch(e)
  BY <1>8 DEF Launch, Reserve, Stitch, Advances
<1> QED
  BY <1>1, <1>3, <1>4, <1>5, <1>6, <1>7, <1>8 DEF Step

(* Who has been told of a success may rely on it. *)
LEMMA SuccessStays ==
  ASSUME Safe, Safe', SuccessIsComplete, [Next]_vars
  PROVE  SuccessIsComplete'
<1>1. art = "complete" => art' = "complete"
  BY FolderAdvances DEF Advances
<1>2. CASE UNCHANGED ans
  BY <1>1, <1>2 DEF SuccessIsComplete
<1>3. CASE ~UNCHANGED ans
  <2>1. PICK e \in Exec : Ask(e) \/ Step(e) \/ Crash(e) \/ Recycle(e)
    BY <1>3 DEF Next, BeatAges, LockAges, vars
  <2>2. AnsTypes
    BY TypeParts DEF Safe
  <2>3. ASSUME NEW v, Answers(e, v), v = "succeeded" => art' = "complete"
        PROVE  SuccessIsComplete'
    <3>1. \A f \in Exec : ans'[f] = ans[f] \/ ans'[f] = v
      BY <2>2, <2>3 DEF Answers, AnsTypes
    <3> QED
      BY <1>1, <2>3, <3>1 DEF SuccessIsComplete
  <2>4. CASE Answers(e, "none") \/ Answers(e, "running") \/ Answers(e, "error") \/ Answers(e, "failed")
    BY <2>3, <2>4
  <2>5. CASE Answers(e, receipt.state)
    <3>1. receipt.state = "succeeded" => art = "complete"
      BY DEF Safe, TypeOK
    <3> QED
      BY <1>1, <2>3, <2>5, <3>1
  <2>6. CASE Answers(e, mem[e].plan) /\ receipt'.state = mem[e].plan
    <3>1. receipt'.state = "succeeded" => art' = "complete"
      BY DEF Safe, TypeOK
    <3> QED
      BY <2>3, <2>6, <3>1
  <2>7. Typed
    BY SafeTyped
  <2> QED
    BY <1>3, <2>1, <2>4, <2>5, <2>6, <2>7, AnswerKinds
<1> QED
  BY <1>2, <1>3

(* Whoever has been told that a job succeeded can rely on a complete folder, *)
(* whoever takes over and whatever happens to the lock (preflight, finalize).*)
THEOREM SuccessMeansComplete == Spec => []SuccessIsComplete
<1>1. Init => Safe /\ SuccessIsComplete
  BY SafeInit DEF Init, SuccessIsComplete
<1>2. Safe /\ SuccessIsComplete /\ [Next]_vars => (Safe /\ SuccessIsComplete)'
  BY SafeStep, SuccessStays
<1> QED
  BY <1>1, <1>2, PTL DEF Spec

(* A job is downloaded at most once and what is in its folder is not undone: *)
(* it is reserved, then filled or given up, and never reserved again; media  *)
(* are stitched, and a complete folder stays complete, even if two processes *)
(* believe they hold the lock (reserveOutput, main of downloader, stitcher). *)
THEOREM DownloadedOnce == Spec => [][art' # art => <<art, art'>> \in Advances]_vars
<1>1. Safe /\ [Next]_vars => [art' # art => <<art, art'>> \in Advances]_vars
  BY FolderAdvances
<1> QED
  BY <1>1, SafeInit, SafeStep, PTL DEF Spec
===========================================================================
