---------------------------- MODULE DcpInvariant ----------------------------
(***************************************************************************)
(* The inductive invariants of the training job, from the weaker to the    *)
(* stronger.  None of the properties is inductive alone.                   *)
(*                                                                         *)
(* IInv, behind PublishedIntact and StagingStable: each rank hands over    *)
(* one save at a time, a save is of an iteration every rank has reached,   *)
(* and this job and its predecessors never produce two versions of one     *)
(* iteration that are both still in use.                                   *)
(*                                                                         *)
(* DInv, behind AckedDurable: once anybody counts on a checkpoint, nobody  *)
(* will write anything else under its name.  LoaderKept, behind            *)
(* LoaderStatePublished: the dataloader file of a save is written before   *)
(* the save is handed over.                                                *)
(*                                                                         *)
(* PInv, behind LossBounded, CompletedDurable and ImplementsStore: rank 0  *)
(* leaves no save out, and the other ranks are never far from it.          *)
(***************************************************************************)
EXTENDS DcpCheckpoint

\* The storage assumption of the theorems.  With torn files possible, the
\* checkpoint the pointer names must never be rewritten: no zero checkpoint,
\* and no final save off the save_iter grid (see LatestLoadable).
SafeStorage == ObjectStore \/ (~SaveZero /\ SaveDue(MaxIter))

\* The types, with what makes them inductive: a rank only loads what the pointer
\* named.
TypeInv == TypeOK /\ \A r \in Ranks : pc[r] = "load" => resume[r] \in Iters

\* The worker of rank r holds a save it has not reported yet.
Busy(r) == wk[r].st \in {"plan", "wrote", "pkl", "pointer", "saved", "failed"}

Unstarted(r) == pc[r] \in {"boot", "load"}

\* Where the current incarnation started.
RestartAt == IF latest \in Iters THEN latest ELSE 0

\* One save at a time, async: while inflight it is in exactly one of the task
\* queue, the worker and the result queue, and the staging buffer belongs to it.
AsyncLane(r) ==
    /\ \/ tasks[r] = <<>>
       \/ /\ tasks[r] = <<SaveTask(stage[r].it)>>
          /\ inflight[r] /\ results[r] = <<>> /\ ~Busy(r)
       \/ /\ tasks[r] = <<Terminate>>
          /\ ~inflight[r] /\ pc[r] \in {"join", "barrier", "done"}
    /\ \/ results[r] = <<>>
       \/ /\ Len(results[r]) = 1
          /\ inflight[r] /\ tasks[r] = <<>> /\ ~Busy(r)
    /\ Busy(r) => inflight[r] /\ wk[r].it = stage[r].it
    /\ inflight[r] => /\ stage[r] \in Version
                      /\ stage[r].it <= it[r]
                      /\ pc[r] \notin {"boot", "load", "pkl", "stage", "join"}
    /\ pc[r] # "working"

\* One save at a time, sync: the main process is blocked in it.
SyncLane(r) ==
    /\ ~inflight[r]
    /\ tasks[r] = <<>>
    /\ pc[r] \notin {"pkl", "stage", "closing", "join"}
    /\ Busy(r) => pc[r] = "working" /\ wk[r].it = it[r]

Lane(r) == IF Async THEN AsyncLane(r) ELSE SyncLane(r)
Lanes   == \A r \in Ranks : Lane(r)

\* A rank that has not started knows nothing but the pointer, and nobody has
\* trained yet.
Booting ==
    \A r \in Ranks : Unstarted(r) =>
        /\ it[r] = 0
        /\ mem[r] = [job |-> job, it |-> 0]
        /\ pc[r] = "load" => latest \in Iters /\ resume[r] = latest
        /\ \A q \in Ranks : it[q] <= RestartAt

Progress ==
    \A r \in Ranks : Loaded(r) =>
        /\ mem[r].it = it[r]
        /\ latest \in Iters => latest <= it[r]

\* A version that can still be trained on, written or loaded.
Alive(v) ==
    \/ \E r \in Ranks : Loaded(r) /\ v = mem[r]
    \/ \E r \in Ranks : inflight[r] /\ v = stage[r]
    \/ latest \in Iters /\ v = shard[latest][1][0]

\* There is one version of each iteration: what is ahead of a rank was trained
\* by this job, and so was everything when no checkpoint exists.
Lineage ==
    /\ \A v, w \in Version : Alive(v) /\ Alive(w) /\ v.it = w.it => v = w
    /\ \A v \in Version, r \in Ranks :
          Alive(v) /\ Loaded(r) /\ v.it > it[r] => v.job = job
    /\ \A v \in Version : Alive(v) /\ latest \notin Iters => v.job = job

\* What the worker of rank r has got through of its save.
Written ==
    \A r \in Ranks : wk[r].st \in {"plan", "wrote"} =>
        /\ \A k \in Keys : k < wk[r].key =>
              k \in meta[wk[r].it] /\ shard[wk[r].it][k][r] = Source(r)
        /\ wk[r].st = "wrote" => shard[wk[r].it][wk[r].key][r] = Source(r)

\* The keys are all committed: the checkpoint rank 0 is about to publish is
\* intact, of a version still in use, and of an iteration every rank reached.
Publishing ==
    /\ \A r \in Ranks : wk[r].st = "pointer" => r = 0
    /\ wk[0].st \in {"pkl", "pointer"} =>
          /\ Intact(wk[0].it)
          /\ shard[wk[0].it][1][0] = Source(0)
          /\ \A q \in Ranks : ~Unstarted(q) /\ wk[0].it <= it[q]

\* Where a file can be torn, what rank 0 is saving is newer than the pointer.
Fresh ==
    ~ObjectStore =>
        /\ pc[0] \in {"save", "pkl", "stage"} => latest < it[0]
        /\ Async /\ inflight[0] /\ pc[0] = "save" => stage[0].it < it[0]
        /\ \A i \in Iters : tasks[0] = <<SaveTask(i)>> => latest < i
        /\ wk[0].st \in {"plan", "wrote", "pkl", "pointer"} => latest < wk[0].it

IInv ==
    /\ TypeOK
    /\ Lanes
    /\ Booting
    /\ Progress
    /\ Lineage
    /\ Written
    /\ Publishing
    /\ PublishedIntact
    /\ Fresh
-----------------------------------------------------------------------------
(***************************************************************************)
(* Durability: what AckedDurable and LoaderStatePublished need besides     *)
(* IInv.                                                                   *)
(***************************************************************************)

Saving(r) == pc[r] \in {"save", "pkl", "stage"}

\* The versions rank r is going to write, or is writing.
ToWrite(r) ==
    {v \in Version :
        \/ Saving(r) /\ v = mem[r]
        \/ tasks[r] = <<SaveTask(stage[r].it)>> /\ v = stage[r]
        \/ wk[r].st \in {"plan", "wrote"} /\ v = Source(r)}

\* Checkpoint i is intact and stays so: nobody is going to write anything else
\* under its name, every rank is past it, and a job resumes from it, or made it.
Settled(i) ==
    /\ Intact(i)
    /\ \A r \in Ranks :
          /\ Unstarted(r) => i = latest
          /\ Loaded(r) => i <= it[r]
          /\ \A v \in ToWrite(r) : v.it = i => ObjectStore /\ v = shard[i][1][0]
    /\ latest < i => shard[i][1][0].job = job

\* What is ahead of the pointer was trained by this job.
Ahead == \A v \in Version : Alive(v) /\ latest < v.it => v.job = job

\* Rank 0 never saves an iteration behind the pointer.
Forward ==
    /\ \A i \in Iters : tasks[0] = <<SaveTask(i)>> => latest <= i
    /\ wk[0].st \in {"plan", "wrote", "pkl", "pointer"} => latest <= wk[0].it

\* Where a file can be torn, a rank saves no iteration twice.
SavedOnce ==
    ~ObjectStore /\ Async =>
        \A r \in Ranks : inflight[r] /\ pc[r] = "save" => stage[r].it < it[r]

\* Somebody counts on checkpoint i: the pointer, a worker that is past its keys,
\* an answer on its way to a rank, or the callbacks of a rank.
Promised(i) ==
    \/ latest = i
    \/ \E r \in Ranks :
          \/ wk[r].st \in {"pkl", "pointer", "saved"} /\ wk[r].it = i
          \/ results[r] # <<>> /\ Head(results[r]).ok /\ Head(results[r]).it = i
          \/ Loaded(r) /\ acked[r] = i /\ i > 0

Durable == \A i \in Iters : Promised(i) => Settled(i)

\* Rank 0 is told of a success behind the move of the pointer.
Reported ==
    /\ wk[0].st = "saved" => wk[0].it <= latest
    /\ \A r \in Ranks : results[r] # <<>> => Head(results[r]).it = stage[r].it
    /\ results[0] # <<>> /\ Head(results[0]).ok => Head(results[0]).it <= latest
    /\ Loaded(0) /\ acked[0] > 0 => acked[0] <= latest

DInv == IInv /\ Ahead /\ Forward /\ SavedOnce /\ Durable /\ Reported

\* Async: the dataloader state of a save is in its file before the save is handed
\* over, and counts the iterations its weights were trained on.
LoaderKept ==
    Async /\ LoaderState =>
        /\ \A r \in Ranks :
              /\ wk[r].st # "pkl"
              /\ Unstarted(r) => pos[r] = 0
              /\ Loaded(r) => pos[r] = it[r]
              /\ pc[r] = "stage" => pkl[it[r]][r] = mem[r]
              /\ inflight[r] => pkl[stage[r].it][r] = stage[r]
              /\ wk[0].st = "pointer" => pkl[wk[0].it][r] = shard[wk[0].it][1][r]
        /\ LoaderStatePublished
-----------------------------------------------------------------------------
(***************************************************************************)
(* Progress: what LossBounded, CompletedDurable and ImplementsStore need   *)
(* besides DInv.                                                           *)
(***************************************************************************)

\* Of two ranks past the restart, one is at most one step ahead, and the other is
\* then waiting for it.
InStep ==
    \A r, q \in Ranks :
        \/ it[r] <= RestartAt
        \/ it[r] <= it[q]
        \/ it[r] = it[q] + 1 /\ pc[q] = "train"

\* Where rank 0 would restart once the save in progress has succeeded.
Handed == IF inflight[0] THEN stage[0].it ELSE RestartAt

\* Rank 0 leaves no periodic save out and has at most one pending.
Paced ==
    \A i \in Iters : SaveDue(i) =>
        /\ Loaded(0) /\ i < it[0] => i <= Handed
        /\ Loaded(0) /\ i = it[0] /\ ~Saving(0) /\ pc[0] # "working" => i <= Handed
        /\ inflight[0] /\ i < stage[0].it => i <= RestartAt

\* Rank 0 leaves the loop at the end, with everything saved or being saved.
Finished ==
    /\ pc[0] \in {"finalize", "closing", "join", "barrier", "done"} => it[0] = MaxIter
    /\ (Saving(0) \/ pc[0] = "working") /\ ret[0] = "finalize" => it[0] = MaxIter

Drained ==
    /\ pc[0] \in {"finalize", "closing", "join"} =>
          it[0] = IF inflight[0] THEN stage[0].it ELSE latest
    /\ pc[0] \in {"barrier", "done"} => wk[0].st = "dead" \/ latest = it[0]

\* A crash costs a bounded number of iterations.
Bounded == \A r \in Ranks : it[r] - RestartAt <= LossBound

PInv == DInv /\ InStep /\ Paced /\ Finished /\ Drained /\ Bounded
=============================================================================
