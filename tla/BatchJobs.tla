------------------------------ MODULE BatchJobs ------------------------------
(* browser_extract_many and browser_job_status on the agent: a batch of URLs   *)
(* is traversed through the queue of its session, inline or as a job that is   *)
(* polled (apps/windows-agent/src/executors.ts, jobs.ts).                      *)
(*                                                                            *)
(* A step of the agent is what runs between two awaits; `now` is Date.now().    *)
(* A poller keeps what it has been given and asks for what follows.             *)
(* Operators that no action uses are variants with a plausible mistake in      *)
(* them; each stands before the definition it varies.                         *)
EXTENDS Naturals, Sequences, FiniteSets, Functions

CONSTANTS
  Sessions,      \* browser session handles
  Batching,      \* those that are asked for batches; the others only poll
  Urls,          \* what a batch may name
  AdUrls,        \* those that are addresses of Kijiji ads
  Pages,         \* what they may show
  MaxBatches,    \* bound on the batches asked for
  MaxLength,     \* bound on the URLs of one, duplicates included
  MaxUrls,       \* and on those of all together
  MaxInline,     \* MAX_INLINE_BATCH_ITEMS
  Budget,        \* the time a call is given
  JobDeadline,   \* BATCH_JOB_DEADLINE_MS
  Retention,     \* IDEMPOTENCY_WINDOW_SECONDS
  MaxTime        \* bound on the clock

ASSUME BatchAssumption ==
  /\ \A page \in Pages : page \subseteq {"wall", "sold", "unavailable", "deleted", "adRemoved", "search"}
  /\ AdUrls \subseteq Urls /\ Batching \subseteq Sessions
  /\ {MaxBatches, MaxLength, MaxUrls, MaxInline, Budget, JobDeadline, Retention, MaxTime} \subseteq Nat

VARIABLES
  now,
  alive,    \* the sessions that resolve, with their tab
  queue,    \* SerialQueue of each session: the batch that runs and those behind
  run,      \* of each session: the deadline of the batch that runs and the URL it is at
  jobs,     \* BatchJobStore: the jobs it holds, by number
  batches,  \* history: every batch accepted, by number
  inline,   \* history: the inline answers, by number
  poller    \* of each batch: what its caller has been given and how it was told it ended

batchVars == <<now, alive, queue, run, jobs, batches, inline, poller>>

Ids == 1 .. Len(batches)
NoJob == [status |-> "none"]
NoRun == [pc |-> "idle", deadline |-> 0, done |-> <<>>]

BatchesInit ==
  /\ now = 0
  /\ alive = Sessions
  /\ queue = [s \in Sessions |-> <<>>]
  /\ run = [s \in Sessions |-> NoRun]
  /\ jobs = <<>> /\ batches = <<>> /\ inline = <<>> /\ poller = <<>>

-----------------------------------------------------------------------------
(* The store.                                                                  *)

\* A finished job that has aged out is dropped.
Prune(js) ==
  [i \in DOMAIN js |->
     IF js[i] # NoJob /\ js[i].finishedAt # {} /\ \A t \in js[i].finishedAt : t + Retention < now
     THEN NoJob ELSE js[i]]

NewJob(s) ==
  [status |-> "running", session |-> s, startedAt |-> now, finishedAt |-> {}, results |-> <<>>]

\* get: a job is found under the handle that created it only.
Held(js, i, s) == js[i] # NoJob /\ js[i].session = s

\* append and finish do nothing to a job that is gone.
Appended(i, slot) ==
  IF jobs[i] = NoJob THEN jobs ELSE [jobs EXCEPT ![i].results = Append(@, slot)]

Finished(i, status) ==
  IF jobs[i] = NoJob THEN jobs ELSE [jobs EXCEPT ![i].status = status, ![i].finishedAt = {now}]

\* jobProgress: the slots from sinceIndex on, which is clamped to what there is.
Least(a, b) == IF a < b THEN a ELSE b
ProgressPastIt(job, since) ==
  LET from == Least(since + 1, Len(job.results)) IN
  [status |-> job.status, from |-> from,
   results |-> SubSeq(job.results, from + 1, Len(job.results))]

Progress(job, since) ==
  LET from == Least(since, Len(job.results)) IN
  [status |-> job.status, from |-> from,
   results |-> SubSeq(job.results, from + 1, Len(job.results))]

-----------------------------------------------------------------------------
(* One URL.                                                                    *)

\* A page is what its reading shows: a bot wall, a status, the mark of a removed ad,
\* an ad's address that ended on a search.  'sold' and 'ended' are listings all the same.
IsDead(url, page) ==
  \/ page \cap {"unavailable", "deleted", "adRemoved"} # {}
  \/ url \in AdUrls /\ "search" \in page

\* A wall outranks what the shell behind it looks like.
Fault(url, page) ==
  CASE "wall" \in page -> "CHALLENGE_PAGE"
    [] "wall" \notin page /\ IsDead(url, page) -> "LISTING_UNAVAILABLE"
    [] OTHER -> "none"

Slot(url, fault, walled) == [url |-> url, fault |-> fault, walled |-> walled]

\* traverseOne: whatever goes wrong is the slot of this URL.
Slots(s, url) ==
  {Slot(url, "NAVIGATION_FAILED", FALSE)} \cup
  IF s \in alive THEN {Slot(url, Fault(url, page), "wall" \in page) : page \in Pages} ELSE {}

-----------------------------------------------------------------------------
(* The batch.                                                                  *)

Lists == UNION {[1 .. n -> Urls] : n \in 1 .. MaxLength}

AllOfThem(urls) == urls

\* [...new Set(urls)]: each URL once, where it was first named.
Unique(urls) ==
  LET first == {k \in DOMAIN urls : \A j \in 1 .. k - 1 : urls[j] # urls[k]}
      place(k) == Cardinality({j \in first : j <= k})
  IN  [p \in 1 .. Cardinality(first) |-> urls[CHOOSE k \in first : place(k) = p]]

Mode(asked, urls) ==
  IF asked # "auto" THEN asked
  ELSE IF Len(urls) <= MaxInline THEN "inline" ELSE "job"

\* executeExtractMany up to its first await.
ExtractMany(s, named, asked) ==
  /\ s \in alive
  /\ Len(batches) < MaxBatches
  /\ FoldFunction(LAMBDA b, n : Len(b.named) + n, Len(named), batches) <= MaxUrls
  /\ LET urls == Unique(named)
         mode == Mode(asked, urls)
         i == Len(batches) + 1
     IN  /\ batches' = Append(batches, [session |-> s, named |-> named, urls |-> urls, mode |-> mode, expires |-> now + Budget])
         /\ jobs' = Append(IF mode = "job" THEN Prune(jobs) ELSE jobs, IF mode = "job" THEN NewJob(s) ELSE NoJob)
         /\ queue' = [queue EXCEPT ![s] = Append(@, i)]
         /\ inline' = Append(inline, [status |-> "none", results |-> <<>>])
         /\ poller' = Append(poller, [told |-> "none", seen |-> <<>>])
  /\ UNCHANGED <<now, alive, run>>

Front(s) == Head(queue[s])
IsInline(i) == batches[i].mode = "inline"

\* The batch reaches the front.  An inline one that has expired is refused; its
\* budget, taken when the call arrived, starts here.  A job's runs from its creation.
StartBatch(s) ==
  /\ queue[s] # <<>> /\ run[s].pc = "idle"
  /\ IF IsInline(Front(s)) /\ batches[Front(s)].expires <= now
     THEN /\ inline' = [inline EXCEPT ![Front(s)].status = "REQUEST_EXPIRED"]
          /\ queue' = [queue EXCEPT ![s] = Tail(@)]
          /\ UNCHANGED run
     ELSE /\ run' = [run EXCEPT ![s] = [pc |-> "looping", done |-> <<>>,
                deadline |-> IF IsInline(Front(s)) THEN now + Budget
                             ELSE jobs[Front(s)].startedAt + JobDeadline]]
          /\ UNCHANGED <<inline, queue>>
  /\ UNCHANGED <<now, alive, jobs, batches, poller>>

NextUrl(s) == batches[Front(s)].urls[Len(run[s].done) + 1]
MoreUrls(s) == Len(run[s].done) < Len(batches[Front(s)].urls)

\* runBatch: the next URL, if there is time left.
StartItem(s) ==
  /\ run[s].pc = "looping" /\ MoreUrls(s) /\ now < run[s].deadline
  /\ run' = [run EXCEPT ![s].pc = "traversing"]
  /\ UNCHANGED <<now, alive, queue, jobs, batches, inline, poller>>

\* A traversal that throws when the session is gone: the queue goes on, the job does not.
EndItemOrBatch(s) ==
  /\ run[s].pc = "traversing"
  /\ IF s \in alive
     THEN \E slot \in Slots(s, NextUrl(s)) :
            /\ run' = [run EXCEPT ![s].pc = "looping", ![s].done = Append(@, slot)]
            /\ jobs' = Appended(Front(s), slot)
            /\ UNCHANGED queue
     ELSE /\ run' = [run EXCEPT ![s] = NoRun]
          /\ queue' = [queue EXCEPT ![s] = Tail(@)]
          /\ UNCHANGED jobs
  /\ UNCHANGED <<now, alive, batches, inline, poller>>

\* onItem: the slot goes to the job, or to the answer that is being made.
EndItem(s) ==
  /\ run[s].pc = "traversing"
  /\ \E slot \in Slots(s, NextUrl(s)) :
       /\ run' = [run EXCEPT ![s].pc = "looping", ![s].done = Append(@, slot)]
       /\ jobs' = Appended(Front(s), slot)
  /\ UNCHANGED <<now, alive, queue, batches, inline, poller>>

Outcome(s) == IF MoreUrls(s) THEN "partial" ELSE "completed"

\* The loop ends: every URL has its slot, or the deadline has passed.
EndBatch(s) ==
  /\ run[s].pc = "looping"
  /\ ~MoreUrls(s) \/ run[s].deadline <= now
  /\ LET i == Front(s) status == Outcome(s)
     IN  IF IsInline(i)
         THEN /\ inline' = [inline EXCEPT ![i] = [status |-> status, results |-> run[s].done]]
              /\ UNCHANGED jobs
         ELSE jobs' = Finished(i, status) /\ UNCHANGED inline
  /\ queue' = [queue EXCEPT ![s] = Tail(@)]
  /\ run' = [run EXCEPT ![s] = NoRun]
  /\ UNCHANGED <<now, alive, batches, poller>>

-----------------------------------------------------------------------------
(* The callers.                                                                *)

\* job_status, above the queue: the session must resolve, then the job be held.
Poll(i, s) ==
  /\ batches[i].mode = "job" /\ s \in alive
  /\ jobs' = Prune(jobs)
  /\ poller' =
       IF Held(Prune(jobs), i, s)
       THEN LET answer == Progress(jobs[i], Len(poller[i].seen)) IN
            [poller EXCEPT ![i] = [told |-> IF answer.status = "running" THEN "none" ELSE answer.status,
                seen |-> SubSeq(@.seen, 1, Least(answer.from, Len(@.seen))) \o answer.results]]
       ELSE IF s = batches[i].session THEN [poller EXCEPT ![i].told = "ARTIFACT_EXPIRED"] ELSE poller
  /\ UNCHANGED <<now, alive, queue, run, batches, inline>>

\* The console lists the jobs, which prunes the store; so does a poll whose answer is lost.
SnapshotJobs ==
  /\ jobs' = Prune(jobs)
  /\ UNCHANGED <<now, alive, queue, run, batches, inline, poller>>

\* The browser of a session goes; its queue does not.
SessionDies(s) ==
  /\ s \in alive
  /\ alive' = alive \ {s}
  /\ UNCHANGED <<now, queue, run, jobs, batches, inline, poller>>

Tick == now < MaxTime /\ now' = now + 1 /\ UNCHANGED <<alive, queue, run, jobs, batches, inline, poller>>

AgentStep(s) == StartBatch(s) \/ StartItem(s) \/ EndItem(s) \/ EndBatch(s)

BatchesNext ==
  \/ \E s \in Batching, named \in Lists, asked \in {"auto", "inline", "job"} : ExtractMany(s, named, asked)
  \/ \E s \in Batching : AgentStep(s) \/ SessionDies(s)
  \/ \E i \in Ids, s \in Sessions : Poll(i, s)
  \/ SnapshotJobs
  \/ Tick

BatchesSpec == BatchesInit /\ [][BatchesNext]_batchVars

\* The event loop runs what is due, and every await of a traversal ends: a navigation
\* has its budget, a page that is gone fails at once.
BatchFairness == \A s \in Sessions : WF_batchVars(AgentStep(s))

-----------------------------------------------------------------------------
(* Properties.                                                                 *)

Jobs == {i \in Ids : batches[i].mode = "job"}
UrlsOf(slots) == [k \in DOMAIN slots |-> slots[k].url]
IsPrefix(a, b) == Len(a) <= Len(b) /\ a = SubSeq(b, 1, Len(a))

\* A batch that is said to be completed has one slot for every URL named, no URL
\* twice, in the order of their first mention; one said to be partial stopped short
\* of that and only past the job's deadline; and no page behind a bot wall is reported as
\* a dead listing, which a deals watch would retire for good (runBatch, the dedupe before
\* it, the order of the checks in traverseOne, finish).
Whole(i, status, slots) ==
  /\ IsPrefix(UrlsOf(slots), batches[i].urls)
  /\ \A j, k \in DOMAIN slots : slots[j].url = slots[k].url => j = k
  /\ \A k \in DOMAIN slots : slots[k].walled => slots[k].fault = "CHALLENGE_PAGE"
  /\ status = "completed" => {slots[k].url : k \in DOMAIN slots} = {batches[i].named[k] : k \in DOMAIN batches[i].named}
  /\ status = "partial" => Len(slots) < Len(batches[i].urls)

BatchesEndWhole ==
  \A i \in Ids :
    /\ Whole(i, inline[i].status, inline[i].results)
    /\ jobs[i] # NoJob =>
         /\ Whole(i, jobs[i].status, jobs[i].results)
         /\ (jobs[i].status = "running") = (jobs[i].finishedAt = {})
         /\ jobs[i].status = "partial" => \A t \in jobs[i].finishedAt : t >= jobs[i].startedAt + JobDeadline

\* What a poller has been given is what the job holds, from the first slot on with
\* none skipped, repeated or of another batch; once it is told that the job has
\* ended it holds every slot the job will ever have, and none that waits or runs
\* has expired (append before finish, jobProgress and its clamp, the handle check of
\* get, prune, which spares a running job however old).
PollerMissesNothing ==
  \A i \in Jobs :
    /\ IsPrefix(UrlsOf(poller[i].seen), batches[i].urls)
    /\ jobs[i] # NoJob => IsPrefix(poller[i].seen, jobs[i].results)
    /\ jobs[i] # NoJob /\ poller[i].told \in {"completed", "partial"} =>
         poller[i].seen = jobs[i].results /\ poller[i].told = jobs[i].status
    /\ poller[i].told = "completed" => Len(poller[i].seen) = Len(batches[i].urls)
    /\ poller[i].told = "ARTIFACT_EXPIRED" =>
         \A k \in DOMAIN queue[batches[i].session] : queue[batches[i].session][k] # i

\* Every job that was accepted ends, with an outcome in the store, also when its
\* session dies while it waits or runs (the catch in traverseOne, the queue that outlives the browser).
JobsEnd == \A i \in 1 .. MaxBatches :
  (i \in Jobs) ~> (i \in Jobs /\ (jobs[i] = NoJob \/ jobs[i].status # "running"))
=============================================================================
