--------------------------- MODULE RunCheckpoints ---------------------------
(* deals.checkpoint and deals.resume: one row per run of a deals routine, read,  *)
(* merged and written without a lock (apps/gateway/src/runs/checkpoints.ts and   *)
(* the stores of apps/gateway/src/store).  Every owner drives one call at a time, *)
(* as the routine does; different owners may choose the same run id.              *)
EXTENDS Naturals, Sequences, FiniteSets, SequencesExt

CONSTANTS
  Owners,       \* OAuth subjects
  Runs,         \* run ids, chosen by the callers
  Count,        \* each owner has as many listing ids and queries
  MaxIds,       \* RUN_CHECKPOINT_MAX_IDS, and the bound of the queries searched
  MaxBytes,     \* RUN_CHECKPOINT_MAX_BYTES, an entry counting one
  Ttl,          \* RUN_CHECKPOINT_TTL_SECONDS
  MaxClock,     \* bound on the clock
  MaxWrites     \* bound on the checkpoints

ASSUME RunsAssumption == {Count, MaxIds, MaxBytes, Ttl, MaxClock, MaxWrites} \subseteq Nat

\* An entry, a listing id or a query, is known by the owner that found it.
Entry == Owners \X (1 .. Count)

VARIABLES
  clock,
  run,       \* run_checkpoints: the row of a run, as a set of at most one
  write,     \* of each owner: the checkpoint between its read and its write
  writes,    \* bounded by MaxWrites
  kept,      \* history: the row each owner was last told of, the ids it has had verified since its start;
             \* dropped when another owner's write that had not seen it replaces it
  resumed    \* what a resume has just been told, with the owner that asked

runsVars == <<clock, run, write, writes, kept, resumed>>

RunsInit ==
  /\ clock = 0
  /\ run = [r \in Runs |-> {}]
  /\ write = [o \in Owners |-> {}]
  /\ writes = 0
  /\ kept = [o \in Owners |-> [r \in Runs |-> {}]]
  /\ resumed = {}

-----------------------------------------------------------------------------
(* Merging and trimming.                                                       *)

\* union: what is new goes to the end, in its order.
Union(existing, incoming) ==
  FoldLeft(LAMBDA acc, x : IF Contains(acc, x) THEN acc ELSE Append(acc, x), existing, incoming)

Newest(list, n) == IF Len(list) > n THEN SubSeq(list, Len(list) - n + 1, Len(list)) ELSE list

Size(p) == Len(p.verified) + Len(p.pending) + Len(p.searched)

\* One entry less: of the longest list its oldest one, ties going to the verified ids,
\* then the pending ones.
ShorterBy(p, name) == [p EXCEPT ![name] = Tail(@)]
DropOrder == <<"verified", "pending", "searched">>
Longest(p) ==
  LET longest == CHOOSE k \in 1 .. 3 :
        /\ \A j \in 1 .. 3 : Len(p[DropOrder[j]]) <= Len(p[DropOrder[k]])
        /\ \A j \in 1 .. k - 1 : Len(p[DropOrder[j]]) < Len(p[DropOrder[k]])
  IN  DropOrder[longest]

\* So many entries less.
Shortened(count, payload) ==
  LET shorter[n \in Nat] == IF n = 0 THEN payload ELSE ShorterBy(shorter[n - 1], Longest(shorter[n - 1]))
  IN  shorter[count]

\* The count of each list first, then the size of all.
TrimToBounds(p) ==
  LET capped == [name \in DOMAIN p |-> Newest(p[name], MaxIds)] IN
  IF Size(capped) > MaxBytes THEN Shortened(Size(capped) - MaxBytes, capped) ELSE capped

Nothing == [verified |-> <<>>, pending |-> <<>>, searched |-> <<>>]

ReplacedOnly(existing, input) ==
  [verified |-> input.verified, searched |-> input.searched,
   pending |-> IF input.pending = {} THEN existing.pending ELSE CHOOSE q \in input.pending : TRUE]

\* checkpoint: what accumulates and what is replaced.
Merged(existing, input) ==
  [verified |-> Union(existing.verified, input.verified),
   searched |-> Union(existing.searched, input.searched),
   pending |-> IF input.pending = {} THEN existing.pending ELSE CHOOSE q \in input.pending : TRUE]

-----------------------------------------------------------------------------
(* The two operations.                                                         *)

\* get: an expired row is absent, whether or not it has been purged.
Get(r) == {x \in run[r] : x.expires > clock}

\* What a routine sends: an id it has verified or a query it has made, the work left,
\* perhaps that the run is complete; a status it leaves out is "same".
Inputs(o) ==
  [verified : {<<e>> : e \in {o} \X (1 .. Count)}, searched : {<<>>}, pending : {{}, {<<>>}}, status : {"same"}] \cup
  [verified : {<<>>}, searched : {<<<<o, 1>>>>}, pending : {{<<e>>} : e \in {o} \X (1 .. Count)}, status : {"same", "complete"}]

Blocked(existing, o) == \E x \in existing : x.owner # o

\* One that takes over whatever it finds.
StartCheckpointUnowned(o, r, input) ==
  /\ write[o] = {} /\ writes < MaxWrites
  /\ writes' = writes + 1
  /\ write' = [write EXCEPT ![o] = {[run |-> r, input |-> input, at |-> clock, existing |-> Get(r)]}]
  /\ resumed' = {}
  /\ UNCHANGED <<clock, run, kept>>

\* checkpoint up to the read; a run of another owner is refused.
StartCheckpoint(o, r, input) ==
  /\ write[o] = {} /\ writes < MaxWrites
  /\ writes' = writes + 1
  /\ write' = IF Blocked(Get(r), o) THEN write
              ELSE [write EXCEPT ![o] = {[run |-> r, input |-> input, at |-> clock, existing |-> Get(r)]}]
  /\ resumed' = {}
  /\ UNCHANGED <<clock, run, kept>>

Row(o, w) ==
  LET before == IF w.existing = {} THEN Nothing ELSE LET x == CHOOSE x \in w.existing : TRUE IN x.payload
      asked == w.input.status
  IN  [owner |-> o, payload |-> TrimToBounds(Merged(before, w.input)), updated |-> w.at, expires |-> w.at + Ttl,
       status |-> IF asked # "same" THEN asked
                  ELSE IF w.existing = {} THEN "running" ELSE LET x == CHOOSE x \in w.existing : TRUE IN x.status,
       started |-> IF w.existing = {} THEN w.at ELSE LET x == CHOOSE x \in w.existing : TRUE IN x.started]

\* History: of the ids verified so far those a row must have, all unless it is full.
Full(p) == Len(p.verified) = MaxIds \/ Size(p) = MaxBytes
StillOwed(p, ids) == IF Full(p) THEN ids \cap ToSet(p.verified) ELSE ids

\* put replaces the row wholesale, whoever has written it since it was read.
Write(o) ==
  /\ write[o] # {}
  /\ LET w == CHOOSE w \in write[o] : TRUE IN
       /\ run' = [run EXCEPT ![w.run] = {Row(o, w)}]
       /\ kept' = [p \in Owners |-> [kept[p] EXCEPT ![w.run] =
            IF p = o THEN {[row |-> Row(o, w), ids |-> StillOwed(Row(o, w).payload, ToSet(w.input.verified) \cup
                              IF w.existing = {} THEN {} ELSE UNION {k.ids : k \in @})]}
            ELSE {k \in @ : k.row \in w.existing \/ k.row.expires <= clock}]]
  /\ write' = [write EXCEPT ![o] = {}]
  /\ resumed' = {}
  /\ UNCHANGED <<clock, writes>>

\* The write fails: the caller is told so.
WriteFails(o) ==
  /\ write[o] # {}
  /\ write' = [write EXCEPT ![o] = {}]
  /\ resumed' = {}
  /\ UNCHANGED <<clock, run, writes, kept>>

\* latestResumable: of the owner's own running rows one that was updated last.
LatestResumable(o) ==
  LET mine == {r \in Runs : \E x \in Get(r) : x.owner = o /\ x.status = "running"}
      at(r) == LET x == CHOOSE x \in run[r] : TRUE IN x.updated
  IN  {r \in mine : \A q \in mine : at(q) <= at(r)}

\* resume: a named run is read in any status, another owner's reads as absent.
Answers(o, runs) == UNION {{[asker |-> o, row |-> x] : x \in Get(r)} : r \in runs}
Resume(o) ==
  /\ \/ \E r \in Runs : resumed' = Answers(o, {q \in {r} : \A x \in run[q] : x.owner = o})
     \/ \E r \in LatestResumable(o) : resumed' = Answers(o, {r})
  /\ UNCHANGED <<clock, run, write, writes, kept>>

PurgeExpired ==
  /\ run' = [r \in Runs |-> Get(r)]
  /\ resumed' = {}
  /\ UNCHANGED <<clock, write, writes, kept>>

ClockTicks == clock < MaxClock /\ clock' = clock + 1 /\ resumed' = {} /\ UNCHANGED <<run, write, writes, kept>>

RunsNext ==
  \/ \E o \in Owners : Write(o) \/ WriteFails(o) \/ Resume(o) \/ \E r \in Runs, input \in Inputs(o) : StartCheckpoint(o, r, input)
  \/ PurgeExpired
  \/ ClockTicks

RunsSpec == RunsInit /\ [][RunsNext]_runsVars

-----------------------------------------------------------------------------
(* Properties.                                                                 *)

Entries(p) == ToSet(p.verified) \cup ToSet(p.pending) \cup ToSet(p.searched)

\* No caller resumes another's run, and none finds its own entries in one: also when two
\* callers choose the same id and each reads before the other writes (the owner check of
\* checkpoint and resume; the put that replaces the row wholesale).
OwnRunsOnly ==
  /\ \A r \in Runs : \A x \in run[r] : \A e \in Entries(x.payload) : e[1] = x.owner
  /\ \A z \in resumed : \A e \in Entries(z.row.payload) : e[1] = z.asker

\* What a caller was told is stored stays stored until the run expires, unless another
\* caller chose the same id and had read it before this one's row was there; and an id
\* that was verified in a run leaves its row only for want of room (the owner check,
\* union, trimToBounds, put, purgeExpired).
AcknowledgedIsKept ==
  \A o \in Owners, r \in Runs : \A k \in kept[o][r] : k.row.expires > clock =>
    \E x \in run[r] :
      /\ x = k.row
      /\ Size(x.payload) <= MaxBytes
      /\ k.ids \subseteq ToSet(x.payload.verified)
=============================================================================
