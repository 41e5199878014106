---------------------------- MODULE ArtifactFlow ----------------------------
(* The artifacts of a call: large ones are uploaded by the agent while its        *)
(* command is pending (apps/windows-agent/src/connection.ts), small ones come      *)
(* inside the result and are stored by the broker (apps/gateway/src/broker.ts);    *)
(* both end in the artifact store, a file and a row each, written, read and        *)
(* cleaned up with an await between any two steps                                  *)
(* (apps/gateway/src/artifacts/store.ts).                                          *)
EXTENDS Naturals, Sequences, FiniteSets, Functions, SequencesExt, FiniteSetsExt

CONSTANTS
  Calls,         \* request ids
  Sizes,         \* what an artifact may weigh
  MaxArtifacts,  \* bound on the artifacts of one call
  InlineMax,     \* WIRE_INLINE_ARTIFACT_MAX_BYTES
  ArtifactMax,   \* ARTIFACT_MAX_BYTES
  AggregateMax,  \* ARTIFACT_AGGREGATE_MAX_BYTES
  Lifetime,      \* ttlSeconds of the store
  MaxTime        \* bound on the clock

ASSUME ArtifactsAssumption ==
  {MaxArtifacts, InlineMax, ArtifactMax, AggregateMax, Lifetime, MaxTime} \cup Sizes \subseteq Nat

VARIABLES
  command,  \* the agent's side of a call
  caller,   \* the gateway's side of it
  put,      \* ArtifactStore.put under way
  sweep,    \* rows found expired, to be deleted by the cleanup or by a get
  meta,     \* the rows of the artifacts table
  file,     \* the files of the artifacts directory
  leaked,   \* history: files whose row was never inserted
  stored,   \* history: the artifacts ever stored, with their expiry
  time      \* bounded by MaxTime

artifactVars == <<command, caller, put, sweep, meta, file, leaked, stored, time>>

ArtifactsInit ==
  /\ command = [c \in Calls |-> [at |-> "working", left |-> <<>>, done |-> <<>>]]
  /\ caller = [c \in Calls |-> [at |-> "pending", left |-> <<>>, out |-> {}]]
  /\ put = {} /\ sweep = {} /\ meta = {} /\ file = {} /\ leaked = {} /\ stored = {}
  /\ time = 0

SumOf(rows) == MapThenSumSet(LAMBDA r : r.size, rows)
Aggregate(c) == SumOf({r \in meta : r.call = c})
RowsOf(id) == {r \in meta : r.id = id}

-----------------------------------------------------------------------------
(* The agent.                                                                  *)

\* The command has been executed; what it captured has its ids.
Captures(c) ==
  /\ command[c].at = "working"
  /\ \E sizes \in SeqOf(Sizes, MaxArtifacts) :
       command' = [command EXCEPT ![c] = [at |-> "sending", done |-> <<>>,
                     left |-> [i \in DOMAIN sizes |-> [id |-> <<c, i>>, call |-> c, size |-> sizes[i]]]]]
  /\ UNCHANGED <<caller, put, sweep, meta, file, leaked, stored, time>>

Inline(c) ==
  /\ command[c].at = "sending" /\ command[c].left # <<>> /\ Head(command[c].left).size <= InlineMax
  /\ command' = [command EXCEPT ![c].left = Tail(@), ![c].done = Append(@, Head(command[c].left))]
  /\ UNCHANGED <<caller, put, sweep, meta, file, leaked, stored, time>>

NewPut(a, by) == [id |-> a.id, call |-> a.call, size |-> a.size, at |-> "check", by |-> by]

\* An agent that does not wait for one upload before it starts the next.
UploadAhead(c) ==
  /\ command[c].at = "sending" /\ command[c].left # <<>> /\ Head(command[c].left).size > InlineMax
  /\ caller[c].at = "pending"
  /\ put' = put \cup {NewPut(Head(command[c].left), "agent")}
  /\ command' = [command EXCEPT ![c].left = Tail(@), ![c].done = Append(@, Head(command[c].left))]
  /\ UNCHANGED <<caller, sweep, meta, file, leaked, stored, time>>

\* uploadArtifact: the PUT is let in while the call is pending at the gateway, and awaited.
Upload(c) ==
  /\ command[c].at = "sending" /\ command[c].left # <<>> /\ Head(command[c].left).size > InlineMax
  /\ caller[c].at = "pending"
  /\ put' = put \cup {NewPut(Head(command[c].left), "agent")}
  /\ command' = [command EXCEPT ![c].at = "uploading"]
  /\ UNCHANGED <<caller, sweep, meta, file, leaked, stored, time>>

\* Refused (no token, an expired one, the call no longer pending), or no answer got
\* through, whatever the gateway does with the bytes: the command ends in an error.
UploadFails(c) ==
  /\ \/ command[c].at = "uploading"
     \/ command[c].at = "sending" /\ command[c].left # <<>> /\ Head(command[c].left).size > InlineMax
  /\ command' = [command EXCEPT ![c] = [at |-> "failed", left |-> <<>>, done |-> <<>>]]
  /\ UNCHANGED <<caller, put, sweep, meta, file, leaked, stored, time>>

\* The result, or the error, reaches the gateway if the call is pending there.
Result(c) ==
  /\ \/ command[c].at = "failed"
     \/ command[c].at = "sending" /\ command[c].left = <<>>
  /\ caller' = IF caller[c].at # "pending" THEN caller
               ELSE IF command[c].at = "failed" THEN [caller EXCEPT ![c].at = "error"]
               ELSE [caller EXCEPT ![c].at = "next", ![c].left = command[c].done]
  /\ command' = [command EXCEPT ![c] = [at |-> "over", left |-> <<>>, done |-> <<>>]]
  /\ UNCHANGED <<put, sweep, meta, file, leaked, stored, time>>

-----------------------------------------------------------------------------
(* The store.                                                                  *)

\* What waits for a put learns how it ended.
Told(p, well) ==
  LET c == p.call IN
  IF p.by = "agent"
  THEN /\ command' = IF command[c].at # "uploading" THEN command
                     ELSE IF well THEN [command EXCEPT ![c] = [at |-> "sending", left |-> Tail(@.left), done |-> Append(@.done, Head(@.left))]]
                     ELSE [command EXCEPT ![c] = [at |-> "failed", left |-> <<>>, done |-> <<>>]]
       /\ caller' = caller
  ELSE /\ caller' = IF well THEN [caller EXCEPT ![c].at = "next", ![c].left = Tail(@), ![c].out = @ \cup {p.id}]
                    ELSE [caller EXCEPT ![c].at = "error"]
       /\ command' = command

\* The limit of the artifact and of all artifacts of the request.
PutChecks(p) ==
  /\ p \in put /\ p.at = "check"
  /\ IF p.size > ArtifactMax \/ Aggregate(p.call) + p.size > AggregateMax
     THEN put' = put \ {p} /\ Told(p, FALSE)
     ELSE put' = (put \ {p}) \cup {[p EXCEPT !.at = "file"]} /\ UNCHANGED <<command, caller>>
  /\ UNCHANGED <<sweep, meta, file, leaked, stored, time>>

PutWritesFile(p) ==
  /\ p \in put /\ p.at = "file"
  /\ file' = file \cup {p.id}
  /\ put' = (put \ {p}) \cup {[p EXCEPT !.at = "row"]}
  /\ UNCHANGED <<command, caller, sweep, meta, leaked, stored, time>>

PutInserts(p) ==
  /\ p \in put /\ p.at = "row"
  /\ LET row == [id |-> p.id, call |-> p.call, size |-> p.size, expires |-> time + Lifetime] IN
       meta' = meta \cup {row} /\ stored' = stored \cup {row}
  /\ put' = put \ {p}
  /\ Told(p, TRUE)
  /\ UNCHANGED <<sweep, file, leaked, time>>

\* The disk or the database fails: a file already written stays behind.
PutFails(p) ==
  /\ p \in put /\ p.at \in {"file", "row"}
  /\ leaked' = IF p.at = "row" THEN leaked \cup {p.id} ELSE leaked
  /\ put' = put \ {p}
  /\ Told(p, FALSE)
  /\ UNCHANGED <<sweep, meta, file, stored, time>>

\* cleanupExpired lists what has expired and works through it.
CleanupLists ==
  /\ sweep' = sweep \cup {[row |-> r, at |-> "rm"] : r \in {r \in meta : r.expires <= time}}
  /\ UNCHANGED <<command, caller, put, meta, file, leaked, stored, time>>

\* deleteRow: the file first, then the row; and a version that leaves the file.
RowOnly(s) ==
  /\ s \in sweep /\ s.at = "rm"
  /\ sweep' = (sweep \ {s}) \cup {[s EXCEPT !.at = "row"]}
  /\ UNCHANGED <<command, caller, put, meta, file, leaked, stored, time>>

DeleteFile(s) ==
  /\ s \in sweep /\ s.at = "rm"
  /\ file' = file \ {s.row.id}
  /\ sweep' = (sweep \ {s}) \cup {[s EXCEPT !.at = "row"]}
  /\ UNCHANGED <<command, caller, put, meta, leaked, stored, time>>

DeleteRow(s) ==
  /\ s \in sweep /\ s.at = "row"
  /\ meta' = meta \ RowsOf(s.row.id)
  /\ sweep' = sweep \ {s}
  /\ UNCHANGED <<command, caller, put, file, leaked, stored, time>>

-----------------------------------------------------------------------------
(* The broker.                                                                 *)

\* materializeArtifacts: an inline one is put.
PutsInline(c) ==
  /\ caller[c].at = "next" /\ caller[c].left # <<>> /\ Head(caller[c].left).size <= InlineMax
  /\ put' = put \cup {NewPut(Head(caller[c].left), "broker")}
  /\ caller' = [caller EXCEPT ![c].at = "putting"]
  /\ UNCHANGED <<command, sweep, meta, file, leaked, stored, time>>

Missing(c) == caller' = [caller EXCEPT ![c].at = "missing"]

\* get, its first await: the row; one that has expired is deleted, file first.
GetsRow(c) ==
  /\ caller[c].at = "next" /\ caller[c].left # <<>> /\ Head(caller[c].left).size > InlineMax
  /\ LET id == Head(caller[c].left).id
         expired == {r \in RowsOf(id) : r.expires <= time}
     IN  /\ IF RowsOf(id) \ expired = {} THEN Missing(c) ELSE caller' = [caller EXCEPT ![c].at = "reading"]
         /\ sweep' = sweep \cup {[row |-> r, at |-> "rm"] : r \in expired}
  /\ UNCHANGED <<command, put, meta, file, leaked, stored, time>>

\* get, its second: the file; a row without one is deleted.
GetsFile(c) ==
  /\ caller[c].at = "reading"
  /\ LET id == Head(caller[c].left).id IN
       IF id \in file
       THEN caller' = [caller EXCEPT ![c].at = "next", ![c].left = Tail(@), ![c].out = @ \cup {id}] /\ meta' = meta
       ELSE Missing(c) /\ meta' = meta \ RowsOf(id)
  /\ UNCHANGED <<command, put, sweep, file, leaked, stored, time>>

Succeeds(c) ==
  /\ caller[c].at = "next" /\ caller[c].left = <<>>
  /\ caller' = [caller EXCEPT ![c].at = "ok"]
  /\ UNCHANGED <<command, put, sweep, meta, file, leaked, stored, time>>

\* The registry's timer of the call fires, or its device is lost: it is pending no longer.
CallEnds(c) ==
  /\ caller[c].at = "pending"
  /\ caller' = [caller EXCEPT ![c].at = "error"]
  /\ UNCHANGED <<command, put, sweep, meta, file, leaked, stored, time>>

\* The gateway crashes and starts again.
StoreCrash ==
  /\ \E c \in Calls : caller[c].at \in {"pending", "next", "putting", "reading"}
  /\ caller' = [c \in Calls |-> IF caller[c].at \in {"ok", "error", "missing"} THEN caller[c] ELSE [caller[c] EXCEPT !.at = "error"]]
  /\ leaked' = leaked \cup {p.id : p \in {p \in put : p.at = "row"}}
  /\ put' = {} /\ sweep' = {}
  /\ UNCHANGED <<command, meta, file, stored, time>>

TimePasses == time < MaxTime /\ time' = time + 1 /\ UNCHANGED <<command, caller, put, sweep, meta, file, leaked, stored>>

ArtifactsNext ==
  \/ \E c \in Calls : \/ Captures(c) \/ Inline(c) \/ Upload(c) \/ UploadFails(c) \/ Result(c)
                      \/ PutsInline(c) \/ GetsRow(c) \/ GetsFile(c) \/ Succeeds(c) \/ CallEnds(c)
  \/ \E p \in put : PutChecks(p) \/ PutWritesFile(p) \/ PutInserts(p) \/ PutFails(p)
  \/ \E s \in sweep : DeleteFile(s) \/ DeleteRow(s)
  \/ CleanupLists \/ StoreCrash \/ TimePasses

ArtifactsSpec == ArtifactsInit /\ [][ArtifactsNext]_artifactVars

-----------------------------------------------------------------------------
(* Properties.                                                                 *)

\* The stored artifacts of one call never weigh more than the aggregate limit, although the
\* limit is checked two awaits before the row it counts is inserted: the agent awaits
\* each upload, and the broker stores what was inline only after the result (put,
\* uploadArtifact, materializeArtifacts).
QuotaHolds == \A c \in Calls : Aggregate(c) <= AggregateMax

\* A call succeeds with an artifact missing from nothing: the caller is told that an
\* artifact is gone only when it was stored and has outlived its time (the upload awaited
\* before the result is sent, get, cleanupExpired).
UploadReachesCaller ==
  \A c \in Calls : caller[c].at = "missing" =>
    \E r \in stored : r.id = Head(caller[c].left).id /\ r.expires <= time

\* Files and rows go together: a file without a row is still being put or was left by a
\* put that failed or died; a row without its file is being deleted (put writes the file
\* first, deleteRow removes it first).
FilesHaveRows ==
  /\ \A id \in file : RowsOf(id) # {} \/ id \in leaked \/ \E p \in put : p.id = id /\ p.at = "row"
  /\ \A r \in meta : r.id \notin file => r.expires <= time
=============================================================================
