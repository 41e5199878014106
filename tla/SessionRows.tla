----------------------------- MODULE SessionRows -----------------------------
(* Which device a session handle belongs to, as the gateway knows it: the map   *)
(* sessionOwners in memory (apps/gateway/src/devices/registry.ts) and the table  *)
(* browser_sessions (apps/gateway/src/store), written by the broker when a       *)
(* session is opened, by the state report an agent sends once it is ready and    *)
(* by the close of its socket (apps/gateway/src/devices/wsHandler.ts).           *)
(*                                                                              *)
(* A handler stops at every await; a query that nobody awaits runs when the      *)
(* database gets to it.  The gateway may crash: the table stays, the map and      *)
(* the handlers do not.                                                          *)
EXTENDS Naturals, Sequences, FiniteSets, Functions

CONSTANTS
  Devices,
  Handles,      \* session handles, each made once
  MaxDrops      \* bound on the sockets and gateways lost

ASSUME RowsAssumption == MaxDrops \in Nat

VARIABLES
  agent,    \* of each device: the sessions its browsers serve
  link,     \* of each device: is its socket registered
  owner,    \* sessionOwners: handle to device
  row,      \* browser_sessions: handle to its device and status
  opening,  \* of each device: the session_open calls under way
  task,     \* the state reports being worked through, the closes not yet run
  made,     \* history: the device that made each handle
  answered, \* history: the handles callers have been given
  drops     \* bounded by MaxDrops

rowsVars == <<agent, link, owner, row, opening, task, made, answered, drops>>

NoDevice == "none"

RowsInit ==
  /\ agent = [d \in Devices |-> {}]
  /\ link = [d \in Devices |-> FALSE]
  /\ owner = <<>> /\ row = <<>>
  /\ opening = {} /\ task = {}
  /\ made = <<>> /\ answered = {}
  /\ drops = 0

Put(f, h, v) == [x \in DOMAIN f \cup {h} |-> IF x = h THEN v ELSE f[x]]

MarkClosedForDevice(d) ==
  [h \in DOMAIN row |-> IF row[h].device = d THEN [row[h] EXCEPT !.status = "closed"] ELSE row[h]]

\* CommandBroker.call: the device of a handle, whatever the status of its row.
SessionOwner(h) ==
  IF h \in DOMAIN owner THEN owner[h]
  ELSE IF h \in DOMAIN row THEN row[h].device
  ELSE NoDevice

-----------------------------------------------------------------------------
(* The agent.                                                                  *)

\* The device's socket is registered and its report of open sessions is received.
Connect(d) ==
  /\ ~link[d]
  /\ link' = [link EXCEPT ![d] = TRUE]
  /\ task' = task \cup {[kind |-> "report", device |-> d, left |-> agent[d], marked |-> FALSE]}
  /\ UNCHANGED <<agent, owner, row, opening, made, answered, drops>>

\* session_open has been executed: the agent serves a new session, the result is on its way.
Opens(d, h) ==
  /\ link[d] /\ h \notin DOMAIN made
  /\ agent' = [agent EXCEPT ![d] = @ \cup {h}]
  /\ made' = Put(made, h, d)
  /\ opening' = opening \cup {[handle |-> h, device |-> d, pc |-> "result"]}
  /\ UNCHANGED <<link, owner, row, task, answered, drops>>

\* A browser is closed at the device; nothing is reported until the next connection.
BrowserCloses(d) ==
  /\ \E h \in agent[d] : agent' = [agent EXCEPT ![d] = @ \ {h}]
  /\ UNCHANGED <<link, owner, row, opening, task, made, answered, drops>>

-----------------------------------------------------------------------------
(* The broker.                                                                 *)

\* An answer that does not wait for the row.
RememberAndAnswer(o) ==
  /\ o \in opening /\ o.pc = "result" /\ link[o.device]
  /\ owner' = Put(owner, o.handle, o.device)
  /\ opening' = (opening \ {o}) \cup {[o EXCEPT !.pc = "upsert"]}
  /\ answered' = answered \cup {o.handle}
  /\ UNCHANGED <<agent, link, row, task, made, drops>>

\* The result of session_open: the owner is remembered, the row written and awaited.
Remember(o) ==
  /\ o \in opening /\ o.pc = "result" /\ link[o.device]
  /\ owner' = Put(owner, o.handle, o.device)
  /\ opening' = (opening \ {o}) \cup {[o EXCEPT !.pc = "upsert"]}
  /\ UNCHANGED <<agent, link, row, task, made, answered, drops>>

\* The row is there: openedAt is kept when it was already, the status is not.
Persist(o) ==
  /\ o \in opening /\ o.pc = "upsert"
  /\ row' = Put(row, o.handle, [device |-> o.device, status |-> "ready"])
  /\ opening' = opening \ {o}
  /\ answered' = answered \cup {o.handle}
  /\ UNCHANGED <<agent, link, owner, task, made, drops>>

\* The upsert fails: the caller is told of an error, the handle of nobody.
PersistFails(o) ==
  /\ o \in opening /\ o.pc = "upsert" /\ drops < MaxDrops
  /\ opening' = opening \ {o} /\ drops' = drops + 1
  /\ UNCHANGED <<agent, link, owner, row, task, made, answered>>

-----------------------------------------------------------------------------
(* The socket's handler.                                                       *)

\* state.report: every row of the device is closed, then those reported are opened.
ReportMarks(t) ==
  /\ t \in task /\ t.kind = "report" /\ ~t.marked
  /\ row' = MarkClosedForDevice(t.device)
  /\ task' = (task \ {t}) \cup {[t EXCEPT !.marked = TRUE]}
  /\ UNCHANGED <<agent, link, owner, opening, made, answered, drops>>

ReportOpens(t, h) ==
  /\ t \in task /\ t.kind = "report" /\ t.marked /\ h \in t.left
  /\ owner' = Put(owner, h, t.device)
  /\ row' = Put(row, h, [device |-> t.device, status |-> "ready"])
  /\ task' = (task \ {t}) \cup {[t EXCEPT !.left = @ \ {h}]}
  /\ UNCHANGED <<agent, link, opening, made, answered, drops>>

ReportEnds(t) ==
  /\ t \in task /\ t.kind = "report" /\ t.marked /\ t.left = {}
  /\ task' = task \ {t}
  /\ UNCHANGED <<agent, link, owner, row, opening, made, answered, drops>>

\* The socket closes: the pending calls of the device end and its rows are closed, but
\* nobody waits for that.
Drop(d) ==
  /\ link[d] /\ drops < MaxDrops
  /\ link' = [link EXCEPT ![d] = FALSE]
  /\ opening' = {o \in opening : o.device # d \/ o.pc = "upsert"}
  /\ task' = task \cup {[kind |-> "close", device |-> d, left |-> {}, marked |-> FALSE]}
  /\ drops' = drops + 1
  /\ UNCHANGED <<agent, owner, row, made, answered>>

\* The agent dials again before its old socket has closed: that close marks nothing, and
\* the pending calls of the device end with it.
Supersede(d) ==
  /\ link[d] /\ drops < MaxDrops
  /\ opening' = {o \in opening : o.device # d \/ o.pc = "upsert"}
  /\ task' = task \cup {[kind |-> "report", device |-> d, left |-> agent[d], marked |-> FALSE]}
  /\ drops' = drops + 1
  /\ UNCHANGED <<agent, link, owner, row, made, answered>>

CloseMarks(t) ==
  /\ t \in task /\ t.kind = "close"
  /\ row' = MarkClosedForDevice(t.device)
  /\ task' = task \ {t}
  /\ UNCHANGED <<agent, link, owner, opening, made, answered, drops>>

\* The gateway crashes and starts again: what was only in memory is lost.
GatewayCrash ==
  /\ drops < MaxDrops
  /\ drops' = drops + 1
  /\ owner' = <<>> /\ opening' = {} /\ task' = {}
  /\ link' = [d \in Devices |-> FALSE]
  /\ UNCHANGED <<agent, row, made, answered>>

RowsNext ==
  \/ \E d \in Devices : Connect(d) \/ BrowserCloses(d) \/ Drop(d) \/ Supersede(d) \/ \E h \in Handles : Opens(d, h)
  \/ \E o \in opening : Remember(o) \/ Persist(o) \/ PersistFails(o)
  \/ \E t \in task : ReportMarks(t) \/ ReportEnds(t) \/ CloseMarks(t) \/ \E h \in t.left : ReportOpens(t, h)
  \/ GatewayCrash

RowsSpec == RowsInit /\ [][RowsNext]_rowsVars

-----------------------------------------------------------------------------
(* Properties.                                                                 *)

\* A handle a caller has been given leads to the device that made it, for good: after
\* the socket has dropped, while a report closes and reopens the rows one at a time, and
\* after the gateway has lost its memory (the upsert awaited before the answer, rows
\* that are closed and never deleted, the lookup that ignores their status).
HandleKeepsItsDevice == \A h \in answered : SessionOwner(h) = made[h]
=============================================================================
