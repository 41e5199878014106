--------------------------- MODULE CountdownGate ---------------------------
(* The Countdown source of one gateway (apps/gateway/src/countdown/source.ts,  *)
(* packages/source-countdown/src/client.ts): what it remembers of the vendor's *)
(* account, the reserve gate in front of every charged call, the account probe *)
(* and the vendor requests with their retries, under the deadline of the call  *)
(* they are made for. The vendor charges one credit per request it serves.     *)
EXTENDS Integers, FiniteSets

CONSTANTS
  Call,            \* tool calls
  Unit,            \* vendor requests: an item slot, a search half, a seller
  None,            \* null
  Kind,            \* [Call -> "search", "items", "seller" or "status"]
  CallOf,          \* [Unit -> Call]
  MaxConcurrency,  \* COUNTDOWN_MAX_CONCURRENCY: workers of one batch
  MaxRetries,      \* length of retryDelaysMs
  Reserves,        \* COUNTDOWN_CREDIT_RESERVE: [kind, figure] records
  Account,         \* the vendor's account at start: [used, limit]
  TopUp,           \* credits a top-up adds
  MaxCalls,        \* bound: calls made
  Faults,          \* what may happen: "suspend", "error", "timeout", "topUp", "renewal", "probe", "silent"
  MaxFaults        \* bound: how often

ASSUME CallsAssumption ==
  /\ IsFiniteSet(Unit) /\ CallOf \in [Unit -> Call]
  /\ Kind \in [Call -> {"search", "items", "seller", "status"}]
ASSUME NoneAssumption == None \notin Int
ASSUME FiguresAssumption ==
  /\ Reserves \subseteq [kind : {"absolute", "percent"}, figure : Nat]
  /\ Account \in [used : Nat, limit : Nat] /\ Account.used <= Account.limit
  /\ TopUp \in Nat
ASSUME BoundsAssumption == {MaxConcurrency, MaxRetries, MaxCalls, MaxFaults} \subseteq Nat

Units(c) == {u \in Unit : CallOf[u] = c}

VARIABLES
  account,    \* at the vendor: credits used, the plan's limit, suspended or not
  faults,     \* how many of Faults have happened
  reserve,    \* the configured reserve
  remaining, lastUsed, limit,   \* the source's memory of the account
  suspended,  \* suspendedUntil lies ahead
  stale,      \* probeIsStale: no probe was begun within the last minute
  probe,      \* probeInFlight
  phase,      \* each call: idle, gate, probing, running, over
  time,       \* what is left of each call's deadline: ample or low
  stage,      \* each vendor request
  attempts,   \* attempts made at it
  answer,     \* the vendor's last answer to it
  excused     \* history: the gate could not know of a charge, see ReserveHeld

memory   == <<remaining, lastUsed, limit, suspended, stale>>
vendor   == <<account, faults>>
calls    == <<phase, time>>
requests == <<stage, attempts, answer>>
vars == <<vendor, reserve, memory, probe, calls, requests, excused>>

Balance == account.limit - account.used

\* An answer with its figures, those the vendor leaves out null; charge is the
\* charge it answers, which only the vendor knows when it leaves out the used.
Figures(silent) ==
  LET told(field, n) == IF field \in silent THEN None ELSE n
  IN  [status |-> "ok", charge |-> account.used, used |-> told("used", account.used),
       remaining |-> told("remaining", Balance), limit |-> told("limit", account.limit)]
Incomplete(figures) == figures.used = None \/ figures.remaining = None
NoAnswer == [status |-> "none"]

\* Charged, and the answer that says so is still to come.
Coming(u) == stage[u] = "served" /\ answer[u].status = "ok"

\* Charges later than the figure seen whose answers are still to come.
Unseen(seen) == {u \in Unit : Coming(u) /\ (seen = None \/ answer[u].charge > seen)}

\* Every later charge is one of them.
Covered(seen) ==
  \A n \in (seen + 1)..account.used : \E u \in Unit : Coming(u) /\ answer[u].charge = n

Fault(kind) == kind \in Faults /\ faults < MaxFaults /\ faults' = faults + 1

Over(u) == phase[CallOf[u]] = "over"
KindOf(u) == Kind[CallOf[u]]
Flying == {"flight", "served"}

Init ==
  /\ account = [used |-> Account.used, limit |-> Account.limit, suspended |-> FALSE]
  /\ faults = 0
  /\ reserve \in Reserves
  /\ remaining = None /\ lastUsed = None /\ limit = None
  /\ suspended = FALSE
  /\ stale = FALSE
  /\ probe = [status |-> "asked"]   \* startupProbe
  /\ phase = [c \in Call |-> "idle"]
  /\ time = [c \in Call |-> "ample"]
  /\ stage = [u \in Unit |-> "idle"]
  /\ attempts = [u \in Unit |-> 0]
  /\ answer = [u \in Unit |-> NoAnswer]
  /\ excused = FALSE

-----------------------------------------------------------------------------
(* The reserve gate *)

\* reserveState: null while a percent reserve's limit is unknown.
Effective ==
  IF reserve.kind = "absolute" THEN reserve.figure
  ELSE IF limit = None THEN None ELSE (limit * reserve.figure) \div 100

UnknownForGate   == remaining = None \/ (reserve.kind = "percent" /\ limit = None)
BelowReserve     == remaining # None /\ Effective # None /\ remaining < Effective
ReserveNotBelowLimit ==
  reserve.kind = "absolute" /\ limit # None /\ reserve.figure >= limit

Shut == ReserveNotBelowLimit \/ BelowReserve

AdmitsOnMemory(kind) ==
  CASE kind = "seller"                       -> "admit"
    [] kind # "seller" /\ (UnknownForGate \/ Shut) /\ stale -> "probe"
    [] kind # "seller" /\ Shut /\ ~stale     -> "refuse"
    [] OTHER                                 -> "admit"

\* assertCredits up to its first await.
AssertCredits(kind) == IF suspended THEN "refuse" ELSE AdmitsOnMemory(kind)

AfterGateProbeUnchecked(kind) == AdmitsOnMemory(kind)

\* gateProbe: a suspension the probe learned of refuses the call at once.
AfterGateProbe(kind) == IF suspended THEN "refuse" ELSE AdmitsOnMemory(kind)

\* gateView: what ebay_api_status says of the gate.
GateViewAtReserve ==
  CASE suspended -> [open |-> FALSE, reason |-> "account_suspended"]
    [] ~suspended /\ remaining # None /\ Effective # None /\ remaining <= Effective
              -> [open |-> FALSE, reason |-> "below_reserve"]
    [] OTHER  -> [open |-> TRUE, reason |-> "none"]

GateView ==
  CASE suspended                  -> [open |-> FALSE, reason |-> "account_suspended"]
    [] ~suspended /\ ReserveNotBelowLimit
                                  -> [open |-> FALSE, reason |-> "reserve_not_below_plan_limit"]
    [] ~suspended /\ ~ReserveNotBelowLimit /\ BelowReserve
                                  -> [open |-> FALSE, reason |-> "below_reserve"]
    [] ~suspended /\ ~Shut /\ remaining = None
                                  -> [open |-> TRUE, reason |-> "balance_unknown"]
    [] ~suspended /\ ~Shut /\ remaining # None /\ Effective = None
                                  -> [open |-> TRUE, reason |-> "reserve_unresolved"]
    [] OTHER                      -> [open |-> TRUE, reason |-> "none"]

-----------------------------------------------------------------------------
(* What the source remembers *)

RememberAnything(used, rest) == lastUsed' = used /\ remaining' = rest

Behind(used) == used # None /\ lastUsed # None /\ used < lastUsed

\* A figure that is left out leaves the remembered one.
Told(figure, remembered) == IF figure = None THEN remembered ELSE figure

\* remember: a response that is behind the last accepted one is ignored; one
\* that does not say how much was used is not.
Remember(used, rest) ==
  IF Behind(used) THEN UNCHANGED <<lastUsed, remaining>>
  ELSE lastUsed' = Told(used, lastUsed) /\ remaining' = Told(rest, remaining)

\* probeAccount joins the probe in flight; readAccount stamps its start.
ProbeAccount ==
  IF probe = NoAnswer
  THEN probe' = [status |-> "asked"] /\ stale' = FALSE
  ELSE UNCHANGED <<probe, stale>>

\* A call or slot goes where the gate's verdict sends it.
GateCall(c, verdict) ==
  /\ phase' = [phase EXCEPT ![c] = CASE verdict = "probe"  -> "probing"
                                     [] verdict = "refuse" -> "over"
                                     [] verdict = "admit"  -> "running"]
  /\ IF verdict = "probe" THEN ProbeAccount ELSE UNCHANGED <<probe, stale>>
  /\ IF verdict = "admit" /\ Kind[c] # "items"
     THEN /\ stage' = [u \in Unit |-> IF CallOf[u] = c THEN "flight" ELSE stage[u]]
          /\ attempts' = [u \in Unit |-> IF CallOf[u] = c THEN 1 ELSE attempts[u]]
     ELSE UNCHANGED <<stage, attempts>>

\* The client sends nothing for a call whose deadline has passed or which is over.
GateSlot(u, verdict) ==
  LET sent == verdict = "admit" /\ ~Over(u) IN
  /\ stage' = [stage EXCEPT ![u] = CASE verdict = "probe"  -> "probing"
                                     [] verdict = "refuse" -> "refused"
                                     [] OTHER -> IF sent THEN "flight" ELSE "failed"]
  /\ attempts' = [attempts EXCEPT ![u] = IF sent THEN 1 ELSE 0]
  /\ IF verdict = "probe" THEN ProbeAccount ELSE UNCHANGED <<probe, stale>>

-----------------------------------------------------------------------------
(* Calls: search, seller and items up to the vendor requests; status *)

Made(c) ==
  phase[c] = "idle" /\ Cardinality({d \in Call : phase[d] # "idle"}) < MaxCalls

Begin(c) ==
  /\ Kind[c] # "status" /\ Made(c)
  /\ GateCall(c, AssertCredits(Kind[c]))
  /\ UNCHANGED <<vendor, reserve, remaining, lastUsed, limit, suspended, time, answer, excused>>

CallResumes(c) ==
  /\ phase[c] = "probing" /\ probe = NoAnswer /\ Kind[c] # "status"
  /\ GateCall(c, AfterGateProbe(Kind[c]))
  /\ UNCHANGED <<vendor, reserve, remaining, lastUsed, limit, suspended, time, answer, excused>>

\* status probes whatever the memory holds, and answers from it.
Status(c) ==
  /\ Kind[c] = "status" /\ Made(c)
  /\ phase' = [phase EXCEPT ![c] = "probing"]
  /\ ProbeAccount
  /\ UNCHANGED <<vendor, reserve, remaining, lastUsed, limit, suspended, time, requests, excused>>

StatusReturns(c) ==
  /\ Kind[c] = "status" /\ phase[c] = "probing" /\ probe = NoAnswer
  /\ phase' = [phase EXCEPT ![c] = "over"]
  /\ UNCHANGED <<vendor, reserve, memory, probe, time, requests, excused>>

\* A worker of the batch takes the next slot, unless the deadline is too near.
Working(c) == {u \in Units(c) : stage[u] \in {"probing", "backoff"} \cup Flying}

TakeSlot(u) ==
  LET c == CallOf[u] IN
  /\ Kind[c] = "items" /\ phase[c] = "running" /\ stage[u] = "idle"
  /\ Cardinality(Working(c)) < MaxConcurrency
  /\ time[c] = "ample"
  /\ GateSlot(u, AssertCredits("items"))
  /\ UNCHANGED <<vendor, reserve, remaining, lastUsed, limit, suspended, calls, answer, excused>>

SlotResumes(u) ==
  /\ stage[u] = "probing" /\ probe = NoAnswer
  /\ GateSlot(u, AfterGateProbe("items"))
  /\ UNCHANGED <<vendor, reserve, remaining, lastUsed, limit, suspended, calls, answer, excused>>

-----------------------------------------------------------------------------
(* The client: one vendor request with its attempts *)

\* The request is over, or waits for its next attempt.
End(u, how) ==
  /\ stage' = [stage EXCEPT ![u] = how]
  /\ attempts' = [attempts EXCEPT ![u] = IF how = "backoff" THEN @ ELSE 0]

\* After the backoff: another attempt, unless the call is over.
Attempt(u) ==
  /\ stage[u] = "backoff"
  /\ IF Over(u)
     THEN End(u, "failed")
     ELSE /\ stage' = [stage EXCEPT ![u] = "flight"]
          /\ attempts' = [attempts EXCEPT ![u] = @ + 1]
  /\ UNCHANGED <<vendor, reserve, memory, probe, calls, answer, excused>>

CanRetry(u) == attempts[u] <= MaxRetries /\ time[CallOf[u]] = "ample"

\* The attempt times out. A request that was served has been charged.
TimesOut(u) ==
  /\ stage[u] \in Flying
  /\ Fault("timeout")
  /\ End(u, IF CanRetry(u) THEN "backoff" ELSE "failed")
  /\ excused' = (excused \/ answer[u].status = "ok")
  /\ answer' = [answer EXCEPT ![u] = NoAnswer]
  /\ UNCHANGED <<account, reserve, memory, probe, calls>>

Answered(u, status) == stage[u] = "served" /\ answer[u].status = status

Succeeds(u) ==
  /\ Answered(u, "ok")
  /\ Remember(answer[u].used, answer[u].remaining)
  /\ excused' = (excused \/ (~Behind(answer[u].used) /\ Incomplete(answer[u])))
  /\ End(u, "ok")
  /\ UNCHANGED <<vendor, reserve, limit, suspended, stale, probe, calls, answer>>

\* HTTP 5xx goes up the retry ladder; any other refusal is the slot's or the
\* call's own error at once.
ServerError(u) ==
  /\ Answered(u, "error")
  /\ \/ CanRetry(u) /\ End(u, "backoff")
     \/ End(u, "failed")
  /\ answer' = [answer EXCEPT ![u] = NoAnswer]
  /\ UNCHANGED <<vendor, reserve, memory, probe, calls, excused>>

\* HTTP 402 says one of two things: an empty balance or a suspended account.
Exhausted(u) ==
  /\ Answered(u, "exhausted")
  /\ remaining' = 0
  /\ End(u, "failed")
  /\ answer' = [answer EXCEPT ![u] = NoAnswer]
  /\ UNCHANGED <<vendor, reserve, lastUsed, limit, suspended, stale, probe, calls, excused>>

Suspends(u) ==
  /\ Answered(u, "suspended")
  /\ suspended' = TRUE
  /\ End(u, "failed")
  /\ answer' = [answer EXCEPT ![u] = NoAnswer]
  /\ UNCHANGED <<vendor, reserve, remaining, lastUsed, limit, stale, probe, calls, excused>>

-----------------------------------------------------------------------------
(* The probe ends *)

\* Its figures replace the memory: the used even by null.
ReadAccount ==
  /\ probe.status = "ok"
  /\ lastUsed' = probe.used /\ remaining' = Told(probe.remaining, remaining) /\ limit' = Told(probe.limit, limit)
  /\ excused' = (Incomplete(probe) \/ ~ Covered(probe.used))
  /\ probe' = NoAnswer
  /\ UNCHANGED <<vendor, reserve, suspended, stale, calls, requests>>

\* HTTP 402 of an empty balance: nothing remains.
ProbeExhausted ==
  /\ probe.status = "exhausted"
  /\ remaining' = 0
  /\ probe' = NoAnswer
  /\ UNCHANGED <<vendor, reserve, lastUsed, limit, suspended, stale, calls, requests, excused>>

ProbeSuspended ==
  /\ probe.status = "suspended"
  /\ suspended' = TRUE
  /\ probe' = NoAnswer
  /\ UNCHANGED <<vendor, reserve, remaining, lastUsed, limit, stale, calls, requests, excused>>

\* No answer within its own timeout, or an error: the memory stands.
ProbeFails ==
  /\ probe # NoAnswer /\ Fault("probe")
  /\ probe' = NoAnswer
  /\ UNCHANGED <<account, reserve, memory, calls, requests, excused>>

-----------------------------------------------------------------------------
(* Calls end *)

Done(u) == stage[u] \in {"ok", "failed", "refused"}
Counted(c) == {u \in Units(c) : stage[u] = "ok"}

\* foldCredits: the highest used and the lowest remaining the answers state.
Fold(c) ==
  LET used == {answer[u].used : u \in Counted(c)} \ {None}
      rest == {answer[u].remaining : u \in Counted(c)} \ {None}
  IN  [used      |-> IF used = {} THEN None ELSE CHOOSE n \in used : \A m \in used : m <= n,
       remaining |-> IF rest = {} THEN None ELSE CHOOSE n \in rest : \A m \in rest : n <= m]

\* dispose: the call's signal aborts what is in flight; the vendor may have
\* charged it. Who sleeps between attempts or waits for a probe finds out later.
Dispose(c, unsure) ==
  LET aborted == {u \in Units(c) : stage[u] \in Flying} IN
  /\ phase' = [phase EXCEPT ![c] = "over"] /\ time' = [time EXCEPT ![c] = "low"]
  /\ stage' = [u \in Unit |-> IF u \in aborted THEN "failed" ELSE stage[u]]
  /\ attempts' = [u \in Unit |-> IF u \in aborted THEN 0 ELSE attempts[u]]
  /\ answer' = [u \in Unit |-> IF u \in Units(c) THEN NoAnswer ELSE answer[u]]
  /\ excused' = (excused \/ unsure \/ \E u \in aborted : answer[u].status = "ok")

\* A batch answers when its pool is done, or shortly before its deadline with
\* what it has; a search needs both halves, a seller its one request.
Return(c) ==
  /\ phase[c] = "running"
  /\ \/ \A u \in Units(c) : Done(u)
     \/ Kind[c] = "items" /\ time[c] = "low"
     \/ Kind[c] # "items" /\ \E u \in Units(c) : stage[u] = "failed"
  /\ IF Counted(c) # {} /\ Kind[c] # "seller" /\ (Kind[c] = "items" \/ Counted(c) = Units(c))
     THEN /\ Remember(Fold(c).used, Fold(c).remaining)
          /\ Dispose(c, ~Behind(Fold(c).used) /\ \E u \in Counted(c) : Incomplete(answer[u]))
     ELSE UNCHANGED <<lastUsed, remaining>> /\ Dispose(c, FALSE)
  /\ UNCHANGED <<vendor, reserve, limit, suspended, stale, probe>>

\* withDeadline: the caller is told SOURCE_UNAVAILABLE.
Expire(c) ==
  /\ phase[c] = "running" /\ time[c] = "low"
  /\ Dispose(c, FALSE)
  /\ UNCHANGED <<vendor, reserve, memory, probe>>

-----------------------------------------------------------------------------
(* Time and the vendor *)

TimePasses(c) ==
  /\ phase[c] = "running"
  /\ time[c] = "ample" /\ time' = [time EXCEPT ![c] = "low"]
  /\ UNCHANGED <<vendor, reserve, memory, probe, phase, requests, excused>>

\* CREDIT_PROBE_MIN_INTERVAL_MS is longer than a probe and what waits for it.
MinutePasses ==
  /\ ~stale /\ probe = NoAnswer
  /\ \A c \in Call : phase[c] # "probing"
  /\ \A u \in Unit : stage[u] # "probing"
  /\ stale' = TRUE
  /\ UNCHANGED <<vendor, reserve, remaining, lastUsed, limit, suspended, probe, calls, requests, excused>>

\* SUSPENSION_COOLDOWN_MS have passed.
CooldownEnds ==
  /\ suspended
  /\ suspended' = FALSE
  /\ UNCHANGED <<vendor, reserve, remaining, lastUsed, limit, stale, probe, calls, requests, excused>>

\* The vendor may leave figures out of an answer.
Silence(silent) == IF silent = {} THEN UNCHANGED faults ELSE Fault("silent")

Serve(u) ==
  /\ stage[u] = "flight"
  /\ \/ /\ account.suspended
        /\ answer' = [answer EXCEPT ![u] = [status |-> "suspended"]]
        /\ UNCHANGED account /\ UNCHANGED faults
     \/ /\ ~account.suspended /\ Balance = 0
        /\ answer' = [answer EXCEPT ![u] = [status |-> "exhausted"]]
        /\ UNCHANGED account /\ UNCHANGED faults
     \/ /\ ~account.suspended /\ Balance > 0
        /\ account' = [account EXCEPT !.used = @ + 1]
        /\ \E silent \in SUBSET {"used", "remaining"} :
             /\ Silence(silent)
             /\ answer' = [answer EXCEPT ![u] = Figures(silent)']
     \/ /\ Fault("error")
        /\ answer' = [answer EXCEPT ![u] = [status |-> "error"]]
        /\ UNCHANGED account
  /\ stage' = [stage EXCEPT ![u] = "served"]
  /\ UNCHANGED <<reserve, memory, probe, calls, attempts, excused>>

\* The account is free to ask; an empty one may be answered with its figures
\* or refused.
ServeProbe ==
  /\ probe.status = "asked"
  /\ \/ account.suspended /\ probe' = [status |-> "suspended"] /\ UNCHANGED faults
     \/ ~account.suspended /\ Balance = 0 /\ probe' = [status |-> "exhausted"] /\ UNCHANGED faults
     \/ /\ ~account.suspended
        /\ \E silent \in SUBSET {"used", "remaining", "limit"} : Silence(silent) /\ probe' = Figures(silent)
  /\ UNCHANGED <<account, reserve, memory, calls, requests, excused>>

\* The vendor suspends or reinstates the account, the owner tops it up or
\* changes the plan, the month turns.
AccountChanges ==
  /\ \/ Fault("suspend") /\ account' = [account EXCEPT !.suspended = TRUE]
     \/ Fault("topUp") /\ account' = [account EXCEPT !.limit = @ + TopUp, !.suspended = FALSE]
     \/ Fault("renewal") /\ account' = [account EXCEPT !.used = 0]
  /\ UNCHANGED <<reserve, memory, probe, calls, requests, excused>>

-----------------------------------------------------------------------------

CallStep(c) ==
  Begin(c) \/ CallResumes(c) \/ Status(c) \/ StatusReturns(c) \/ Return(c) \/ Expire(c) \/ TimePasses(c)

RequestStep(u) ==
  \/ TakeSlot(u) \/ SlotResumes(u) \/ Attempt(u) \/ TimesOut(u)
  \/ Succeeds(u) \/ ServerError(u) \/ Exhausted(u) \/ Suspends(u) \/ Serve(u)

Next ==
  \/ \E c \in Call : CallStep(c)
  \/ \E u \in Unit : RequestStep(u)
  \/ ReadAccount \/ ProbeExhausted \/ ProbeSuspended \/ ProbeFails \/ ServeProbe
  \/ MinutePasses \/ CooldownEnds \/ AccountChanges

Spec == Init /\ [][Next]_vars

-----------------------------------------------------------------------------
(* Properties *)

\* The reserve "is meant to stop the next request" (source.ts:1285): a search or
\* an item is sent only while the account, but for charges whose answers are
\* still to come, holds the reserve. Excused: charges whose answer the gateway
\* did not wait for, an answer or a probe that left out what was used or what
\* remains and was taken over all the same, and a probe overtaken by charges
\* already answered; until a probe with both figures since which every charge
\* still has its answer to come.
ReserveHeld ==
  [][\A u \in Unit :
       /\ stage[u] \in {"idle", "probing"} /\ stage'[u] = "flight"
       /\ KindOf(u) # "seller" /\ ~UnknownForGate /\ ~excused
       => Balance + Cardinality(Unseen(lastUsed)) >= Effective]_vars

\* "every tool, seller lookups included, is refused without contacting the
\* vendor until it expires" (source.ts:97-98): no request is sent for a call or
\* slot that passes the gate while a suspension is remembered.
SuspensionRefuses ==
  [][\A u \in Unit :
       stage'[u] = "flight" /\ stage[u] \in {"idle", "probing"} => ~suspended]_vars

\* What ebay_api_status says of the gate is what the gate does: with a probe
\* just made, a search or item is admitted exactly if the gate is shown open.
StatusTellsTheGate ==
  ~stale => (GateView.open <=> AssertCredits("search") = "admit")
=============================================================================
