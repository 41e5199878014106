------------------------ MODULE CountdownGate_proofs ------------------------
(***************************************************************************)
(* Proofs about CountdownGate, for any calls, requests, faults and account *)
(* figures.                                                                *)
(***************************************************************************)
EXTENDS CountdownGate, FiniteSetTheorems, TLAPS

-----------------------------------------------------------------------------
(* The inductive invariant *)

Statuses == {"none", "error", "exhausted", "suspended"}
Figure == Nat \cup {None}
OkAnswers == [status : {"ok"}, charge : Nat, used : Figure, remaining : Figure, limit : Figure]
Answers == [status : Statuses] \cup OkAnswers
Stages == {"idle", "probing", "flight", "served", "backoff", "ok", "failed", "refused"}

Types ==
  /\ account \in [used : Nat, limit : Nat, suspended : BOOLEAN]
  /\ account.used <= account.limit
  /\ reserve \in [kind : {"absolute", "percent"}, figure : Nat]
  /\ remaining \in Nat \cup {None} /\ lastUsed \in Nat \cup {None} /\ limit \in Nat \cup {None}
  /\ suspended \in BOOLEAN /\ stale \in BOOLEAN /\ excused \in BOOLEAN
  /\ phase \in [Call -> {"idle", "probing", "running", "over"}]
  /\ stage \in [Unit -> Stages]
  /\ answer \in [Unit -> Answers]
  /\ probe \in Answers \cup [status : {"asked"}]

\* The figures an answer states never promise more than the plan allows: limits
\* only rise.
Within(a) ==
  a.status = "ok" =>
    /\ a.charge <= account.limit /\ a.used \in {a.charge, None}
    /\ a.remaining # None => a.charge + a.remaining <= account.limit

\* Nor does the memory, unless an answer that left a figure out was taken over;
\* before any figure it knows of an empty balance at most.
MemoryWithin ==
  ~excused =>
    /\ lastUsed = None => remaining \in {None, 0}
    /\ lastUsed # None => remaining \in Nat /\ lastUsed + remaining <= account.limit

\* A call that has not passed the gate has sent nothing; an answer that counts
\* has been remembered, and stands as long as its call runs.
Requests ==
  \A u \in Unit :
    /\ phase[CallOf[u]] \in {"idle", "probing"} => stage[u] = "idle"
    /\ stage[u] = "ok" => /\ ~excused => lastUsed # None
                          /\ phase[CallOf[u]] = "running" => answer[u].status = "ok"

\* The charges later than what the source remembers are those whose answers are
\* still to come. Until it remembers a figure, any of them may become the first.
Accounted ==
  ~excused =>
    IF lastUsed = None THEN \A u \in Unit : Coming(u) => Covered(answer[u].charge)
    ELSE Covered(lastUsed)

GateInv ==
  /\ Types
  /\ \A u \in Unit : Within(answer[u])
  /\ Within(probe)
  /\ MemoryWithin /\ Requests /\ Accounted
-----------------------------------------------------------------------------
(* Figures *)

\* A set of naturals has a least element, and a greatest one if it is bounded.
LEMMA LeastOfNaturals ==
  ASSUME NEW S \in SUBSET Nat, S # {}
  PROVE  \E m \in S : \A n \in S : m <= n
<1>1. PICK m \in S : \A n \in S : ~ (<<n, m>> \in OpToRel(<, Nat))
  BY NatLessThanWellFounded, WFMin
<1>2. \A n \in S : ~ (n < m)
  BY <1>1 DEF OpToRel
<1> QED
  BY <1>2

LEMMA GreatestOfNaturals ==
  ASSUME NEW S \in SUBSET Nat, S # {}, NEW b \in Nat, \A n \in S : n <= b
  PROVE  \E m \in S : \A n \in S : n <= m
<1> DEFINE T == {b - n : n \in S}
<1>1. T \in SUBSET Nat /\ T # {}
  <2>1. \A n \in S : b - n \in Nat
    OBVIOUS
  <2> QED
    BY <2>1
<1>2. PICK t \in T : \A n \in T : t <= n
  BY <1>1, LeastOfNaturals
<1>3. PICK m \in S : t = b - m
  OBVIOUS
<1>4. \A n \in S : b - m <= b - n
  BY <1>2, <1>3
<1> QED
  BY <1>4

\* Charges with an answer each: there are at least as many to come as the
\* account is ahead of the figure seen.
LEMMA CoverageCounts ==
  ASSUME Types, NEW seen \in Nat, Covered(seen)
  PROVE  account.used - seen <= Cardinality(Unseen(seen))
<1> DEFINE T == (seen + 1)..account.used
           S == Unseen(seen)
           bearer == [n \in T |-> CHOOSE u \in Unit : Coming(u) /\ answer[u].charge = n]
<1>1. account.used \in Nat /\ seen # None
  BY NoneAssumption DEF Types
<1>2. IsFiniteSet(S) /\ Cardinality(S) \in Nat
  BY CallsAssumption, FS_Subset, FS_CardinalityType DEF Unseen
<1>3. \A n \in T : bearer[n] \in Unit /\ Coming(bearer[n]) /\ answer[bearer[n]].charge = n
  BY DEF Covered
<1>4. \A n \in T : bearer[n] \in S
  <2> SUFFICES ASSUME NEW n \in T PROVE bearer[n] \in S
    OBVIOUS
  <2>1. n > seen
    BY <1>1
  <2> HIDE DEF T, bearer
  <2> QED
    BY <1>3, <2>1 DEF Unseen
<1>5. bearer \in Injection(T, S)
  <2>1. bearer \in [T -> S]
    BY <1>4
  <2>2. \A m, n \in T : bearer[m] = bearer[n] => m = n
    BY <1>3
  <2> HIDE DEF bearer
  <2> QED
    BY <2>1, <2>2 DEF Injection, IsInjective
<1>6. Cardinality(T) <= Cardinality(S)
  BY <1>2, <1>5, FS_Injection
<1>7. Cardinality(T) = IF seen + 1 > account.used THEN 0 ELSE account.used - (seen + 1) + 1
  <2>1. seen + 1 \in Int /\ account.used \in Int
    BY <1>1
  <2> QED
    BY <2>1, FS_Interval
<1> QED
  BY <1>1, <1>2, <1>6, <1>7

\* What the source remembers, the charges to come aside, is in the account.
LEMMA MemoryBacked ==
  ASSUME GateInv, ~excused, remaining # None
  PROVE  remaining <= Balance + Cardinality(Unseen(lastUsed))
<1>1. IsFiniteSet(Unseen(lastUsed)) /\ Cardinality(Unseen(lastUsed)) \in Nat
  BY CallsAssumption, FS_Subset, FS_CardinalityType DEF Unseen
<1>2. CASE lastUsed = None
  BY <1>1, <1>2 DEF GateInv, Types, MemoryWithin, Balance
<1>3. CASE lastUsed # None
  <2>1. Covered(lastUsed) /\ lastUsed \in Nat
    BY <1>3 DEF GateInv, Types, Accounted
  <2>2. account.used - lastUsed <= Cardinality(Unseen(lastUsed))
    BY <2>1, CoverageCounts DEF GateInv
  <2> QED
    BY <1>1, <1>3, <2>1, <2>2 DEF GateInv, Types, MemoryWithin, Balance
<1> QED
  BY <1>2, <1>3

-----------------------------------------------------------------------------
(* The invariant is kept *)

\* Covered is a matter of the account's figure and of the answers to come.
LEMMA CoveredKept ==
  ASSUME Types, NEW seen \in Nat, Covered(seen), NEW later \in Nat, seen <= later,
         account'.used = account.used,
         \A u \in Unit : Coming(u) /\ answer[u].charge > later
                           => Coming(u)' /\ answer'[u].charge = answer[u].charge
  PROVE  Covered(later)'
<1> SUFFICES ASSUME NEW n \in (later + 1)..account'.used
             PROVE  \E u \in Unit : Coming(u)' /\ answer'[u].charge = n
  BY DEF Covered
<1>1. n \in (seen + 1)..account.used /\ n > later
  BY DEF Types
<1>2. PICK u \in Unit : Coming(u) /\ answer[u].charge = n
  BY <1>1 DEF Covered
<1> QED
  BY <1>1, <1>2

\* A step that leaves the account's figure, the memory and the answers to come
\* as they are, or admits to have lost one.
LEMMA AccountedKept ==
  ASSUME Types, Accounted, account'.used = account.used, lastUsed' = lastUsed,
         excused => excused',
         ~excused' => \A u \in Unit : /\ Coming(u) => Coming(u)' /\ answer'[u] = answer[u]
                                      /\ Coming(u)' => Coming(u)
  PROVE  Accounted'
<1> SUFFICES ASSUME ~excused' PROVE Accounted'
  BY DEF Accounted
<1>1. CASE lastUsed = None
  <2> SUFFICES ASSUME NEW u \in Unit, Coming(u)' PROVE Covered(answer[u].charge)'
    BY <1>1 DEF Accounted
  <2>1. Coming(u) /\ answer[u].charge \in Nat /\ answer'[u] = answer[u]
    BY DEF Types, Coming, Answers, OkAnswers, Statuses
  <2>2. Covered(answer[u].charge)
    BY <1>1, <2>1 DEF Accounted
  <2> QED
    BY <2>1, <2>2, CoveredKept
<1>2. CASE lastUsed # None
  <2>1. lastUsed \in Nat /\ Covered(lastUsed)
    BY <1>2 DEF Types, Accounted
  <2>2. Covered(lastUsed)'
    BY <2>1, CoveredKept
  <2> QED
    BY <1>2, <2>2 DEF Accounted
<1> QED
  BY <1>1, <1>2

LEMMA ProbeTypes ==
  ASSUME Types, ProbeAccount \/ UNCHANGED <<probe, stale>>
  PROVE  probe' \in Answers \cup [status : {"asked"}] /\ stale' \in BOOLEAN
<1>1. [status |-> "asked"] \in [status : {"asked"}]
  OBVIOUS
<1>2. CASE ProbeAccount
  <2>1. CASE probe = NoAnswer
    <3>1. probe' = [status |-> "asked"] /\ stale' = FALSE
      BY <1>2, <2>1 DEF ProbeAccount
    <3> QED
      BY <1>1, <3>1
  <2>2. CASE probe # NoAnswer
    BY <1>2, <2>2 DEF ProbeAccount, Types
  <2> QED
    BY <2>1, <2>2
<1>3. CASE UNCHANGED <<probe, stale>>
  BY <1>3 DEF Types
<1> QED
  BY <1>2, <1>3

\* Sending calls and slots through the gate touches no figure.
LEMMA GateMoves ==
  ASSUME GateInv, NEW c \in Call, NEW v \in {"probe", "refuse", "admit"},
         phase[c] \in {"idle", "probing"}, GateCall(c, v),
         UNCHANGED <<account, reserve, remaining, lastUsed, limit, suspended, answer, excused>>
  PROVE  GateInv'
<1>1. Types'
  <2>1. phase' \in [Call -> {"idle", "probing", "running", "over"}]
    BY DEF GateInv, Types, GateCall
  <2>2. stage' \in [Unit -> Stages]
    BY DEF GateInv, Types, GateCall, Stages
  <2>3. probe' \in Answers \cup [status : {"asked"}] /\ stale' \in BOOLEAN
    BY ProbeTypes DEF GateInv, GateCall
  <2> QED
    BY <2>1, <2>2, <2>3 DEF GateInv, Types
<1>2. Requests'
  <2> SUFFICES ASSUME NEW u \in Unit
               PROVE /\ phase'[CallOf[u]] \in {"idle", "probing"} => stage'[u] = "idle"
                     /\ stage'[u] = "ok" => /\ ~excused => lastUsed # None
                                            /\ phase'[CallOf[u]] = "running" => answer[u].status = "ok"
    BY DEF Requests
  <2>1. CallOf[u] \in Call
    BY CallsAssumption
  <2>2. CASE CallOf[u] = c
    BY <2>1, <2>2 DEF GateInv, Types, Requests, GateCall
  <2>3. CASE CallOf[u] # c
    BY <2>1, <2>3 DEF GateInv, Types, Requests, GateCall
  <2> QED
    BY <2>2, <2>3
<1>3. \A u \in Unit : Coming(u)' <=> Coming(u)
  BY CallsAssumption DEF GateInv, Types, Requests, GateCall, Coming
<1>4. Accounted'
  BY <1>3, AccountedKept DEF GateInv
<1> QED
  BY <1>1, <1>2, <1>4 DEF GateInv, Within, MemoryWithin, GateCall, ProbeAccount, NoAnswer

LEMMA SlotMoves ==
  ASSUME GateInv, NEW u \in Unit, NEW v \in {"probe", "refuse", "admit"},
         phase[CallOf[u]] \notin {"idle", "probing"}, stage[u] \in {"idle", "probing"}, GateSlot(u, v),
         UNCHANGED <<account, reserve, remaining, lastUsed, limit, suspended, phase, answer, excused>>
  PROVE  GateInv'
<1>1. Types'
  <2>1. stage' \in [Unit -> Stages]
    BY DEF GateInv, Types, GateSlot, Stages
  <2>2. probe' \in Answers \cup [status : {"asked"}] /\ stale' \in BOOLEAN
    BY ProbeTypes DEF GateInv, GateSlot
  <2> QED
    BY <2>1, <2>2 DEF GateInv, Types
<1>2. Requests'
  BY DEF GateInv, Types, Requests, GateSlot
<1>3. \A w \in Unit : Coming(w)' <=> Coming(w)
  BY DEF GateInv, Types, GateSlot, Coming
<1>4. Accounted'
  BY <1>3, AccountedKept DEF GateInv
<1> QED
  BY <1>1, <1>2, <1>4 DEF GateInv, Within, MemoryWithin, GateSlot, ProbeAccount, NoAnswer

LEMMA Verdicts ==
  \A kind : /\ AssertCredits(kind) \in {"probe", "refuse", "admit"}
            /\ AfterGateProbe(kind) \in {"probe", "refuse", "admit"}
BY DEF AssertCredits, AfterGateProbe, AdmitsOnMemory

\* A request moves on, its answer dropped or kept: nothing is counted.
LEMMA RequestMoves ==
  ASSUME GateInv, NEW u \in Unit, stage[u] \notin {"idle"},
         NEW how \in Stages \ {"ok", "served"}, stage' = [stage EXCEPT ![u] = how],
         answer' \in {answer, [answer EXCEPT ![u] = NoAnswer]},
         NEW rest \in {remaining, 0}, remaining' = rest,
         suspended' \in BOOLEAN, excused' \in BOOLEAN, excused => excused',
         Coming(u) => excused',
         UNCHANGED <<account, reserve, lastUsed, limit, stale, phase, probe>>
  PROVE  GateInv'
<1>1. answer' \in [Unit -> Answers] /\ \A w \in Unit : w # u => answer'[w] = answer[w]
  BY DEF GateInv, Types, NoAnswer, Answers, Statuses
<1>2. \A w \in Unit : w # u => stage'[w] = stage[w]
  BY DEF GateInv, Types
<1>3. stage' \in [Unit -> Stages] /\ stage'[u] = how
  BY DEF GateInv, Types
<1>4. Types'
  BY <1>1, <1>3 DEF GateInv, Types
<1>5. \A w \in Unit : Within(answer[w])'
  BY DEF GateInv, Types, Within, NoAnswer
<1>6. MemoryWithin'
  BY DEF GateInv, Types, MemoryWithin
<1>7. Requests'
  <2> SUFFICES ASSUME NEW w \in Unit
               PROVE /\ phase[CallOf[w]] \in {"idle", "probing"} => stage'[w] = "idle"
                     /\ stage'[w] = "ok" => /\ ~excused' => lastUsed # None
                                            /\ phase[CallOf[w]] = "running" => answer'[w].status = "ok"
    BY DEF Requests
  <2>1. CASE w = u
    BY <1>3, <2>1 DEF GateInv, Requests
  <2>2. CASE w # u
    BY <1>1, <1>2, <2>2 DEF GateInv, Requests
  <2> QED
    BY <2>1, <2>2
<1>8. Accounted'
  <2>1. \A w \in Unit : /\ Coming(w)' => w # u
                        /\ w # u => (Coming(w)' <=> Coming(w)) /\ answer'[w] = answer[w]
    BY <1>1, <1>2, <1>3 DEF Coming
  <2>2. ~excused' => ~Coming(u)
    OBVIOUS
  <2> QED
    BY <2>1, <2>2, AccountedKept DEF GateInv
<1> QED
  BY <1>4, <1>5, <1>6, <1>7, <1>8 DEF GateInv, Within

\* Remembering an answer that is behind, or whose figures are within the plan.
LEMMA Remembered ==
  ASSUME Types, MemoryWithin, ~excused, NEW used \in Figure, NEW rest \in Figure,
         Behind(used) \/ (used # None /\ rest # None /\ used + rest <= account.limit),
         Remember(used, rest)
  PROVE  /\ lastUsed' \in Nat /\ remaining' \in Nat /\ lastUsed' + remaining' <= account.limit
         /\ lastUsed' = used \/ (lastUsed # None /\ lastUsed' = lastUsed)
         /\ lastUsed # None => lastUsed <= lastUsed'
         /\ used <= lastUsed'
<1>1. CASE Behind(used)
  BY <1>1 DEF Types, MemoryWithin, Remember, Behind, Figure
<1>2. CASE ~Behind(used)
  <2>1. used \in Nat /\ rest \in Nat /\ used + rest <= account.limit
    BY <1>2 DEF Figure
  <2>2. lastUsed' = used /\ remaining' = rest
    BY <1>2, <2>1, NoneAssumption DEF Remember, Told
  <2>3. lastUsed # None => lastUsed <= used
    BY <1>2, <2>1, NoneAssumption DEF Behind, Types
  <2> QED
    BY <2>1, <2>2, <2>3
<1> QED
  BY <1>1, <1>2

LEMMA RememberedTypes ==
  ASSUME Types, NEW used \in Figure, NEW rest \in Figure, Remember(used, rest)
  PROVE  lastUsed' \in Figure /\ remaining' \in Figure
BY DEF Types, Remember, Told, Figure

\* The answers a call counts have a highest and a lowest figure, and the two
\* together are within the plan if no answer left one out.
LEMMA Folded ==
  ASSUME GateInv, NEW c \in Call, phase[c] = "running", Counted(c) # {}
  PROVE  /\ ~excused => lastUsed # None
         /\ Fold(c).used \in Figure /\ Fold(c).remaining \in Figure
         /\ (\A u \in Counted(c) : ~Incomplete(answer[u]))
              => /\ Fold(c).used # None /\ Fold(c).remaining # None
                 /\ Fold(c).used + Fold(c).remaining <= account.limit
<1> DEFINE U == {answer[u].used : u \in Counted(c)} \ {None}
           R == {answer[u].remaining : u \in Counted(c)} \ {None}
<1>1. ASSUME NEW u \in Counted(c)
      PROVE  /\ ~excused => lastUsed # None
             /\ answer[u].used \in Figure /\ answer[u].remaining \in Figure
             /\ answer[u].used # None => answer[u].used <= account.limit
             /\ ~Incomplete(answer[u]) => /\ answer[u].used # None /\ answer[u].remaining # None
                                          /\ answer[u].used + answer[u].remaining <= account.limit
  <2>1. u \in Unit /\ stage[u] = "ok" /\ CallOf[u] = c
    BY DEF Counted, Units
  <2>2. (~excused => lastUsed # None) /\ answer[u].status = "ok"
    BY <2>1 DEF GateInv, Requests
  <2>3. answer[u] \in OkAnswers
    BY <2>1, <2>2 DEF GateInv, Types, Answers, Statuses
  <2> QED
    BY <2>1, <2>2, <2>3 DEF GateInv, Within, OkAnswers, Incomplete
<1>2. account.limit \in Nat
  BY DEF GateInv, Types
<1>3. U \in SUBSET Nat /\ R \in SUBSET Nat /\ \A n \in U : n <= account.limit
  BY <1>1 DEF Figure
<1>4. Fold(c).used = (IF U = {} THEN None ELSE CHOOSE n \in U : \A m \in U : m <= n)
      /\ Fold(c).remaining = (IF R = {} THEN None ELSE CHOOSE n \in R : \A m \in R : n <= m)
  BY DEF Fold
<1>5. U # {} => Fold(c).used \in U
  <2>1. U # {} => \E m \in U : \A n \in U : n <= m
    BY <1>2, <1>3, GreatestOfNaturals
  <2> HIDE DEF U
  <2> QED
    BY <1>4, <2>1
<1>6. R # {} => Fold(c).remaining \in R /\ \A n \in R : Fold(c).remaining <= n
  <2>1. R # {} => \E m \in R : \A n \in R : m <= n
    BY <1>3, LeastOfNaturals
  <2> HIDE DEF R
  <2> QED
    BY <1>4, <2>1
<1>7. Fold(c).used \in Figure /\ Fold(c).remaining \in Figure
  BY <1>3, <1>4, <1>5, <1>6 DEF Figure
<1>8. ASSUME \A u \in Counted(c) : ~Incomplete(answer[u])
      PROVE  /\ Fold(c).used # None /\ Fold(c).remaining # None
             /\ Fold(c).used + Fold(c).remaining <= account.limit
  <2>1. U # {} /\ R # {}
    BY <1>1, <1>8
  <2>2. PICK u \in Counted(c) : Fold(c).used = answer[u].used
    BY <1>5, <2>1
  <2>3. answer[u].remaining \in R
    BY <1>1, <1>8
  <2>4. Fold(c).used # None /\ Fold(c).remaining # None
    BY <1>5, <1>6, <2>1
  <2>5. Fold(c).used \in Nat /\ Fold(c).remaining \in Nat /\ answer[u].remaining \in Nat
    BY <1>3, <1>5, <1>6, <2>1, <2>3
  <2>6. Fold(c).remaining <= answer[u].remaining
    BY <1>6, <2>1, <2>3
  <2>7. answer[u].used + answer[u].remaining <= account.limit
    BY <1>1, <1>8
  <2> QED
    BY <1>2, <2>2, <2>4, <2>5, <2>6, <2>7
<1>9. ~excused => lastUsed # None
  BY <1>1
<1> QED
  BY <1>7, <1>8, <1>9

\* What only a call's clock, the hour or the configuration tell leaves it.
LEMMA Unmoved ==
  ASSUME GateInv, UNCHANGED <<account, reserve, remaining, lastUsed, limit, phase, stage, answer, excused>>,
         suspended' \in BOOLEAN, stale' \in BOOLEAN,
         probe' \in Answers \cup [status : {"asked"}], Within(probe)'
  PROVE  GateInv'
<1>1. Types'
  BY DEF GateInv, Types
<1>2. Accounted'
  BY AccountedKept DEF GateInv, Coming
<1> QED
  BY <1>1, <1>2 DEF GateInv, Within, MemoryWithin, Requests

LEMMA CallStepKeeps == ASSUME GateInv, NEW c \in Call, CallStep(c) PROVE GateInv'
<1>1. CASE Begin(c)
  BY <1>1, GateMoves, Verdicts DEF Begin, Made, vendor
<1>2. CASE CallResumes(c)
  BY <1>2, GateMoves, Verdicts DEF CallResumes, vendor
<1>3. CASE Status(c)
  <2>1. Types'
    <3>1. phase' \in [Call -> {"idle", "probing", "running", "over"}]
      BY <1>3 DEF Status, GateInv, Types
    <3>2. probe' \in Answers \cup [status : {"asked"}] /\ stale' \in BOOLEAN
      BY <1>3, ProbeTypes DEF Status, GateInv
    <3> QED
      BY <1>3, <3>1, <3>2 DEF Status, requests, vendor, GateInv, Types
  <2>2. Requests'
    <3> SUFFICES ASSUME NEW u \in Unit
                 PROVE /\ phase'[CallOf[u]] \in {"idle", "probing"} => stage'[u] = "idle"
                       /\ stage'[u] = "ok" => /\ ~excused' => lastUsed' # None
                                              /\ phase'[CallOf[u]] = "running" => answer'[u].status = "ok"
      BY DEF Requests
    <3>1. CallOf[u] \in Call /\ phase[c] = "idle"
      BY <1>3, CallsAssumption DEF Status, Made
    <3> QED
      BY <1>3, <3>1 DEF Status, requests, GateInv, Types, Requests
  <2>3. Accounted'
    BY <1>3, AccountedKept DEF Status, requests, vendor, GateInv, Coming
  <2>4. Within(probe)'
    BY <1>3 DEF Status, ProbeAccount, vendor, GateInv, Within
  <2> QED
    BY <1>3, <2>1, <2>2, <2>3, <2>4 DEF Status, requests, vendor, GateInv, Within, MemoryWithin
<1>4. CASE StatusReturns(c)
  <2>1. Types'
    BY <1>4 DEF StatusReturns, requests, vendor, memory, GateInv, Types
  <2>2. Requests'
    BY <1>4, CallsAssumption DEF StatusReturns, requests, memory, GateInv, Types, Requests
  <2>3. Accounted'
    BY <1>4, AccountedKept DEF StatusReturns, requests, vendor, memory, GateInv, Coming
  <2> QED
    BY <1>4, <2>1, <2>2, <2>3
    DEF StatusReturns, requests, vendor, memory, GateInv, Within, MemoryWithin
<1>5. CASE Return(c) \/ Expire(c)
  <2>1. PICK unsure \in BOOLEAN :
          /\ phase[c] = "running" /\ Dispose(c, unsure)
          /\ UNCHANGED <<vendor, reserve, limit, suspended, stale, probe>>
          /\ \/ UNCHANGED <<lastUsed, remaining>>
             \/ /\ Counted(c) # {} /\ Remember(Fold(c).used, Fold(c).remaining)
                /\ unsure <=> ~Behind(Fold(c).used) /\ \E u \in Counted(c) : Incomplete(answer[u])
    <3>1. CASE Return(c)
      <4> DEFINE left == ~Behind(Fold(c).used) /\ \E u \in Counted(c) : Incomplete(answer[u])
      <4>1. CASE Counted(c) # {} /\ Kind[c] # "seller" /\ (Kind[c] = "items" \/ Counted(c) = Units(c))
        <5>1. Dispose(c, left) /\ Remember(Fold(c).used, Fold(c).remaining) /\ left \in BOOLEAN
          BY <3>1, <4>1 DEF Return
        <5> QED
          BY <3>1, <4>1, <5>1 DEF Return
      <4>2. CASE ~(Counted(c) # {} /\ Kind[c] # "seller" /\ (Kind[c] = "items" \/ Counted(c) = Units(c)))
        BY <3>1, <4>2 DEF Return
      <4> QED
        BY <4>1, <4>2
    <3>2. CASE Expire(c)
      BY <3>2 DEF Expire, memory
    <3> QED
      BY <1>5, <3>1, <3>2
  <2>2. /\ lastUsed' \in Nat \cup {None} /\ remaining' \in Nat \cup {None} /\ MemoryWithin'
        /\ ~excused' => /\ lastUsed = None => lastUsed' = None
                        /\ lastUsed # None => lastUsed' # None /\ lastUsed <= lastUsed'
    <3>1. UNCHANGED account /\ (~excused' => ~excused /\ ~unsure)
      BY <2>1 DEF Dispose, vendor
    <3>2. CASE UNCHANGED <<lastUsed, remaining>>
      BY <2>1, <3>1, <3>2 DEF GateInv, Types, MemoryWithin
    <3>3. CASE /\ Counted(c) # {} /\ Remember(Fold(c).used, Fold(c).remaining)
               /\ unsure <=> ~Behind(Fold(c).used) /\ \E u \in Counted(c) : Incomplete(answer[u])
      <4>1. Fold(c).used \in Figure /\ Fold(c).remaining \in Figure /\ (~excused => lastUsed # None)
        BY <2>1, <3>3, Folded
      <4>2. lastUsed' \in Figure /\ remaining' \in Figure
        BY <3>3, <4>1, RememberedTypes DEF GateInv
      <4>3. ASSUME ~excused'
            PROVE  /\ lastUsed' \in Nat /\ remaining' \in Nat /\ lastUsed' + remaining' <= account.limit
                   /\ lastUsed # None => lastUsed <= lastUsed'
        <5>1. Behind(Fold(c).used)
              \/ /\ Fold(c).used # None /\ Fold(c).remaining # None
                 /\ Fold(c).used + Fold(c).remaining <= account.limit
          BY <2>1, <3>1, <3>3, <4>3, Folded
        <5> HIDE DEF Fold
        <5> QED
          BY <3>1, <3>3, <4>1, <4>3, <5>1, Remembered DEF GateInv
      <4> QED
        BY <3>1, <4>1, <4>2, <4>3, NoneAssumption DEF MemoryWithin, Figure
    <3> QED
      BY <2>1, <3>2, <3>3
  <2>3. /\ stage' \in [Unit -> Stages]
        /\ \A u \in Unit : stage'[u] \in {stage[u], "failed"}
        /\ \A u \in Unit : CallOf[u] # c => stage'[u] = stage[u]
    BY <2>1 DEF Dispose, Units, GateInv, Types, Stages
  <2>4. /\ answer' \in [Unit -> Answers]
        /\ \A u \in Unit : answer'[u] \in {answer[u], NoAnswer}
        /\ \A u \in Unit : CallOf[u] # c => answer'[u] = answer[u]
    BY <2>1 DEF Dispose, Units, GateInv, Types, NoAnswer, Answers, Statuses
  <2>5. phase' = [phase EXCEPT ![c] = "over"]
    BY <2>1 DEF Dispose
  <2>6. excused' \in BOOLEAN /\ (~excused' => ~excused)
        /\ (~excused' => \A u \in Unit : Coming(u) => CallOf[u] # c)
    BY <2>1 DEF Dispose, Units, Coming, Flying, GateInv, Types
  <2>7. Types'
    BY <2>1, <2>2, <2>3, <2>4, <2>5, <2>6 DEF GateInv, Types, vendor
  <2>8. \A u \in Unit : Within(answer[u])'
    BY <2>1, <2>4 DEF GateInv, Within, NoAnswer, vendor
  <2>9. Requests'
    <3> SUFFICES ASSUME NEW u \in Unit
                 PROVE /\ phase'[CallOf[u]] \in {"idle", "probing"} => stage'[u] = "idle"
                       /\ stage'[u] = "ok" => /\ ~excused' => lastUsed' # None
                                              /\ phase'[CallOf[u]] = "running" => answer'[u].status = "ok"
      BY DEF Requests
    <3>1. CallOf[u] \in Call
      BY CallsAssumption
    <3>2. CASE CallOf[u] = c
      BY <2>2, <2>3, <2>5, <2>6, <3>1, <3>2 DEF GateInv, Types, Requests
    <3>3. CASE CallOf[u] # c
      BY <2>2, <2>3, <2>4, <2>5, <2>6, <3>1, <3>3 DEF GateInv, Types, Requests
    <3> QED
      BY <3>2, <3>3
  <2>10. Accounted'
    <3> SUFFICES ASSUME ~excused' PROVE Accounted'
      BY DEF Accounted
    <3>1. /\ \A u \in Unit : Coming(u) => Coming(u)' /\ answer'[u] = answer[u]
          /\ \A u \in Unit : Coming(u)' => Coming(u)
      BY <2>3, <2>4, <2>6 DEF Coming, NoAnswer
    <3>2. CASE lastUsed = None
      BY <2>1, <2>2, <2>6, <3>1, <3>2, AccountedKept DEF GateInv, vendor
    <3>3. CASE lastUsed # None
      <4>1. lastUsed \in Nat /\ lastUsed' \in Nat /\ lastUsed <= lastUsed' /\ Covered(lastUsed)
        BY <2>2, <2>6, <3>3 DEF GateInv, Types, Accounted
      <4>2. PICK later \in Nat : lastUsed' = later
        BY <4>1
      <4>3. Covered(later)'
        BY <2>1, <3>1, <4>1, <4>2, CoveredKept DEF GateInv, vendor
      <4> QED
        BY <2>2, <3>3, <4>2, <4>3 DEF Accounted, Covered, Coming
    <3> QED
      BY <3>2, <3>3
  <2> QED
    BY <2>1, <2>2, <2>7, <2>8, <2>9, <2>10 DEF GateInv, Within, vendor
<1>6. CASE TimePasses(c)
  BY <1>6, Unmoved DEF TimePasses, vendor, memory, requests, GateInv, Types, Within
<1> QED
  BY <1>1, <1>2, <1>3, <1>4, <1>5, <1>6 DEF CallStep

LEMMA RequestStepKeeps == ASSUME GateInv, NEW u \in Unit, RequestStep(u) PROVE GateInv'
<1> USE DEF vendor, memory, calls
<1>1. CASE TakeSlot(u)
  BY <1>1, SlotMoves, Verdicts DEF TakeSlot
<1>2. CASE SlotResumes(u)
  BY <1>2, SlotMoves, Verdicts DEF SlotResumes, GateInv, Requests
<1>3. CASE Attempt(u)
  <2>1. PICK how \in {"failed", "flight"} : stage' = [stage EXCEPT ![u] = how]
    BY <1>3 DEF Attempt, End
  <2> QED
    BY <1>3, <2>1, RequestMoves DEF Attempt, Coming, Stages, GateInv, Types
<1>4. CASE TimesOut(u)
  <2>1. PICK how \in {"failed", "backoff"} : stage' = [stage EXCEPT ![u] = how]
    BY <1>4 DEF TimesOut, End
  <2> QED
    BY <1>4, <2>1, RequestMoves DEF TimesOut, Flying, Coming, Stages, GateInv, Types
<1>5. CASE ServerError(u)
  <2>1. PICK how \in {"failed", "backoff"} : stage' = [stage EXCEPT ![u] = how]
    BY <1>5 DEF ServerError, End
  <2> QED
    BY <1>5, <2>1, RequestMoves DEF ServerError, Answered, Coming, Stages, GateInv, Types
<1>6. CASE Exhausted(u)
  BY <1>6, RequestMoves DEF Exhausted, End, Answered, Coming, Stages, GateInv, Types
<1>7. CASE Suspends(u)
  BY <1>7, RequestMoves DEF Suspends, End, Answered, Coming, Stages, GateInv, Types
<1>8. CASE Succeeds(u)
  <2>1. /\ stage[u] = "served" /\ answer[u].status = "ok"
        /\ Remember(answer[u].used, answer[u].remaining)
        /\ stage' = [stage EXCEPT ![u] = "ok"]
        /\ UNCHANGED <<account, reserve, limit, suspended, stale, probe, phase, answer>>
    BY <1>8 DEF Succeeds, Answered, End
  <2>2. excused' \in BOOLEAN /\ (~excused' => ~excused /\ (Behind(answer[u].used) \/ ~Incomplete(answer[u])))
    BY <1>8 DEF Succeeds, GateInv, Types
  <2>3. answer[u] \in OkAnswers /\ Within(answer[u])
    BY <2>1 DEF GateInv, Types, Answers, Statuses
  <2>4. answer[u].used \in Figure /\ answer[u].remaining \in Figure /\ answer[u].charge \in Nat
    BY <2>3 DEF OkAnswers
  <2>5. lastUsed' \in Figure /\ remaining' \in Figure
    BY <2>1, <2>4, RememberedTypes DEF GateInv
  <2>6. ASSUME ~excused'
        PROVE  /\ lastUsed' \in Nat /\ remaining' \in Nat /\ lastUsed' + remaining' <= account.limit
               /\ lastUsed' = answer[u].charge \/ (lastUsed # None /\ lastUsed' = lastUsed)
               /\ lastUsed # None => lastUsed <= lastUsed'
               /\ answer[u].charge <= lastUsed'
               /\ lastUsed' # None
    <3>1. \/ Behind(answer[u].used)
          \/ /\ answer[u].used # None /\ answer[u].remaining # None
             /\ answer[u].used + answer[u].remaining <= account.limit
      BY <2>1, <2>2, <2>3, <2>6 DEF Incomplete, Within
    <3>2. answer[u].used = answer[u].charge
      BY <2>1, <2>3, <3>1 DEF Within, Behind
    <3>3. MemoryWithin /\ Types /\ ~excused
      BY <2>2, <2>6 DEF GateInv
    <3>4. /\ lastUsed' \in Nat /\ remaining' \in Nat /\ lastUsed' + remaining' <= account.limit
          /\ lastUsed' = answer[u].used \/ (lastUsed # None /\ lastUsed' = lastUsed)
          /\ lastUsed # None => lastUsed <= lastUsed'
          /\ answer[u].used <= lastUsed'
      BY <2>1, <2>4, <3>1, <3>3, Remembered
    <3> QED
      BY <3>2, <3>4, NoneAssumption
  <2>7. stage' \in [Unit -> Stages] /\ stage'[u] = "ok" /\ \A w \in Unit : w # u => stage'[w] = stage[w]
    BY <2>1 DEF GateInv, Types, Stages
  <2>8. Types'
    BY <2>1, <2>2, <2>5, <2>7 DEF GateInv, Types, Figure
  <2>9. Requests'
    BY <2>1, <2>2, <2>6, <2>7 DEF GateInv, Requests
  <2>10. MemoryWithin'
    BY <2>1, <2>6 DEF MemoryWithin
  <2>11. Accounted'
    <3> SUFFICES ASSUME ~excused' PROVE Covered(lastUsed)'
      BY <2>6 DEF Accounted
    <3>1. PICK later \in Nat : lastUsed' = later
      BY <2>6
    <3>2. \A w \in Unit : Coming(w) /\ answer[w].charge > later
                            => Coming(w)' /\ answer'[w].charge = answer[w].charge
      BY <2>1, <2>4, <2>6, <2>7, <3>1 DEF Coming
    <3>3. \E seen \in Nat : seen <= later /\ Covered(seen)
      <4>1. CASE lastUsed = None
        BY <2>1, <2>2, <2>4, <2>6, <3>1, <4>1 DEF GateInv, Accounted, Coming
      <4>2. CASE lastUsed # None
        BY <2>2, <2>6, <3>1, <4>2 DEF GateInv, Types, Accounted
      <4> QED
        BY <4>1, <4>2
    <3>4. Covered(later)'
      BY <2>1, <3>2, <3>3, CoveredKept DEF GateInv
    <3> QED
      BY <3>1, <3>4 DEF Covered, Coming
  <2> QED
    BY <2>1, <2>8, <2>9, <2>10, <2>11 DEF GateInv, Within
<1>9. CASE Serve(u)
  <2>1. /\ stage[u] = "flight" /\ stage' = [stage EXCEPT ![u] = "served"]
        /\ UNCHANGED <<reserve, remaining, lastUsed, limit, suspended, stale, probe, phase, excused>>
    BY <1>9 DEF Serve
  <2>2. stage' \in [Unit -> Stages] /\ stage'[u] = "served" /\ \A w \in Unit : w # u => stage'[w] = stage[w]
    BY <2>1 DEF GateInv, Types, Stages
  <2>3. Requests'
    <3>1. \A w \in Unit : w # u => answer'[w] = answer[w]
      BY <1>9 DEF Serve, GateInv, Types
    <3> QED
      BY <2>1, <2>2, <3>1 DEF GateInv, Requests
  <2>4. CASE account' = account /\ \E st \in Statuses : answer' = [answer EXCEPT ![u] = [status |-> st]]
    <3>1. PICK st \in Statuses : answer' = [answer EXCEPT ![u] = [status |-> st]]
      BY <2>4
    <3>2. answer' \in [Unit -> Answers] /\ answer'[u].status = st /\ \A w \in Unit : w # u => answer'[w] = answer[w]
      BY <3>1 DEF GateInv, Types, Answers
    <3>3. Types'
      BY <2>1, <2>2, <2>4, <3>2 DEF GateInv, Types
    <3>4. \A w \in Unit : Within(answer[w])'
      BY <2>4, <3>2 DEF GateInv, Within, Statuses
    <3>5. \A w \in Unit : /\ Coming(w) => Coming(w)' /\ answer'[w] = answer[w]
                          /\ Coming(w)' => Coming(w)
      BY <2>1, <2>2, <3>2 DEF Coming, Statuses
    <3>6. Accounted'
      BY <2>1, <2>4, <3>5, AccountedKept DEF GateInv
    <3> QED
      BY <2>1, <2>3, <2>4, <3>3, <3>4, <3>6 DEF GateInv, Within, MemoryWithin
  <2>5. ASSUME Balance > 0, account' = [account EXCEPT !.used = @ + 1],
               NEW silent \in SUBSET {"used", "remaining"}, answer' = [answer EXCEPT ![u] = Figures(silent)']
        PROVE  GateInv'
    <3>0. PICK told : told = Figures(silent)'
      OBVIOUS
    <3>1. /\ account.used \in Nat /\ account.limit \in Nat /\ account.used < account.limit
      BY <2>5 DEF Balance, GateInv, Types
    <3>2. /\ account' \in [used : Nat, limit : Nat, suspended : BOOLEAN]
          /\ account'.used = account.used + 1 /\ account'.limit = account.limit
      BY <2>5, <3>1 DEF GateInv, Types
    <3>3. told \in OkAnswers /\ told.status = "ok" /\ told.charge = account.used + 1 /\ Within(told)'
      BY <3>0, <3>1, <3>2, NoneAssumption DEF Figures, Balance, OkAnswers, Figure, Within
    <3>4. answer' \in [Unit -> Answers] /\ answer'[u] = told /\ \A w \in Unit : w # u => answer'[w] = answer[w]
      BY <2>5, <3>0, <3>3 DEF GateInv, Types, Answers
    <3>5. Types'
      BY <2>1, <2>2, <3>1, <3>2, <3>4 DEF GateInv, Types
    <3>6. \A w \in Unit : Within(answer[w])'
      <4>1. \A w \in Unit : w # u => Within(answer[w])'
        BY <3>2, <3>4 DEF GateInv, Within
      <4> QED
        BY <3>3, <3>4, <4>1 DEF Within
    <3>7. /\ Coming(u)' /\ ~ Coming(u)
          /\ \A w \in Unit : w # u => (Coming(w)' <=> Coming(w)) /\ answer'[w] = answer[w]
      BY <2>1, <2>2, <3>3, <3>4 DEF Coming
    <3>8. ASSUME NEW seen \in Nat, Covered(seen) PROVE Covered(seen)'
      <4> SUFFICES ASSUME NEW n \in (seen + 1)..account'.used
                   PROVE  \E w \in Unit : Coming(w)' /\ answer'[w].charge = n
        BY DEF Covered
      <4>1. CASE n = account.used + 1
        BY <3>3, <3>4, <3>7, <4>1
      <4>2. CASE n # account.used + 1
        <5>1. n \in (seen + 1)..account.used
          BY <3>1, <3>2, <4>2
        <5>2. PICK w \in Unit : Coming(w) /\ answer[w].charge = n
          BY <3>8, <5>1 DEF Covered
        <5> QED
          BY <3>7, <5>2
      <4> QED
        BY <4>1, <4>2
    <3>9. Accounted'
      <4> SUFFICES ASSUME ~excused PROVE Accounted'
        BY <2>1 DEF Accounted
      <4>1. CASE lastUsed = None
        <5> SUFFICES ASSUME NEW w \in Unit, Coming(w)' PROVE Covered(answer[w].charge)'
          BY <2>1, <4>1 DEF Accounted
        <5>1. PICK k \in Nat : answer'[w].charge = k
          BY <3>5 DEF Types, Coming, Answers, OkAnswers, Statuses
        <5>2. Covered(k)'
          <6>1. CASE w = u
            BY <3>1, <3>2, <3>3, <3>4, <5>1, <6>1 DEF Covered
          <6>2. CASE w # u
            <7>1. Coming(w) /\ answer[w].charge = k
              BY <3>7, <5>1, <6>2
            <7>2. Covered(k)
              BY <4>1, <7>1 DEF GateInv, Accounted
            <7> QED
              BY <3>8, <7>2
          <6> QED
            BY <6>1, <6>2
        <5> QED
          BY <5>1, <5>2 DEF Covered, Coming
      <4>2. CASE lastUsed # None
        <5>1. lastUsed \in Nat /\ Covered(lastUsed)
          BY <4>2 DEF GateInv, Types, Accounted
        <5>2. PICK k \in Nat : lastUsed = k
          BY <5>1
        <5>3. Covered(k)'
          BY <3>8, <5>1, <5>2
        <5> QED
          BY <2>1, <4>2, <5>2, <5>3 DEF Accounted, Covered, Coming
      <4> QED
        BY <4>1, <4>2
    <3> QED
      BY <2>1, <2>3, <3>2, <3>5, <3>6, <3>9 DEF GateInv, Within, MemoryWithin
  <2> QED
    BY <1>9, <2>4, <2>5 DEF Serve, Statuses
<1> QED
  BY <1>1, <1>2, <1>3, <1>4, <1>5, <1>6, <1>7, <1>8, <1>9 DEF RequestStep

LEMMA ReadAccountKeeps == ASSUME GateInv, ReadAccount PROVE GateInv'
<1> USE DEF vendor, calls, requests
<1>1. probe \in OkAnswers /\ Within(probe) /\ probe.status = "ok"
  BY DEF ReadAccount, GateInv, Types, Answers, Statuses
<1>2. /\ lastUsed' \in Figure /\ remaining' \in Figure /\ limit' \in Figure
      /\ lastUsed' = probe.used
  BY <1>1 DEF ReadAccount, OkAnswers, Told, GateInv, Types, Figure
<1>3. probe' \in Answers /\ Within(probe)'
  BY DEF ReadAccount, NoAnswer, Answers, Statuses, Within
<1>4. excused' \in BOOLEAN /\ (~excused' => ~Incomplete(probe) /\ Covered(probe.used))
  BY Zenon DEF ReadAccount
<1>5. Types'
  BY <1>2, <1>3, <1>4 DEF ReadAccount, GateInv, Types, Figure
<1>6. ASSUME ~excused'
      PROVE  /\ lastUsed' \in Nat /\ remaining' \in Nat /\ lastUsed' # None
             /\ lastUsed' + remaining' <= account.limit
  BY <1>1, <1>4, <1>6, NoneAssumption DEF ReadAccount, Incomplete, OkAnswers, Told, Within, Figure
<1>7. Accounted'
  <2> SUFFICES ASSUME ~excused' PROVE Covered(lastUsed)'
    BY <1>6 DEF Accounted
  <2> QED
    BY <1>2, <1>4 DEF ReadAccount, Covered, Coming
<1>8. MemoryWithin'
  BY <1>6 DEF ReadAccount, MemoryWithin
<1>9. Requests'
  BY <1>6 DEF ReadAccount, GateInv, Requests
<1> QED
  BY <1>3, <1>5, <1>7, <1>8, <1>9 DEF ReadAccount, GateInv, Within

\* The account is told to be empty: that is within any plan.
LEMMA ProbeExhaustedKeeps == ASSUME GateInv, ProbeExhausted PROVE GateInv'
<1> USE DEF vendor, calls, requests
<1>1. probe' \in Answers /\ Within(probe)'
  BY DEF ProbeExhausted, NoAnswer, Answers, Statuses, Within
<1>2. Types'
  BY <1>1 DEF ProbeExhausted, GateInv, Types
<1>3. MemoryWithin'
  BY DEF ProbeExhausted, GateInv, Types, MemoryWithin
<1>4. Accounted'
  BY AccountedKept DEF ProbeExhausted, GateInv, Coming
<1> QED
  BY <1>1, <1>2, <1>3, <1>4 DEF ProbeExhausted, GateInv, Within, Requests

LEMMA AccountChangesKeeps == ASSUME GateInv, AccountChanges PROVE GateInv'
<1> USE DEF memory, calls, requests
<1>1. /\ account' \in [used : Nat, limit : Nat, suspended : BOOLEAN]
      /\ account'.used \in {account.used, 0}
      /\ account.limit <= account'.limit
  <2>1. PICK used \in {account.used, 0}, raise \in {0, TopUp}, off \in BOOLEAN :
          account' = [account EXCEPT !.used = used, !.limit = @ + raise, !.suspended = off]
    <3> DEFINE Changed(used, raise, off) ==
                 [account EXCEPT !.used = used, !.limit = @ + raise, !.suspended = off]
    <3>1. account = [used |-> account.used, limit |-> account.limit, suspended |-> account.suspended]
          /\ account.limit + 0 = account.limit /\ account.suspended \in BOOLEAN
      BY DEF GateInv, Types
    <3>2. CASE account' = [account EXCEPT !.suspended = TRUE]
      <4>1. account' = Changed(account.used, 0, TRUE)
        BY <3>1, <3>2
      <4> QED
        BY <4>1
    <3>3. CASE account' = [account EXCEPT !.limit = @ + TopUp, !.suspended = FALSE]
      <4>1. account' = Changed(account.used, TopUp, FALSE)
        BY <3>1, <3>3
      <4> QED
        BY <4>1
    <3>4. CASE account' = [account EXCEPT !.used = 0]
      <4>1. account' = Changed(0, 0, account.suspended)
        BY <3>1, <3>4
      <4> QED
        BY <3>1, <4>1
    <3> QED
      BY <3>2, <3>3, <3>4 DEF AccountChanges
  <2>2. raise \in Nat /\ used \in Nat /\ account.limit \in Nat
    BY FiguresAssumption DEF GateInv, Types
  <2>3. account'.used = used /\ account'.limit = account.limit + raise
    BY <2>1 DEF GateInv, Types
  <2>4. account' = [used |-> used, limit |-> account.limit + raise, suspended |-> off]
    BY <2>1 DEF GateInv, Types
  <2> QED
    BY <2>2, <2>3, <2>4
<1>2. account.used \in Nat /\ account.limit \in Nat /\ account'.limit \in Nat
  BY <1>1 DEF GateInv, Types
<1>3. Types'
  BY <1>1, <1>2 DEF AccountChanges, GateInv, Types
<1>4. \A u \in Unit : Within(answer[u])'
  <2> SUFFICES ASSUME NEW u \in Unit, answer[u].status = "ok" PROVE Within(answer[u])'
    BY DEF AccountChanges, Within
  <2>1. answer[u] \in OkAnswers /\ Within(answer[u])
    BY DEF GateInv, Types, Answers, Statuses
  <2> QED
    BY <1>1, <1>2, <2>1, NoneAssumption DEF AccountChanges, OkAnswers, Figure, Within
<1>5. Within(probe)'
  <2> SUFFICES ASSUME probe.status = "ok" PROVE Within(probe)'
    BY DEF AccountChanges, Within
  <2>1. probe \in OkAnswers /\ Within(probe)
    BY DEF GateInv, Types, Answers, Statuses
  <2> QED
    BY <1>1, <1>2, <2>1, NoneAssumption DEF AccountChanges, OkAnswers, Figure, Within
<1>6. MemoryWithin'
  BY <1>1, <1>2 DEF AccountChanges, GateInv, Types, MemoryWithin
<1>7. \A seen \in Nat : Covered(seen) => Covered(seen)'
  BY <1>1, <1>2 DEF AccountChanges, Covered, Coming
<1>8. \A u \in Unit : Coming(u) => answer[u].charge \in Nat
  BY DEF GateInv, Types, Coming, Answers, OkAnswers, Statuses
<1>9. Accounted'
  <2> SUFFICES ASSUME ~excused PROVE Accounted'
    BY DEF AccountChanges, Accounted
  <2>1. CASE lastUsed = None
    <3> SUFFICES ASSUME NEW u \in Unit, Coming(u) PROVE Covered(answer[u].charge)'
      BY <2>1 DEF AccountChanges, Accounted, Coming
    <3>1. PICK k \in Nat : answer[u].charge = k
      BY <1>8
    <3>2. Covered(k)
      BY <2>1, <3>1 DEF GateInv, Accounted
    <3> QED
      BY <1>7, <3>1, <3>2 DEF AccountChanges, Covered, Coming
  <2>2. CASE lastUsed # None
    <3>1. PICK k \in Nat : lastUsed = k
      BY <2>2 DEF GateInv, Types
    <3>2. Covered(k)
      BY <2>2, <3>1 DEF GateInv, Accounted
    <3> QED
      BY <1>7, <2>2, <3>1, <3>2 DEF AccountChanges, Accounted, Covered, Coming
  <2> QED
    BY <2>1, <2>2
<1> QED
  BY <1>3, <1>4, <1>5, <1>6, <1>9 DEF AccountChanges, GateInv, Requests

LEMMA InitGateInv == Init => GateInv
<1> SUFFICES ASSUME Init PROVE GateInv
  OBVIOUS
<1>1. Types
  BY FiguresAssumption DEF Init, Types, Answers, Statuses, Stages, NoAnswer
<1>2. \A u \in Unit : Within(answer[u]) /\ ~ Coming(u)
  BY DEF Init, Within, Coming, NoAnswer
<1>3. Within(probe) /\ MemoryWithin /\ Requests
  BY CallsAssumption DEF Init, Within, MemoryWithin, Requests
<1> QED
  BY <1>1, <1>2, <1>3 DEF Init, GateInv, Accounted

LEMMA NextGateInv == GateInv /\ [Next]_vars => GateInv'
<1> SUFFICES ASSUME GateInv, [Next]_vars PROVE GateInv'
  OBVIOUS
<1> USE DEF vendor, memory, calls, requests
<1>1. ASSUME NEW c \in Call, CallStep(c) PROVE GateInv'
  BY <1>1, CallStepKeeps
<1>2. ASSUME NEW u \in Unit, RequestStep(u) PROVE GateInv'
  BY <1>2, RequestStepKeeps
<1>3. CASE ReadAccount
  BY <1>3, ReadAccountKeeps
<1>4. CASE ProbeSuspended \/ ProbeFails
  <2>1. NoAnswer \in Answers /\ NoAnswer.status = "none"
    BY DEF NoAnswer, Answers, Statuses
  <2> QED
    BY <1>4, <2>1, Unmoved DEF ProbeSuspended, ProbeFails, Fault, GateInv, Types, Within
<1>5. CASE ServeProbe
  <2>1. CASE account.suspended
    <3>1. [status |-> "suspended"] \in Answers
      BY DEF Answers, Statuses
    <3> QED
      BY <1>5, <2>1, <3>1, Unmoved DEF ServeProbe, GateInv, Types, Within
  <2>2. CASE probe' = [status |-> "exhausted"]
    <3>1. [status |-> "exhausted"] \in Answers
      BY DEF Answers, Statuses
    <3> QED
      BY <1>5, <2>2, <3>1, Unmoved DEF ServeProbe, GateInv, Types, Within
  <2>3. ASSUME NEW silent \in SUBSET {"used", "remaining", "limit"}, probe' = Figures(silent)
        PROVE  GateInv'
    <3>1. Figures(silent) \in OkAnswers /\ Within(Figures(silent))
      BY NoneAssumption DEF Figures, OkAnswers, Figure, Within, Balance, GateInv, Types
    <3>2. UNCHANGED account
      BY <1>5 DEF ServeProbe
    <3>3. Within(probe)'
      BY <2>3, <3>1, <3>2 DEF Within
    <3>4. probe' \in Answers
      BY <2>3, <3>1 DEF Answers
    <3> QED
      BY <1>5, <3>3, <3>4, Unmoved DEF ServeProbe, GateInv, Types
  <2> QED
    BY <1>5, <2>1, <2>2, <2>3 DEF ServeProbe
<1>6. CASE MinutePasses \/ CooldownEnds
  BY <1>6, Unmoved DEF MinutePasses, CooldownEnds, GateInv, Types, Within
<1>7. CASE AccountChanges
  BY <1>7, AccountChangesKeeps
<1>8. CASE UNCHANGED vars
  BY <1>8, Unmoved DEF vars, GateInv, Types, Within
<1>9. CASE ProbeExhausted
  BY <1>9, ProbeExhaustedKeeps
<1> QED
  BY <1>1, <1>2, <1>3, <1>4, <1>5, <1>6, <1>7, <1>8, <1>9 DEF Next

\* The inductive invariant holds in every reachable state.
LEMMA GateInvHolds == Spec => []GateInv
BY InitGateInv, NextGateInv, PTL DEF Spec

-----------------------------------------------------------------------------
(* The properties *)

\* The gate lets a search or an item pass only with the reserve in memory.
LEMMA AdmittedIsBacked ==
  ASSUME GateInv, NEW kind, kind # "seller", AdmitsOnMemory(kind) = "admit", ~UnknownForGate
  PROVE  remaining # None /\ remaining >= Effective /\ Effective \in Int
<1>1. remaining # None /\ Effective # None /\ ~BelowReserve
  <2>1. remaining # None /\ ~Shut
    BY DEF AdmitsOnMemory, UnknownForGate
  <2>2. reserve.figure \in Nat /\ reserve.kind \in {"absolute", "percent"}
    BY DEF GateInv, Types
  <2>3. CASE reserve.kind = "absolute"
    BY <2>1, <2>2, <2>3, NoneAssumption DEF Effective, Shut
  <2>4. CASE reserve.kind = "percent"
    <3>1. limit \in Nat
      BY <2>4 DEF UnknownForGate, GateInv, Types
    <3>2. (limit * reserve.figure) \div 100 \in Int
      BY <2>2, <3>1
    <3> QED
      BY <2>1, <2>4, <3>1, <3>2, NoneAssumption DEF Effective, Shut
  <2> QED
    BY <2>2, <2>3, <2>4
<1>2. Effective \in Int
  <2>1. reserve.figure \in Nat
    BY DEF GateInv, Types
  <2>2. CASE reserve.kind = "absolute"
    BY <2>1, <2>2 DEF Effective
  <2>3. CASE reserve.kind # "absolute"
    <3>1. limit \in Nat
      BY <1>1, <2>3 DEF Effective, GateInv, Types
    <3>2. (limit * reserve.figure) \div 100 \in Int
      BY <2>1, <3>1
    <3> QED
      BY <2>3, <3>1, <3>2, NoneAssumption DEF Effective
  <2> QED
    BY <2>2, <2>3
<1>3. remaining \in Nat
  BY <1>1 DEF GateInv, Types
<1> QED
  BY <1>1, <1>2, <1>3 DEF BelowReserve

\* Only what the gate admits is sent for the first time.
LEMMA FirstSent ==
  ASSUME GateInv, [Next]_vars, NEW u \in Unit,
         stage[u] \in {"idle", "probing"}, stage'[u] = "flight"
  PROVE  \E kind \in {KindOf(u), "items"} :
           AssertCredits(kind) = "admit" \/ AfterGateProbe(kind) = "admit"
<1>1. PICK c \in Call : CallStep(c) \/ \E w \in Unit : RequestStep(w)
  <2>1. stage' # stage
    OBVIOUS
  <2>2. CallOf[u] \in Call
    BY CallsAssumption
  <2> QED
    BY <2>1, <2>2 DEF Next, vars, requests, ReadAccount, ProbeExhausted, ProbeSuspended, ProbeFails, ServeProbe,
                      MinutePasses, CooldownEnds, AccountChanges
<1>2. CASE CallStep(c)
  <2>1. CASE Begin(c) \/ CallResumes(c)
    <3>1. PICK v : GateCall(c, v) /\ v \in {AssertCredits(Kind[c]), AfterGateProbe(Kind[c])}
      BY <2>1 DEF Begin, CallResumes
    <3>2. v = "admit" /\ CallOf[u] = c
      BY <3>1 DEF GateCall, GateInv, Types
    <3> QED
      BY <3>1, <3>2 DEF KindOf
  <2>2. CASE Status(c) \/ StatusReturns(c) \/ TimePasses(c)
    BY <2>2 DEF Status, StatusReturns, TimePasses, requests
  <2>3. CASE Return(c) \/ Expire(c)
    BY <2>3 DEF Return, Expire, Dispose, GateInv, Types
  <2> QED
    BY <1>2, <2>1, <2>2, <2>3 DEF CallStep
<1>3. ASSUME NEW w \in Unit, RequestStep(w)
      PROVE \E kind \in {KindOf(u), "items"} :
              AssertCredits(kind) = "admit" \/ AfterGateProbe(kind) = "admit"
  <2>1. CASE TakeSlot(w) \/ SlotResumes(w)
    <3>1. PICK v : GateSlot(w, v) /\ v \in {AssertCredits("items"), AfterGateProbe("items")}
      BY <2>1 DEF TakeSlot, SlotResumes
    <3>2. v = "admit"
      BY <3>1, Verdicts DEF GateSlot, GateInv, Types
    <3> QED
      BY <3>1, <3>2
  <2>2. CASE Attempt(w) \/ Serve(w)
    BY <2>2 DEF Attempt, End, Serve, GateInv, Types
  <2>3. CASE TimesOut(w) \/ ServerError(w)
    BY <2>3 DEF TimesOut, ServerError, End, GateInv, Types
  <2>4. CASE Succeeds(w) \/ Exhausted(w) \/ Suspends(w)
    BY <2>4 DEF Succeeds, Exhausted, Suspends, End, GateInv, Types
  <2> QED
    BY <1>3, <2>1, <2>2, <2>3, <2>4 DEF RequestStep
<1> QED
  BY <1>1, <1>2, <1>3

\* SuspensionRefuses: "every tool, seller lookups included, is refused without
\* contacting the vendor until it expires" (source.ts:97-98). Nothing is sent
\* for the first time while a suspension is remembered.
THEOREM SuspensionRefusesHolds == Spec => SuspensionRefuses
<1>1. ASSUME GateInv, [Next]_vars, NEW u \in Unit,
             stage'[u] = "flight", stage[u] \in {"idle", "probing"}
      PROVE ~suspended
  BY <1>1, FirstSent DEF AssertCredits, AfterGateProbe
<1>2. GateInv /\ [Next]_vars =>
        [\A u \in Unit : stage'[u] = "flight" /\ stage[u] \in {"idle", "probing"} => ~suspended]_vars
  BY <1>1
<1> QED
  BY <1>2, GateInvHolds, PTL DEF Spec, SuspensionRefuses

\* ReserveHeld: the reserve "is meant to stop the next request"
\* (source.ts:1285). Whatever the vendor charges, in whatever order its answers
\* arrive, a search or an item is sent only with the reserve in the account.
THEOREM ReserveHeldHolds == Spec => ReserveHeld
<1>1. ASSUME GateInv, [Next]_vars, NEW u \in Unit,
             stage[u] \in {"idle", "probing"}, stage'[u] = "flight",
             KindOf(u) # "seller", ~UnknownForGate, ~excused
      PROVE Balance + Cardinality(Unseen(lastUsed)) >= Effective
  <2>1. PICK kind \in {KindOf(u), "items"} : AdmitsOnMemory(kind) = "admit"
    BY <1>1, FirstSent DEF AssertCredits, AfterGateProbe
  <2>2. remaining # None /\ remaining >= Effective /\ Effective \in Int
    BY <1>1, <2>1, AdmittedIsBacked
  <2>3. remaining <= Balance + Cardinality(Unseen(lastUsed))
    BY <1>1, <2>2, MemoryBacked
  <2>4. /\ remaining \in Int /\ Balance \in Int
        /\ Cardinality(Unseen(lastUsed)) \in Int
    BY <1>1, <2>2, CallsAssumption, FS_Subset, FS_CardinalityType
    DEF GateInv, Types, Balance, Unseen
  <2> QED
    BY <2>2, <2>3, <2>4
<1>2. GateInv /\ [Next]_vars =>
        [\A u \in Unit :
           /\ stage[u] \in {"idle", "probing"} /\ stage'[u] = "flight"
           /\ KindOf(u) # "seller" /\ ~UnknownForGate /\ ~excused
           => Balance + Cardinality(Unseen(lastUsed)) >= Effective]_vars
  BY <1>1
<1> QED
  BY <1>2, GateInvHolds, PTL DEF Spec, ReserveHeld

\* StatusTellsTheGate: what ebay_api_status says of the gate is what the gate
\* does with the next search, in every state with a probe just made.
THEOREM StatusTellsTheGateHolds == Spec => []StatusTellsTheGate
<1>1. StatusTellsTheGate
  BY DEF StatusTellsTheGate, GateView, AssertCredits, AdmitsOnMemory, Shut, BelowReserve
<1> QED
  BY <1>1, PTL
=============================================================================
