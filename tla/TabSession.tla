----------------------------- MODULE TabSession -----------------------------
(* One browser session of the agent and the tab it drives: the commands of    *)
(* apps/windows-agent/src/executors.ts run one after the other through the    *)
(* session's SerialQueue (packages/browser-core/src/session.ts) while the page *)
(* in Chrome moves as its site and its user please.                            *)
(*                                                                            *)
(* Chrome and the agent talk over one ordered connection.  `page` is what      *)
(* Chrome shows; `tab` is what the agent knows of it; `news` carries           *)
(* navigation events and the answer to the one request under way, in order.    *)
(* An agent step is what runs between two awaits.                             *)
(*                                                                            *)
(* Operators that no action uses are variants with a plausible mistake in      *)
(* them; each stands before the definition it varies.                         *)
EXTENDS Naturals, Sequences, FiniteSets

CONSTANTS
  MaxCalls,   \* bound on the calls made
  MaxQueue,   \* bound on those in the queue at a time
  Kinds,      \* what they may ask for
  PageKinds,  \* the kinds of page the site serves
  MaxMoves    \* bound on what the page does that the agent did not ask for

Actions == {"click", "fill"}
Command == Actions \cup {"visit", "extract", "wait", "snapshot", "handoff"}

ASSUME CallsAssumption == MaxCalls \in Nat /\ MaxQueue \in Nat
ASSUME KindsAssumption == Kinds \subseteq Command
ASSUME PageKindsAssumption == "plain" \in PageKinds /\ PageKinds \subseteq {"plain", "seller", "listing"}
ASSUME MovesAssumption == MaxMoves \in Nat

VARIABLES
  open,     \* the tab is in its session
  page,     \* the document in Chrome
  moves,    \* bounded by MaxMoves
  news,     \* from Chrome to the agent
  tab,      \* TabState
  calls,    \* bounded by MaxCalls
  queue,    \* SerialQueue: the command that runs and those behind it
  run,      \* where the command that runs awaits, and its locals
  refs,     \* element references the caller has been given
  astray,   \* history: references that acted on another document than their own
  wrote,    \* history: the page as the last successful command left it
  waited,   \* history: what the page stated when the last wait succeeded
  answers   \* history: the extractions answered

browserVars == <<open, page, moves>>
histories == <<refs, astray, wrote, waited, answers>>
vars == <<browserVars, news, tab, calls, queue, run, histories>>

-----------------------------------------------------------------------------
(* Chrome: a document and its contents.  `bytes` numbers every version of the *)
(* serialization, `facts` the last one an extractor can tell from its           *)
(* predecessors, `stamps` the revisions whose references are on elements.       *)

Document(k) ==
  [doc |-> page.bytes + 1, kind |-> k, shell |-> k = "seller",
   facts |-> page.bytes + 1, bytes |-> page.bytes + 1, stamps |-> {}]

Documents == {Document(k) : k \in PageKinds}
Blank == Document("plain")
Altered == [page EXCEPT !.shell = FALSE, !.facts = page.bytes + 1, !.bytes = page.bytes + 1]
Redrawn == [page EXCEPT !.bytes = page.bytes + 1]

Url(p) == [doc |-> p.doc, kind |-> p.kind]

\* What a change of page tells the agent, before any answer.
Event(p) == IF p.doc = page.doc THEN <<>> ELSE <<[what |-> "navigated", page |-> p]>>

Idle ==
  [pc |-> "idle", url |-> Url([doc |-> 1, kind |-> "plain"]), before |-> 0, wrote |-> 0, waited |-> 0,
   ref |-> {}, source |-> {}, again |-> FALSE]

Init ==
  /\ open = TRUE
  /\ page = [doc |-> 1, kind |-> "plain", shell |-> FALSE, facts |-> 1, bytes |-> 1, stamps |-> {}]
  /\ moves = 0
  /\ news = <<>>
  /\ tab = [rev |-> 0, dirty |-> FALSE, pin |-> {}, url |-> Url(page)]
  /\ calls = 0 /\ queue = <<>> /\ run = Idle
  /\ refs = {} /\ astray = {}
  /\ wrote = 1 /\ waited = 1
  /\ answers = {}

\* The page moves to p by itself.
Moves(p) ==
  /\ open /\ moves < MaxMoves
  /\ moves' = moves + 1
  /\ page' = p
  /\ news' = news \o Event(p)
  /\ UNCHANGED <<open, tab, calls, queue, run, histories>>

SiteNavigates == \E p \in Documents : Moves(p)
PageChanges == Moves(Altered)
PageRedraws == Moves(Redrawn)

\* The tab is closed, or the browser with every tab in it.
TabCloses ==
  /\ open /\ moves < MaxMoves
  /\ open' = FALSE /\ moves' = moves + 1
  /\ UNCHANGED <<page, news, tab, calls, queue, run, histories>>

\* Chrome does what the agent asked at q, leaving page p, and answers.
Serves(q, what, p) ==
  /\ run.pc = q
  /\ \A i \in DOMAIN news : news[i].what = "navigated"
  /\ open \/ q \in {"titling", "parking"}
  /\ page' = p
  /\ news' = news \o Event(p) \o <<[what |-> what, page |-> p]>>
  /\ UNCHANGED <<open, moves, tab, calls, queue, run, refs, wrote, waited, answers>>

ServesRead == \E q \in {"reading", "rereading"} : Serves(q, "page", page) /\ UNCHANGED astray
ServesGoto ==
  \/ \E p \in Documents : Serves("landing", "landed", p) /\ UNCHANGED astray
  \/ \E p \in {page, Blank} : Serves("landing", "refused", p) /\ UNCHANGED astray
  \/ \E p \in {page} \cup {b \in {Blank} : open} : Serves("parking", "parked", p) /\ UNCHANGED astray
  \/ Serves("titling", "titled", page) /\ UNCHANGED astray

\* A reference is looked up by the attribute a snapshot has put on its element.
ServesAction ==
  \E p \in {page, Altered} \cup Documents :
    /\ \A r \in run.ref : r.rev \in page.stamps
    /\ Serves("acting", "done", p)
    /\ astray' = astray \cup {r \in run.ref : r.doc # page.doc}

ServesSnapshot ==
  Serves("looking", "nodes", [page EXCEPT !.stamps = @ \cup {run.before}]) /\ UNCHANGED astray

ServesWait ==
  \/ \E q \in {"waiting", "pausing"} : Serves(q, "met", page) /\ UNCHANGED astray
  \/ ~page.shell /\ Serves("hydrating", "met", page) /\ UNCHANGED astray
  \/ Serves("hydrating", "missing", page) /\ UNCHANGED astray

\* The destination control of a listing page: as wanted already, or set.
ServesDestination ==
  \/ Serves("setting", "kept", page) /\ UNCHANGED astray
  \/ \E p \in {Altered, Document(page.kind)} : Serves("setting", "set", p) /\ UNCHANGED astray

\* Anything may fail, a click or a form after it has taken effect; on a tab
\* that is gone everything does.  Reading the title and parking may not.
Fails ==
  /\ run.pc \notin {"idle", "titling", "parking"}
  /\ \A i \in DOMAIN news : news[i].what = "navigated"
  /\ \E p \in {page} \cup (IF open /\ run.pc \in {"acting", "setting"} THEN {Altered} ELSE {}) :
       /\ page' = p
       /\ news' = news \o <<[what |-> "error", page |-> p]>>
  /\ UNCHANGED <<open, moves, tab, calls, queue, run, histories>>

Chrome ==
  \/ SiteNavigates \/ PageChanges \/ PageRedraws \/ TabCloses
  \/ ServesRead \/ ServesGoto \/ ServesAction \/ ServesSnapshot \/ ServesWait \/ ServesDestination
  \/ Fails

-----------------------------------------------------------------------------
(* The agent: what a command does with the tab *)

\* The framenavigated listener.
Navigated(t, p) == [t EXCEPT !.rev = @ + 1, !.dirty = FALSE, !.pin = {}, !.url = Url(p)]

\* resolveDirtyRevision
Resolved(t) == IF t.dirty THEN [t EXCEPT !.rev = @ + 1, !.dirty = FALSE, !.pin = {}] ELSE t

Pin(t, p) == [rev |-> t.rev, bytes |-> p.bytes, facts |-> p.facts, shell |-> p.shell]

Pinned(t, p) == [t EXCEPT !.pin = {Pin(t, p)}]

\* The command that runs is over.
Leave ==
  /\ run' = Idle
  /\ queue' = Tail(queue)

\* q is the source: a capture, and the revision it was pinned under.  The answer
\* names the revision of the moment it is given.
Answer(r, t, q) ==
  /\ answers' = answers \cup {[rev |-> t.rev, of |-> q.rev, doc |-> r.url.doc, bytes |-> q.bytes,
                               written |-> q.bytes >= r.wrote, awaited |-> q.facts >= r.waited]}
  /\ Leave

\* executeExtract once it has a source: a seller page that reads empty on a
\* fresh capture is waited for, a listing has its destination set first, and
\* either is then resolved again.
Parse(r, t, q, pinned) ==
  CASE r.url.kind = "seller" /\ q.shell /\ ~pinned /\ ~r.again ->
         run' = [r EXCEPT !.pc = "hydrating", !.source = {q}] /\ UNCHANGED <<queue, answers>>
    [] r.url.kind = "listing" /\ ~r.again ->
         run' = [r EXCEPT !.pc = "setting"] /\ UNCHANGED <<queue, answers>>
    [] OTHER -> Answer(r, t, q)

\* resolveExtractionSource: the pin of this revision, or the page's content.
Source(r, t0) ==
  LET t == Resolved(t0)
      pin == {q \in t.pin : q.rev = t.rev}
  IN /\ tab' = t
     /\ IF pin # {} THEN \E q \in pin : Parse(r, t, q, TRUE)
        ELSE run' = [r EXCEPT !.pc = "reading"] /\ UNCHANGED <<queue, answers>>

\* The URL is read before the page's content is.
Extract(r) == Source([r EXCEPT !.url = tab.url, !.wrote = wrote, !.waited = waited], tab)

-----------------------------------------------------------------------------
(* Calls take their turn in the queue *)

Enqueue(k) ==
  /\ calls < MaxCalls /\ Len(queue) < MaxQueue
  /\ calls' = calls + 1
  /\ queue' = Append(queue, [command |-> k, expired |-> FALSE])
  /\ UNCHANGED <<browserVars, news, tab, run, histories>>

\* A command that has begun no longer minds.
Expires(i) ==
  /\ ~queue[i].expired
  /\ i = 1 => run = Idle
  /\ queue' = [queue EXCEPT ![i].expired = TRUE]
  /\ UNCHANGED <<browserVars, news, tab, calls, run, histories>>

-----------------------------------------------------------------------------
(* The front of the queue *)

\* The command at the front that has not begun yet.
Front == IF run = Idle /\ queue # <<>> THEN {Head(queue)} ELSE {}

Starts(commands) == open /\ \E c \in Front : ~c.expired /\ c.command \in commands

rest == <<browserVars, news, calls>>

\* REQUEST_EXPIRED or TAB_NOT_FOUND
Refuse ==
  /\ \E c \in Front : c.expired \/ ~open
  /\ Leave
  /\ UNCHANGED <<rest, tab, histories>>

\* navigate, open_and_extract
StartVisit ==
  /\ Starts({"visit"})
  /\ run' = [Idle EXCEPT !.pc = "landing"]
  /\ UNCHANGED <<rest, tab, queue, histories>>

StartExtract ==
  /\ Starts({"extract"})
  /\ Extract(Idle)
  /\ UNCHANGED <<rest, refs, astray, wrote, waited>>

RefAsGiven(r) == TRUE

\* resolveRef
RefIsCurrent(r) == r.rev = tab.rev

StartAction ==
  /\ Starts(Actions)
  /\ \E r \in refs :
       IF RefIsCurrent(r)
         THEN run' = [Idle EXCEPT !.pc = "acting", !.ref = {r}, !.before = tab.rev, !.url = tab.url] /\ UNCHANGED queue
         ELSE Leave
  /\ UNCHANGED <<rest, tab, histories>>

\* A key, or a consent banner dismissed, leaves the tab like a fill.
StartBlindAction ==
  /\ Starts({"fill"})
  /\ run' = [Idle EXCEPT !.pc = "acting"]
  /\ UNCHANGED <<rest, tab, queue, histories>>

StartSnapshot ==
  /\ Starts({"snapshot"})
  /\ tab' = Resolved(tab)
  /\ run' = [Idle EXCEPT !.pc = "looking", !.before = Resolved(tab).rev]
  /\ UNCHANGED <<rest, queue, histories>>

StartWait ==
  /\ Starts({"wait", "handoff"})
  /\ run' = [Idle EXCEPT !.pc = IF Head(queue).command = "wait" THEN "waiting" ELSE "pausing"]
  /\ UNCHANGED <<rest, tab, queue, histories>>

-----------------------------------------------------------------------------
(* What Chrome tells *)

Hears(what) == news # <<>> /\ Head(news).what = what /\ news' = Tail(news)
p0 == Head(news).page
unheard == <<browserVars, calls>>

HearNavigated ==
  /\ Hears("navigated")
  /\ tab' = IF open THEN Navigated(tab, p0) ELSE tab
  /\ UNCHANGED <<unheard, queue, run, histories>>

\* An option that did not apply, or a banner dismissed for a click that then
\* failed, has marked the tab.
HearError ==
  /\ Hears("error")
  /\ Leave
  /\ \/ UNCHANGED tab
     \/ run.pc = "acting" /\ tab' = [tab EXCEPT !.dirty = TRUE]
  /\ UNCHANGED <<unheard, histories>>

HearLanded ==
  /\ Hears("landed")
  /\ run' = [run EXCEPT !.pc = "titling"]
  /\ wrote' = p0.bytes
  /\ UNCHANGED <<unheard, tab, queue, refs, astray, waited, answers>>

\* A refused landing parks the tab, and is tried once more.
HearRefused ==
  /\ Hears("refused")
  /\ run' = [run EXCEPT !.pc = "parking"]
  /\ UNCHANGED <<unheard, tab, queue, histories>>

HearParked ==
  /\ Hears("parked")
  /\ IF run.again THEN Leave
     ELSE run' = [run EXCEPT !.pc = "landing", !.again = TRUE] /\ UNCHANGED queue
  /\ UNCHANGED <<unheard, tab, histories>>

\* navigate ends here; open_and_extract goes on with the tab it still has.
HearTitled ==
  /\ Hears("titled")
  /\ \/ open /\ Extract(Idle)
     \/ Leave /\ UNCHANGED <<tab, answers>>
  /\ UNCHANGED <<unheard, refs, astray, wrote, waited>>

\* page.content() is pinned under the revision of the moment it arrives.
HearPage ==
  /\ Hears("page") /\ run.pc = "reading"
  /\ tab' = Pinned(tab, p0)
  /\ Parse(run, tab, Pin(tab, p0), FALSE)
  /\ UNCHANGED <<unheard, refs, astray, wrote, waited>>

HearHydrated ==
  /\ run.pc = "hydrating"
  /\ \/ Hears("met") /\ Source([run EXCEPT !.again = TRUE], [tab EXCEPT !.pin = {}])
     \/ Hears("missing") /\ UNCHANGED tab /\ \E q \in run.source : Answer(run, tab, q)
  /\ UNCHANGED <<unheard, refs, astray, wrote, waited>>

Reset(t) == [t EXCEPT !.rev = @ + 1, !.dirty = FALSE, !.pin = {}]

HearDestination ==
  /\ \/ Hears("kept") /\ Source([run EXCEPT !.again = TRUE], tab) /\ UNCHANGED wrote
     \/ /\ Hears("set")
        /\ wrote' = p0.bytes
        /\ Source([run EXCEPT !.again = TRUE, !.wrote = p0.bytes], Reset(tab))
  /\ UNCHANGED <<unheard, refs, astray, waited>>

\* A click that moved the tab to another document has told so itself.
Mutated ==
  IF Head(queue).command = "click" /\ (tab.rev # run.before \/ tab.url # run.url) THEN tab
  ELSE [tab EXCEPT !.dirty = TRUE]

HearDone ==
  /\ Hears("done")
  /\ tab' = Mutated
  /\ wrote' = p0.bytes
  /\ Leave
  /\ UNCHANGED <<unheard, refs, astray, waited, answers>>

HearNodes ==
  /\ Hears("nodes")
  /\ refs' = refs \cup {[rev |-> run.before, doc |-> p0.doc]}
  /\ Leave
  /\ UNCHANGED <<unheard, tab, astray, wrote, waited, answers>>

PausedQuietly(t) == t

\* Whatever the user did, references and pins from before are stale.
Paused(t) == [t EXCEPT !.rev = @ + 1, !.dirty = FALSE]

HearResumed ==
  /\ Hears("met") /\ run.pc = "pausing"
  /\ tab' = Paused(tab)
  /\ wrote' = p0.bytes
  /\ Leave
  /\ UNCHANGED <<unheard, refs, astray, waited, answers>>

\* refreshExtractionPinAfterWait compares the pin of this revision, if any.
HearSatisfied ==
  /\ Hears("met") /\ run.pc = "waiting"
  /\ LET pin == {q \in tab.pin : q.rev = tab.rev}
     IN IF pin = {} \/ ~open THEN Leave /\ waited' = (IF open THEN p0.facts ELSE waited)
        ELSE /\ run' = [run EXCEPT !.pc = "rereading", !.source = pin]
             /\ UNCHANGED <<queue, waited>>
  /\ UNCHANGED <<unheard, tab, refs, astray, wrote, answers>>

RefreshedInPlace(t, p) == Pinned(t, p)
NotRefreshed(t, p) == t

Refreshed(t, p) == Pinned([t EXCEPT !.rev = @ + 1, !.dirty = FALSE], p)

HearReread ==
  /\ Hears("page") /\ run.pc = "rereading"
  /\ \E q \in run.source : tab' = IF p0.facts = q.facts THEN tab ELSE Refreshed(tab, p0)
  /\ waited' = p0.facts
  /\ Leave
  /\ UNCHANGED <<unheard, refs, astray, wrote, answers>>

Start ==
  \/ Refuse \/ StartVisit \/ StartExtract \/ StartAction \/ StartBlindAction \/ StartSnapshot \/ StartWait

Hear ==
  \/ HearNavigated \/ HearError \/ HearLanded \/ HearRefused \/ HearParked \/ HearTitled \/ HearPage
  \/ HearHydrated \/ HearDestination \/ HearDone \/ HearNodes \/ HearResumed \/ HearSatisfied \/ HearReread

Next ==
  \/ Chrome \/ Start \/ Hear
  \/ \E k \in Kinds : Enqueue(k)
  \/ \E i \in DOMAIN queue : Expires(i)

Spec == Init /\ [][Next]_vars

-----------------------------------------------------------------------------
(* Properties *)

\* Two extractions answered with the same revision were read from the same
\* serialization (executors.ts resolveExtractionSource: one capture per
\* revision, however the page redraws itself), although navigations, captures
\* and the drift check of a wait run past each other.  Left out are answers that
\* name a revision their source is not of; the run tab_identical shows one.
SameRevisionSameBytes ==
  \A a, b \in answers : a.rev = b.rev /\ a.of = a.rev /\ b.of = b.rev => a.bytes = b.bytes

\* An extraction shows the page no older than the last command before it that
\* succeeded in changing it left it: no pin from before an action, a navigation,
\* a hand-off or a destination change is served after it.
ReadsAfterWrites == \A a \in answers : a.written

\* A satisfied wait is where the page may move on: an extraction after it states
\* what the page stated then, or something later (refreshExtractionPinAfterWait).
ReadsAfterWaits == \A a \in answers : a.awaited

\* An element reference only ever acts on the document it was collected from,
\* although a snapshot may stamp its references on a document that the agent
\* has not been told of yet (snapshot.ts, actions.ts resolveRef).
ActsOnWhatWasSeen == astray = {}

\* "every later extract at the same revision parses the SAME string, so
\* identical calls return identical payloads" (executors.ts:208-210): two
\* extractions with the same revision also name the same page.  The code does
\* not keep this: the URL is read before the content is.
IdenticalCalls ==
  \A a, b \in answers : a.rev = b.rev => a.bytes = b.bytes /\ a.doc = b.doc

=============================================================================
