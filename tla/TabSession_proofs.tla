-------------------------- MODULE TabSession_proofs --------------------------
(* The promises of TabSession hold whatever the calls, the pages and the       *)
(* moves of the site: extractions of a revision read one capture, none is older *)
(* than the last write or satisfied wait before it, and a reference acts on      *)
(* the document it was collected from.                                         *)
EXTENDS TabSession, SequenceTheorems, TLAPS

-----------------------------------------------------------------------------
(* The values of the state *)

Pcs == {"idle", "landing", "parking", "titling", "reading", "hydrating", "setting", "acting",
        "looking", "waiting", "pausing", "rereading"}

UrlRec == [doc : Nat, kind : PageKinds]
Version == [doc : Nat, kind : PageKinds, shell : BOOLEAN, facts : Nat, bytes : Nat, stamps : SUBSET Nat]
PinRec == [rev : Nat, bytes : Nat, facts : Nat, shell : BOOLEAN]
TabRec == [rev : Nat, dirty : BOOLEAN, pin : SUBSET PinRec, url : UrlRec]
RefRec == [rev : Nat, doc : Nat]
RunRec == [pc : Pcs, url : UrlRec, before : Nat, wrote : Nat, waited : Nat,
           ref : SUBSET RefRec, source : SUBSET PinRec, again : BOOLEAN]
CallRec == [command : Command, expired : BOOLEAN]
AnswerRec == [rev : Nat, of : Nat, doc : Nat, bytes : Nat, written : BOOLEAN, awaited : BOOLEAN]

\* What the command that awaits at a place may be answered.
Replies ==
  {<<"reading", "page">>, <<"rereading", "page">>, <<"landing", "landed">>, <<"landing", "refused">>,
   <<"parking", "parked">>, <<"titling", "titled">>, <<"acting", "done">>, <<"looking", "nodes">>,
   <<"waiting", "met">>, <<"pausing", "met">>, <<"hydrating", "met">>, <<"hydrating", "missing">>,
   <<"setting", "kept">>, <<"setting", "set">>}
  \cup {<<pc, "error">> : pc \in Pcs \ {"idle", "parking", "titling"}}
Told == {"navigated", "page", "landed", "refused", "parked", "titled", "done", "nodes", "met", "missing",
         "kept", "set", "error"}
Message == [what : Told, page : Version]

TabTypes ==
  /\ open \in BOOLEAN /\ page \in Version
  /\ news \in Seq(Message)
  /\ tab \in TabRec /\ run \in RunRec
  /\ queue \in Seq(CallRec)
  /\ refs \in SUBSET RefRec /\ astray \in SUBSET RefRec
  /\ wrote \in Nat /\ waited \in Nat
  /\ answers \in SUBSET AnswerRec

-----------------------------------------------------------------------------
(* The inductive invariant *)

\* A version of the page is no older than what the commands wrote and waited for.
Since(p, w, f) == p.bytes >= w /\ p.facts >= f

IsAnswer(m) == m.what # "navigated"

\* At most one answer is under way, that the command awaits, and it shows the page
\* as it was after the last write and before now.
NewsOK ==
  /\ \A j, k \in DOMAIN news : IsAnswer(news[j]) /\ IsAnswer(news[k]) => j = k
  /\ \A k \in DOMAIN news : IsAnswer(news[k]) =>
       /\ <<run.pc, news[k].what>> \in Replies
       /\ Since(news[k].page, wrote, waited)
       /\ Since(page, news[k].page.bytes, news[k].page.facts)
  /\ Since(page, wrote, waited) /\ page.doc <= page.bytes /\ page.facts <= page.bytes

\* The documents the messages show follow one another from the one the tab is known to
\* show to the one it shows.
ChainOK ==
  open =>
    /\ \A k \in DOMAIN news : IsAnswer(news[k]) =>
         news[k].page.doc = IF k = 1 THEN tab.url.doc ELSE news[k - 1].page.doc
    /\ page.doc = IF news = <<>> THEN tab.url.doc ELSE news[Len(news)].page.doc

\* One pin at most, never of a revision to come; that of this revision shows what was
\* last written and waited for, unless the tab is marked dirty.
OnePin(t) == \A p, q \in t.pin : p = q /\ p.rev <= t.rev
FreshPin(t, w, f) == \A q \in t.pin : q.rev = t.rev /\ ~t.dirty => Since(q, w, f)

Extracting(pc) == pc \in {"reading", "hydrating", "setting"}

PinsOK ==
  /\ OnePin(tab)
  /\ open \/ Extracting(run.pc) => FreshPin(tab, wrote, waited)

\* A landing is told of after the navigation, which has dropped the pin; a click
\* that finds the tab moved finds it without a pin.
Unpinned(t, before, url) == t.pin = {} \/ (t.rev = before /\ t.url = url)
MovedOK ==
  /\ open => \A k \in DOMAIN news : news[k].what = "landed" =>
               tab.pin = {} \/ \E j \in DOMAIN news : j < k /\ news[j].what = "navigated"
  /\ run.pc = "acting" /\ Head(queue).command = "click" => Unpinned(tab, run.before, run.url)

\* The locals of the command that runs.
RunOK ==
  /\ run.pc # "idle" => queue # <<>>
  /\ Extracting(run.pc) => run.wrote <= wrote /\ run.waited <= waited
  /\ run.pc = "hydrating" => \A q \in run.source :
       Since(q, run.wrote, run.waited) /\ q.rev <= tab.rev /\ (q.rev = tab.rev => q \in tab.pin)
  /\ run.pc = "rereading" => /\ \A p, q \in run.source : p = q
                             /\ \A q \in tab.pin : q.rev = tab.rev => q \in run.source

\* An answer that names its own revision: while this is the tab's, its capture is
\* pinned, and no other capture is being made of it.
OfItsRevision(a) == a.of = a.rev
Captured(t, a) == \E q \in t.pin : q.rev = t.rev /\ q.bytes = a.bytes
AnswersOK ==
  /\ \A a \in answers : a.written /\ a.awaited /\ a.rev <= tab.rev
  /\ \A a \in answers : OfItsRevision(a) /\ a.rev = tab.rev =>
       Captured(tab, a) /\ run.pc \notin {"reading", "hydrating"}
  /\ SameRevisionSameBytes

\* References and stamps are of revisions the tab has had.  A reference of this
\* revision is of the document the tab is known to show, and so is its stamp, once
\* the snapshot has told so.
RefsOK ==
  /\ \A s \in page.stamps : s <= tab.rev
  /\ \A r \in refs : r.rev <= tab.rev
  /\ run.before <= tab.rev
  /\ open => \A r \in refs : r.rev = tab.rev => r.doc = tab.url.doc
  /\ open /\ tab.rev \in page.stamps /\ (\A k \in DOMAIN news : news[k].what # "nodes") => page.doc = tab.url.doc
  /\ \A k \in DOMAIN news : news[k].what = "nodes" => news[k].page.doc = page.doc \/ page.stamps = {}
  /\ run.pc = "acting" => \A r \in run.ref : r.rev \in page.stamps => r.doc = page.doc
  /\ astray = {}

TabInv == TabTypes /\ NewsOK /\ ChainOK /\ PinsOK /\ MovedOK /\ RunOK /\ AnswersOK /\ RefsOK
-----------------------------------------------------------------------------
(* The messages under way *)

\* What the types say of the page, of a message, of the tab and of a command.
LEMMA VersionFields ==
  ASSUME NEW v \in Version
  PROVE  v.doc \in Nat /\ v.kind \in PageKinds /\ v.shell \in BOOLEAN /\ v.facts \in Nat /\ v.bytes \in Nat /\ v.stamps \in SUBSET Nat
  BY DEF Version

LEMMA PinFields ==
  ASSUME NEW q \in PinRec
  PROVE  q.rev \in Nat /\ q.bytes \in Nat /\ q.facts \in Nat /\ q.shell \in BOOLEAN
  BY DEF PinRec

LEMMA TabFields ==
  ASSUME NEW t \in TabRec
  PROVE  t.rev \in Nat /\ t.dirty \in BOOLEAN /\ t.pin \in SUBSET PinRec /\ t.url \in UrlRec /\ t.url.doc \in Nat
  BY DEF TabRec, UrlRec

LEMMA RunFields ==
  ASSUME NEW r \in RunRec
  PROVE  /\ r.pc \in Pcs /\ r.url \in UrlRec /\ r.before \in Nat /\ r.wrote \in Nat /\ r.waited \in Nat
         /\ r.ref \in SUBSET RefRec /\ r.source \in SUBSET PinRec /\ r.again \in BOOLEAN /\ r.url.doc \in Nat
  BY DEF RunRec, UrlRec

LEMMA MessageAt ==
  ASSUME TabTypes, NEW k \in DOMAIN news
  PROVE  /\ news[k] \in Message /\ news[k].what \in Told /\ news[k].page \in Version
         /\ k \in 1 .. Len(news) /\ Len(news) \in Nat /\ k \in Nat
<1>1. news \in Seq(Message)
  BY DEF TabTypes
<1>2. news[k] \in Message /\ k \in 1 .. Len(news) /\ Len(news) \in Nat
  BY <1>1
<1> QED
  BY <1>2 DEF Message

\* What is sent is a navigation, if the page is another document, and an answer, if any.
Sent(p, reply) == Event(p) \o (IF reply = "none" THEN <<>> ELSE <<[what |-> reply, page |-> p]>>)

LEMMA NewsGrow ==
  ASSUME TabTypes, NEW p \in Version, NEW reply \in (Told \ {"navigated"}) \cup {"none"}, news' = news \o Sent(p, reply)
  PROVE  /\ news' \in Seq(Message) /\ Len(news) \in Nat /\ Len(news') \in Nat /\ Len(news') >= Len(news)
         /\ \A k \in 1 .. Len(news) : news'[k] = news[k]
         /\ \A k \in Len(news) + 1 .. Len(news') :
              news'[k].page = p /\ (news'[k].what = "navigated" \/ (k = Len(news') /\ news'[k].what = reply /\ reply # "none"))
         /\ p.doc # page.doc => Len(news') > Len(news) /\ news'[Len(news) + 1].what = "navigated"
         /\ p.doc = page.doc => Len(news') <= Len(news) + 1
         /\ p.doc # page.doc => Len(news') <= Len(news) + 2
         /\ reply # "none" => Len(news') > Len(news) /\ news'[Len(news')].what = reply
<1> DEFINE nav == [what |-> "navigated", page |-> p]
           msg == [what |-> reply, page |-> p]
<1>1. news \in Seq(Message) /\ Len(news) \in Nat
  BY DEF TabTypes
<1>2. nav \in Message /\ nav.what = "navigated" /\ nav.page = p
  BY DEF Message, Told
<1>3. reply # "none" => msg \in Message /\ msg.what = reply /\ msg.page = p
  BY DEF Message
<1>4. Event(p) = IF p.doc = page.doc THEN <<>> ELSE <<nav>>
  BY DEF Event
<1>5. Sent(p, reply) = Event(p) \o (IF reply = "none" THEN <<>> ELSE <<msg>>)
  BY DEF Sent
<1> HIDE DEF nav, msg
<1>6. CASE p.doc = page.doc /\ reply = "none"
  <2>1. <<>> \o <<>> = <<>> /\ news \o <<>> = news
    BY <1>1
  <2>2. news' = news
    BY <1>4, <1>5, <1>6, <2>1
  <2>3. Len(news') = Len(news) /\ \A k \in Len(news) + 1 .. Len(news') : FALSE
    BY <1>1, <2>2
  <2>4. news' \in Seq(Message) /\ Len(news') \in Nat /\ Len(news') >= Len(news)
    BY <1>1, <2>2
  <2>5. \A k \in 1 .. Len(news) : news'[k] = news[k]
    BY <2>2
  <2>6. Len(news') <= Len(news) + 1
    BY <1>1, <2>2
  <2> QED
    BY <1>1, <1>6, <2>3, <2>4, <2>5, <2>6
<1>7. CASE p.doc # page.doc /\ reply = "none"
  <2>1. <<nav>> \o <<>> = <<nav>>
    BY <1>2
  <2>2. news' = news \o <<nav>>
    BY <1>4, <1>5, <1>7, <2>1
  <2>3. news' = Append(news, nav)
    BY <1>1, <1>2, <2>2, AppendIsConcat
  <2>4. /\ news' \in Seq(Message) /\ Len(news') = Len(news) + 1
        /\ (\A k \in 1 .. Len(news) : news'[k] = news[k]) /\ news'[Len(news) + 1] = nav
    BY <1>1, <1>2, <2>3, AppendProperties
  <2>5. \A k \in Len(news) + 1 .. Len(news') : k = Len(news) + 1
    BY <1>1, <2>4
  <2> QED
    BY <1>1, <1>2, <1>7, <2>4, <2>5
<1>8. CASE p.doc = page.doc /\ reply # "none"
  <2>1. <<>> \o <<msg>> = <<msg>>
    BY <1>3, <1>8
  <2>2. news' = news \o <<msg>>
    BY <1>4, <1>5, <1>8, <2>1
  <2>3. news' = Append(news, msg)
    BY <1>1, <1>3, <1>8, <2>2, AppendIsConcat
  <2>4. /\ news' \in Seq(Message) /\ Len(news') = Len(news) + 1
        /\ (\A k \in 1 .. Len(news) : news'[k] = news[k]) /\ news'[Len(news) + 1] = msg
    BY <1>1, <1>3, <1>8, <2>3, AppendProperties
  <2>5. \A k \in Len(news) + 1 .. Len(news') : k = Len(news) + 1
    BY <1>1, <2>4
  <2> QED
    BY <1>1, <1>3, <1>8, <2>4, <2>5
<1>9. CASE p.doc # page.doc /\ reply # "none"
  <2> DEFINE mid == Append(news, nav)
  <2>1. <<nav>> \in Seq(Message) /\ <<msg>> \in Seq(Message)
    BY <1>2, <1>3, <1>9
  <2>2. news' = news \o (<<nav>> \o <<msg>>)
    BY <1>4, <1>5, <1>9
  <2>3. news' = (news \o <<nav>>) \o <<msg>>
    BY <1>1, <2>1, <2>2, ConcatAssociative
  <2>4. mid = news \o <<nav>> /\ mid \in Seq(Message) /\ Len(mid) = Len(news) + 1
        /\ (\A k \in 1 .. Len(news) : mid[k] = news[k]) /\ mid[Len(news) + 1] = nav
    BY <1>1, <1>2, AppendIsConcat, AppendProperties
  <2> HIDE DEF mid
  <2>5. news' = Append(mid, msg)
    BY <1>3, <1>9, <2>3, <2>4, AppendIsConcat
  <2>6. news' \in Seq(Message) /\ Len(news') = Len(mid) + 1
        /\ (\A k \in 1 .. Len(mid) : news'[k] = mid[k]) /\ news'[Len(mid) + 1] = msg
    BY <1>3, <1>9, <2>4, <2>5, AppendProperties
  <2>7. \A k \in 1 .. Len(news) : news'[k] = news[k]
    BY <1>1, <2>4, <2>6
  <2>8. Len(news') = Len(news) + 2 /\ news'[Len(news) + 1] = nav /\ news'[Len(news) + 2] = msg
    <3>1. Len(news) + 1 \in 1 .. Len(mid)
      BY <1>1, <2>4
    <3> QED
      BY <1>1, <2>4, <2>6, <3>1
  <2>9. \A k \in Len(news) + 1 .. Len(news') : k = Len(news) + 1 \/ k = Len(news) + 2
    BY <1>1, <2>8
  <2> QED
    BY <1>1, <1>2, <1>3, <1>9, <2>6, <2>7, <2>8, <2>9
<1> QED
  BY <1>6, <1>7, <1>8, <1>9

\* The commands that await an answer of a kind.
LEMMA RepliesTo ==
  ASSUME NEW pc, NEW what, <<pc, what>> \in Replies
  PROVE  /\ pc \in Pcs /\ pc # "idle" /\ what \in Told /\ what # "navigated"
         /\ what = "page" => pc \in {"reading", "rereading"}
         /\ what \in {"landed", "refused"} => pc = "landing"
         /\ what = "parked" => pc = "parking"
         /\ what = "titled" => pc = "titling"
         /\ what = "done" => pc = "acting"
         /\ what = "nodes" => pc = "looking"
         /\ what = "met" => pc \in {"waiting", "pausing", "hydrating"}
         /\ what = "missing" => pc = "hydrating"
         /\ what \in {"kept", "set"} => pc = "setting"
<1>1. CASE <<pc, what>> \in {<<p, "error">> : p \in Pcs \ {"idle", "parking", "titling"}}
  BY <1>1 DEF Pcs, Told
<1>2. CASE <<pc, what>> \notin {<<p, "error">> : p \in Pcs \ {"idle", "parking", "titling"}}
  BY <1>2 DEF Replies, Pcs, Told
<1> QED
  BY <1>1, <1>2
-----------------------------------------------------------------------------
(* Chrome *)

\* Whatever moves in Chrome: the page becomes p, a version no older, with the stamps it
\* had, none if it is another document, or also those of the snapshot that is answered;
\* the agent is sent word of it and has heard nothing yet.
LEMMA ChromeKeeps ==
  ASSUME TabInv, NEW p \in Version, NEW reply \in (Told \ {"navigated"}) \cup {"none"},
         page' = p, news' = news \o Sent(p, reply), open' \in BOOLEAN, open' => open,
         tab' = tab, queue' = queue, run' = run, refs' = refs, wrote' = wrote, waited' = waited,
         answers' = answers, astray' = {},
         Since(p, page.bytes, page.facts), p.doc <= p.bytes, p.facts <= p.bytes,
         \/ p.doc = page.doc /\ p.stamps = page.stamps
         \/ p.doc # page.doc /\ p.stamps = {}
         \/ p.doc = page.doc /\ reply = "nodes" /\ p.stamps = page.stamps \cup {run.before},
         reply # "none" => (\A k \in DOMAIN news : ~IsAnswer(news[k])) /\ <<run.pc, reply>> \in Replies,
         reply = "landed" => p.doc # page.doc
  PROVE  TabInv'
<1> DEFINE N == Len(news)
<1>1. TabTypes /\ NewsOK /\ ChainOK /\ PinsOK /\ MovedOK /\ RunOK /\ AnswersOK /\ RefsOK
  BY DEF TabInv
<1>2. /\ news' \in Seq(Message) /\ N \in Nat /\ Len(news') \in Nat /\ Len(news') >= N
      /\ \A k \in 1 .. N : news'[k] = news[k]
      /\ \A k \in N + 1 .. Len(news') :
           news'[k].page = p /\ (news'[k].what = "navigated" \/ (k = Len(news') /\ news'[k].what = reply /\ reply # "none"))
      /\ p.doc # page.doc => Len(news') > N /\ news'[N + 1].what = "navigated"
      /\ p.doc = page.doc => Len(news') <= N + 1
      /\ p.doc # page.doc => Len(news') <= N + 2
      /\ reply # "none" => Len(news') > N /\ news'[Len(news')].what = reply
  BY <1>1, NewsGrow
<1>3. DOMAIN news = 1 .. N /\ DOMAIN news' = 1 .. Len(news') /\ news \in Seq(Message)
  BY <1>1, <1>2 DEF TabTypes
<1> HIDE DEF N
<1>4. \A k \in DOMAIN news' : k \in DOMAIN news \/ (k \in N + 1 .. Len(news') /\ k \notin DOMAIN news)
  BY <1>2, <1>3
<1>5. \A k \in DOMAIN news : k \in DOMAIN news' /\ news'[k] = news[k]
  BY <1>2, <1>3
<1>6. page \in Version /\ page.bytes \in Nat /\ page.facts \in Nat /\ p.bytes \in Nat /\ p.facts \in Nat
      /\ wrote \in Nat /\ waited \in Nat /\ tab \in TabRec /\ tab.rev \in Nat /\ run.before \in Nat
      /\ \A k \in DOMAIN news : news[k].page.bytes \in Nat /\ news[k].page.facts \in Nat
  BY <1>1, VersionFields, TabFields, RunFields, MessageAt DEF TabTypes
<1>7. TabTypes'
  BY <1>1, <1>2 DEF TabTypes
<1>8. Since(p, wrote, waited)
  BY <1>1, <1>6 DEF NewsOK, Since
<1>9. NewsOK'
  <2>1. ASSUME NEW j \in DOMAIN news', NEW k \in DOMAIN news', IsAnswer(news'[j]), IsAnswer(news'[k]) PROVE j = k
    <3>1. CASE j \in DOMAIN news /\ k \in DOMAIN news
      BY <1>1, <1>5, <2>1, <3>1 DEF NewsOK
    <3>2. CASE j \notin DOMAIN news /\ k \notin DOMAIN news
      BY <1>2, <1>4, <2>1, <3>2 DEF IsAnswer
    <3>3. CASE j \notin DOMAIN news /\ k \in DOMAIN news
      <4>1. reply # "none"
        BY <1>2, <1>4, <2>1, <3>3 DEF IsAnswer
      <4> QED
        BY <1>5, <2>1, <3>3, <4>1
    <3>4. CASE j \in DOMAIN news /\ k \notin DOMAIN news
      <4>1. reply # "none"
        BY <1>2, <1>4, <2>1, <3>4 DEF IsAnswer
      <4> QED
        BY <1>5, <2>1, <3>4, <4>1
    <3> QED
      BY <3>1, <3>2, <3>3, <3>4
  <2>2. ASSUME NEW k \in DOMAIN news', IsAnswer(news'[k])
        PROVE  /\ <<run.pc, news'[k].what>> \in Replies
               /\ Since(news'[k].page, wrote, waited)
               /\ Since(p, news'[k].page.bytes, news'[k].page.facts)
    <3>1. CASE k \in DOMAIN news
      <4>1. /\ <<run.pc, news[k].what>> \in Replies
            /\ Since(news[k].page, wrote, waited)
            /\ Since(page, news[k].page.bytes, news[k].page.facts)
        BY <1>1, <1>5, <2>2, <3>1 DEF NewsOK
      <4>2. Since(p, news[k].page.bytes, news[k].page.facts)
        <5>1. news[k].page.bytes \in Nat /\ news[k].page.facts \in Nat
          BY <1>6, <3>1
        <5>2. /\ news[k].page.bytes <= page.bytes /\ page.bytes <= p.bytes
              /\ news[k].page.facts <= page.facts /\ page.facts <= p.facts
          BY <1>6, <4>1, <5>1 DEF Since
        <5> QED
          BY <1>6, <5>1, <5>2 DEF Since
      <4> QED
        BY <1>5, <3>1, <4>1, <4>2
    <3>2. CASE k \notin DOMAIN news
      <4>1. news'[k].page = p /\ news'[k].what = reply /\ reply # "none"
        BY <1>2, <1>4, <2>2, <3>2 DEF IsAnswer
      <4> QED
        BY <1>6, <1>8, <4>1 DEF Since
    <3> QED
      BY <3>1, <3>2
  <2> QED
    BY <1>8, <2>1, <2>2 DEF NewsOK
<1>10. ChainOK'
  <2> SUFFICES ASSUME open'
               PROVE  /\ \A k \in DOMAIN news' : IsAnswer(news'[k]) =>
                           news'[k].page.doc = IF k = 1 THEN tab.url.doc ELSE news'[k - 1].page.doc
                      /\ p.doc = IF news' = <<>> THEN tab.url.doc ELSE news'[Len(news')].page.doc
    BY DEF ChainOK
  <2>1. /\ \A k \in DOMAIN news : IsAnswer(news[k]) =>
             news[k].page.doc = IF k = 1 THEN tab.url.doc ELSE news[k - 1].page.doc
        /\ page.doc = IF news = <<>> THEN tab.url.doc ELSE news[N].page.doc
    BY <1>1 DEF ChainOK, N
  <2>2. news = <<>> <=> N = 0
    BY <1>3 DEF N
  <2>3. news' = <<>> <=> Len(news') = 0
    BY <1>2
  <2>4. ASSUME NEW k \in DOMAIN news', IsAnswer(news'[k])
        PROVE  news'[k].page.doc = IF k = 1 THEN tab.url.doc ELSE news'[k - 1].page.doc
    <3>1. CASE k \in DOMAIN news
      <4>1. k = 1 \/ k - 1 \in DOMAIN news
        BY <1>2, <1>3, <3>1
      <4> QED
        BY <1>5, <2>1, <2>4, <3>1, <4>1
    <3>2. CASE k \notin DOMAIN news
      <4>1. news'[k].page = p /\ k = Len(news') /\ news'[k].what # "navigated" /\ k \in N + 1 .. Len(news')
        BY <1>2, <1>4, <2>4, <3>2 DEF IsAnswer
      <4>2. CASE p.doc = page.doc
        <5>1. k = N + 1
          BY <1>2, <4>1, <4>2
        <5>2. N = 0 \/ (N \in DOMAIN news /\ k # 1 /\ k - 1 = N)
          BY <1>2, <1>3, <5>1
        <5> QED
          BY <1>2, <1>5, <2>1, <2>2, <4>1, <4>2, <5>1, <5>2
      <4>3. CASE p.doc # page.doc
        <5>1. k # N + 1
          BY <1>2, <4>1, <4>3
        <5>2. k = N + 2 /\ k - 1 = N + 1 /\ k # 1 /\ N + 1 \in N + 1 .. Len(news')
          BY <1>2, <4>1, <4>3, <5>1
        <5> QED
          BY <1>2, <4>1, <5>2
      <4> QED
        BY <4>2, <4>3
    <3> QED
      BY <3>1, <3>2
  <2>5. p.doc = IF news' = <<>> THEN tab.url.doc ELSE news'[Len(news')].page.doc
    <3>1. CASE Len(news') = N
      <4>1. p.doc = page.doc
        BY <1>2, <3>1
      <4>2. N = 0 \/ N \in DOMAIN news
        BY <1>2, <1>3
      <4> QED
        BY <1>5, <2>1, <2>2, <2>3, <3>1, <4>1, <4>2
    <3>2. CASE Len(news') # N
      <4>1. Len(news') \in N + 1 .. Len(news') /\ Len(news') # 0
        BY <1>2, <3>2
      <4> QED
        BY <1>2, <2>3, <4>1
    <3> QED
      BY <3>1, <3>2
  <2> QED
    BY <2>4, <2>5
<1>11. PinsOK'
  BY <1>1 DEF PinsOK
<1>12. MovedOK'
  <2>1. ASSUME open', NEW k \in DOMAIN news', news'[k].what = "landed"
        PROVE  tab.pin = {} \/ \E j \in DOMAIN news' : j < k /\ news'[j].what = "navigated"
    <3>1. CASE k \in DOMAIN news
      <4>1. tab.pin = {} \/ \E j \in DOMAIN news : j < k /\ news[j].what = "navigated"
        BY <1>1, <1>5, <2>1, <3>1 DEF MovedOK
      <4> QED
        BY <1>5, <4>1
    <3>2. CASE k \notin DOMAIN news
      <4>1. k = Len(news') /\ reply = "landed" /\ k \in N + 1 .. Len(news')
        BY <1>2, <1>4, <2>1, <3>2
      <4>2. news'[N + 1].what = "navigated" /\ Len(news') > N
        BY <1>2, <4>1
      <4>3. k # N + 1
        BY <2>1, <4>2
      <4>4. N + 1 \in DOMAIN news' /\ N + 1 < k
        BY <1>2, <1>3, <4>1, <4>2, <4>3
      <4> QED
        BY <4>2, <4>4
    <3> QED
      BY <3>1, <3>2
  <2>2. run.pc = "acting" /\ Head(queue).command = "click" => Unpinned(tab, run.before, run.url)
    BY <1>1 DEF MovedOK
  <2> QED
    BY <2>1, <2>2 DEF MovedOK
<1>13. RunOK'
  BY <1>1 DEF RunOK
<1>14. AnswersOK'
  BY <1>1 DEF AnswersOK, SameRevisionSameBytes
<1>15. RefsOK'
  <2>1. /\ \A s \in page.stamps : s <= tab.rev
        /\ \A r \in refs : r.rev <= tab.rev
        /\ run.before <= tab.rev
        /\ open => \A r \in refs : r.rev = tab.rev => r.doc = tab.url.doc
        /\ open /\ tab.rev \in page.stamps /\ (\A k \in DOMAIN news : news[k].what # "nodes") => page.doc = tab.url.doc
        /\ \A k \in DOMAIN news : news[k].what = "nodes" => news[k].page.doc = page.doc \/ page.stamps = {}
        /\ run.pc = "acting" => \A r \in run.ref : r.rev \in page.stamps => r.doc = page.doc
    BY <1>1 DEF RefsOK
  <2>2. \A s \in p.stamps : s <= tab.rev
    BY <2>1
  <2>3. reply = "nodes" => run.pc = "looking" /\ \E k \in DOMAIN news' : news'[k].what = "nodes"
    <3>1. ASSUME reply = "nodes" PROVE \E k \in DOMAIN news' : news'[k].what = "nodes"
      <4>1. Len(news') \in DOMAIN news' /\ news'[Len(news')].what = "nodes"
        BY <1>2, <1>3, <3>1
      <4> QED
        BY <4>1
    <3> QED
      BY <3>1, RepliesTo
  <2>4. open' /\ tab.rev \in p.stamps /\ (\A k \in DOMAIN news' : news'[k].what # "nodes") => p.doc = tab.url.doc
    <3> SUFFICES ASSUME open', tab.rev \in p.stamps, \A k \in DOMAIN news' : news'[k].what # "nodes" PROVE p.doc = tab.url.doc
      OBVIOUS
    <3>1. reply # "nodes"
      BY <2>3
    <3>2. p.doc = page.doc /\ p.stamps = page.stamps
      BY <3>1
    <3> QED
      BY <1>5, <2>1, <3>2
  <2>5. ASSUME NEW k \in DOMAIN news', news'[k].what = "nodes"
        PROVE  news'[k].page.doc = p.doc \/ p.stamps = {}
    <3>1. CASE k \in DOMAIN news
      <4>1. news[k].page.doc = page.doc \/ page.stamps = {}
        BY <1>5, <2>1, <2>5, <3>1
      <4>2. reply = "none"
        BY <1>5, <2>5, <3>1 DEF IsAnswer
      <4> QED
        BY <1>5, <3>1, <4>1, <4>2
    <3>2. CASE k \notin DOMAIN news
      BY <1>2, <1>4, <3>2
    <3> QED
      BY <3>1, <3>2
  <2>6. run.pc = "acting" => \A r \in run.ref : r.rev \in p.stamps => r.doc = p.doc
    BY <2>1, <2>3
  <2> QED
    BY <2>1, <2>2, <2>4, <2>5, <2>6 DEF RefsOK
<1> QED
  BY <1>7, <1>9, <1>10, <1>11, <1>12, <1>13, <1>14, <1>15 DEF TabInv
\* The versions a page may become: a new document, or the same with something changed.
LEMMA Versions ==
  ASSUME TabInv
  PROVE  /\ \A k \in PageKinds : LET p == Document(k) IN
              /\ p \in Version /\ p.doc # page.doc /\ p.stamps = {}
              /\ Since(p, page.bytes, page.facts) /\ p.doc <= p.bytes /\ p.facts <= p.bytes
         /\ \A p \in {page, Altered, Redrawn} :
              /\ p \in Version /\ p.doc = page.doc /\ p.stamps = page.stamps
              /\ Since(p, page.bytes, page.facts) /\ p.doc <= p.bytes /\ p.facts <= p.bytes
         /\ "plain" \in PageKinds
<1>1. page \in Version /\ page.doc <= page.bytes /\ page.facts <= page.bytes
  BY DEF TabInv, TabTypes, NewsOK
<1>2. page.doc \in Nat /\ page.facts \in Nat /\ page.bytes \in Nat
  BY <1>1, VersionFields
<1>3. ASSUME NEW k \in PageKinds
      PROVE  LET p == Document(k) IN
              /\ p \in Version /\ p.doc # page.doc /\ p.stamps = {}
              /\ Since(p, page.bytes, page.facts) /\ p.doc <= p.bytes /\ p.facts <= p.bytes
  <2>1. Document(k) \in Version
    BY <1>2 DEF Document, Version
  <2>2. Document(k).doc = page.bytes + 1 /\ Document(k).bytes = page.bytes + 1 /\ Document(k).facts = page.bytes + 1
        /\ Document(k).stamps = {}
    BY DEF Document
  <2> QED
    BY <1>1, <1>2, <2>1, <2>2 DEF Since
<1>4. Since(page, page.bytes, page.facts)
  BY <1>2 DEF Since
<1>5. /\ Altered \in Version /\ Altered.doc = page.doc /\ Altered.stamps = page.stamps
      /\ Since(Altered, page.bytes, page.facts) /\ Altered.doc <= Altered.bytes /\ Altered.facts <= Altered.bytes
  <2>1. /\ Altered.doc = page.doc /\ Altered.stamps = page.stamps /\ Altered.kind = page.kind /\ Altered.shell = FALSE
        /\ Altered.bytes = page.bytes + 1 /\ Altered.facts = page.bytes + 1
    BY <1>1 DEF Altered, Version
  <2>2. ASSUME NEW b \in BOOLEAN, NEW n \in Nat
        PROVE  [page EXCEPT !.shell = b, !.facts = n, !.bytes = n] \in Version
    BY <1>1 DEF Version
  <2>3. Altered \in Version
    <3>1. FALSE \in BOOLEAN /\ page.bytes + 1 \in Nat
      BY <1>2
    <3>2. [page EXCEPT !.shell = FALSE, !.facts = page.bytes + 1, !.bytes = page.bytes + 1] \in Version
      BY <2>2, <3>1, Zenon
    <3> QED
      BY <3>2, Zenon DEF Altered
  <2> QED
    BY <1>1, <1>2, <2>1, <2>3 DEF Since
<1>6. /\ Redrawn \in Version /\ Redrawn.doc = page.doc /\ Redrawn.stamps = page.stamps
      /\ Since(Redrawn, page.bytes, page.facts) /\ Redrawn.doc <= Redrawn.bytes /\ Redrawn.facts <= Redrawn.bytes
  <2>1. Redrawn \in Version /\ Redrawn.doc = page.doc /\ Redrawn.stamps = page.stamps
        /\ Redrawn.bytes = page.bytes + 1 /\ Redrawn.facts = page.facts
    BY <1>1, <1>2 DEF Redrawn, Version
  <2> QED
    BY <1>1, <1>2, <2>1 DEF Since
<1>7. "plain" \in PageKinds
  BY PageKindsAssumption
<1> QED
  BY <1>1, <1>3, <1>4, <1>5, <1>6, <1>7

\* What a change of the page and an answer add to the news.
LEMMA SentIs ==
  ASSUME TabTypes, NEW p \in Version
  PROVE  /\ news \o Event(p) = news \o Sent(p, "none")
         /\ \A what \in Told \ {"navigated"} : news \o Event(p) \o <<[what |-> what, page |-> p]>> = news \o Sent(p, what)
         /\ p.doc = page.doc => \A what \in Told \ {"navigated"} :
              news \o <<[what |-> what, page |-> p]>> = news \o Sent(p, what)
         /\ news = news \o Sent(page, "none")
<1> DEFINE nav == [what |-> "navigated", page |-> p]
<1>1. news \in Seq(Message) /\ page \in Version
  BY DEF TabTypes
<1>2. nav \in Message
  BY DEF Message, Told
<1>3. Event(p) = (IF p.doc = page.doc THEN <<>> ELSE <<nav>>) /\ Event(page) = <<>>
  BY DEF Event
<1> HIDE DEF nav
<1>4. Event(p) \in Seq(Message)
  BY <1>2, <1>3
<1>5. Event(p) \o <<>> = Event(p) /\ Event(page) \o <<>> = <<>> /\ news \o <<>> = news
  BY <1>1, <1>3, <1>4, ConcatEmptySeq
<1>6. "none" \notin Told
  BY DEF Told
<1>7. ASSUME NEW what \in Told \ {"navigated"}
      PROVE  /\ news \o Event(p) \o <<[what |-> what, page |-> p]>> = news \o Sent(p, what)
             /\ p.doc = page.doc => news \o <<[what |-> what, page |-> p]>> = news \o Sent(p, what)
  <2> DEFINE msg == [what |-> what, page |-> p]
  <2>1. msg \in Message /\ what # "none"
    BY <1>6 DEF Message
  <2>2. Sent(p, what) = Event(p) \o <<msg>>
    BY <2>1 DEF Sent
  <2> HIDE DEF msg
  <2>3. <<msg>> \in Seq(Message)
    BY <2>1
  <2>4. (news \o Event(p)) \o <<msg>> = news \o (Event(p) \o <<msg>>)
    BY <1>1, <1>4, <2>3, ConcatAssociative
  <2>5. p.doc = page.doc => Event(p) \o <<msg>> = <<msg>>
    BY <1>3, <2>3, ConcatEmptySeq
  <2> QED
    BY <2>2, <2>4, <2>5 DEF msg
<1>8. Sent(p, "none") = Event(p) \o <<>> /\ Sent(page, "none") = Event(page) \o <<>>
  BY DEF Sent
<1> QED
  BY <1>5, <1>7, <1>8

\* The page moves by itself.
LEMMA MovesKeeps ==
  ASSUME TabInv, NEW p \in Version, Moves(p), Since(p, page.bytes, page.facts), p.doc <= p.bytes, p.facts <= p.bytes,
         \/ p.doc = page.doc /\ p.stamps = page.stamps
         \/ p.doc # page.doc /\ p.stamps = {}
  PROVE  TabInv'
<1>1. /\ page' = p /\ news' = news \o Event(p) /\ open' = open
      /\ tab' = tab /\ queue' = queue /\ run' = run /\ refs' = refs /\ wrote' = wrote /\ waited' = waited
      /\ answers' = answers /\ astray' = astray
  BY DEF Moves, histories
<1>2. TabTypes /\ astray = {} /\ open \in BOOLEAN
  BY DEF TabInv, RefsOK, TabTypes
<1>3. news' = news \o Sent(p, "none")
  BY <1>1, <1>2, SentIs
<1> QED
  BY <1>1, <1>2, <1>3, ChromeKeeps

\* Chrome answers.
LEMMA ServesKeeps ==
  ASSUME TabInv, NEW q, NEW what, NEW p \in Version, Serves(q, what, p), <<q, what>> \in Replies, astray' = {},
         Since(p, page.bytes, page.facts), p.doc <= p.bytes, p.facts <= p.bytes,
         \/ p.doc = page.doc /\ p.stamps = page.stamps
         \/ p.doc # page.doc /\ p.stamps = {}
         \/ p.doc = page.doc /\ what = "nodes" /\ p.stamps = page.stamps \cup {run.before},
         what = "landed" => p.doc # page.doc
  PROVE  TabInv'
<1>1. /\ page' = p /\ news' = news \o Event(p) \o <<[what |-> what, page |-> p]>> /\ open' = open /\ run.pc = q
      /\ tab' = tab /\ queue' = queue /\ run' = run /\ refs' = refs /\ wrote' = wrote /\ waited' = waited
      /\ answers' = answers /\ \A i \in DOMAIN news : news[i].what = "navigated"
  BY DEF Serves
<1>2. TabTypes /\ open \in BOOLEAN
  BY DEF TabInv, TabTypes
<1>3. what \in Told \ {"navigated"}
  BY RepliesTo
<1>4. news' = news \o Sent(p, what)
  BY <1>1, <1>2, <1>3, SentIs
<1>5. \A k \in DOMAIN news : ~IsAnswer(news[k])
  BY <1>1 DEF IsAnswer
<1>6. <<run.pc, what>> \in Replies
  BY <1>1
<1> QED
  BY <1>1, <1>2, <1>3, <1>4, <1>5, <1>6, ChromeKeeps

LEMMA ChromeStep == ASSUME TabInv, Chrome PROVE TabInv'
<1>1. TabTypes /\ astray = {} /\ page \in Version /\ RefsOK /\ run \in RunRec
  BY DEF TabInv, RefsOK, TabTypes
<1>2. /\ \A k \in PageKinds : LET p == Document(k) IN
              /\ p \in Version /\ p.doc # page.doc /\ p.stamps = {}
              /\ Since(p, page.bytes, page.facts) /\ p.doc <= p.bytes /\ p.facts <= p.bytes
      /\ \A p \in {page, Altered, Redrawn} :
              /\ p \in Version /\ p.doc = page.doc /\ p.stamps = page.stamps
              /\ Since(p, page.bytes, page.facts) /\ p.doc <= p.bytes /\ p.facts <= p.bytes
      /\ "plain" \in PageKinds
  BY Versions
<1>3. /\ \A p \in Documents :
              /\ p \in Version /\ p.doc # page.doc /\ p.stamps = {}
              /\ Since(p, page.bytes, page.facts) /\ p.doc <= p.bytes /\ p.facts <= p.bytes
      /\ Blank \in Documents
  BY <1>2 DEF Documents, Blank
<1>4. CASE SiteNavigates
  BY <1>3, <1>4, MovesKeeps DEF SiteNavigates
<1>5. CASE PageChanges
  BY <1>2, <1>5, MovesKeeps DEF PageChanges
<1>6. CASE PageRedraws
  BY <1>2, <1>6, MovesKeeps DEF PageRedraws
<1>7. CASE TabCloses
  <2>1. /\ open' = FALSE /\ page' = page /\ news' = news
        /\ tab' = tab /\ queue' = queue /\ run' = run /\ refs' = refs /\ wrote' = wrote /\ waited' = waited
        /\ answers' = answers /\ astray' = astray
    BY <1>7 DEF TabCloses, histories
  <2>2. news' = news \o Sent(page, "none")
    BY <1>1, <2>1, SentIs
  <2> QED
    BY <1>1, <1>2, <2>1, <2>2, ChromeKeeps
<1>8. CASE ServesRead
  <2>1. PICK q \in {"reading", "rereading"} : Serves(q, "page", page)
    BY <1>8 DEF ServesRead
  <2>2. astray' = {} /\ <<q, "page">> \in Replies
    BY <1>1, <1>8 DEF ServesRead, Replies
  <2> QED
    BY <1>2, <2>1, <2>2, ServesKeeps
<1>9. CASE ServesGoto
  <2>1. astray' = {}
    BY <1>1, <1>9 DEF ServesGoto
  <2>2. /\ <<"landing", "landed">> \in Replies /\ <<"landing", "refused">> \in Replies
        /\ <<"parking", "parked">> \in Replies /\ <<"titling", "titled">> \in Replies
    BY DEF Replies
  <2>3. CASE \E p \in Documents : Serves("landing", "landed", p)
    BY <1>3, <2>1, <2>2, <2>3, ServesKeeps
  <2>4. CASE \E p \in {page, Blank} : Serves("landing", "refused", p)
    BY <1>2, <1>3, <2>1, <2>2, <2>4, ServesKeeps
  <2>5. CASE \E p \in {page} \cup {b \in {Blank} : open} : Serves("parking", "parked", p)
    BY <1>2, <1>3, <2>1, <2>2, <2>5, ServesKeeps
  <2>6. CASE Serves("titling", "titled", page)
    BY <1>2, <2>1, <2>2, <2>6, ServesKeeps
  <2> QED
    BY <1>9, <2>3, <2>4, <2>5, <2>6 DEF ServesGoto
<1>10. CASE ServesAction
  <2>1. PICK p \in {page, Altered} \cup Documents :
          /\ \A r \in run.ref : r.rev \in page.stamps
          /\ Serves("acting", "done", p)
          /\ astray' = astray \cup {r \in run.ref : r.doc # page.doc}
    BY <1>10 DEF ServesAction
  <2>2. run.pc = "acting"
    BY <2>1 DEF Serves
  <2>3. \A r \in run.ref : r.doc = page.doc
    BY <1>1, <2>1, <2>2 DEF RefsOK
  <2>4. astray' = {} /\ <<"acting", "done">> \in Replies
    BY <1>1, <2>1, <2>3 DEF Replies
  <2> QED
    BY <1>2, <1>3, <2>1, <2>4, ServesKeeps
<1>11. CASE ServesSnapshot
  <2> DEFINE p == [page EXCEPT !.stamps = @ \cup {run.before}]
  <2>1. run.before \in Nat
    BY <1>1, RunFields
  <2>2. p \in Version /\ p.doc = page.doc /\ p.stamps = page.stamps \cup {run.before} /\ p.bytes = page.bytes /\ p.facts = page.facts
    BY <1>1, <2>1 DEF Version
  <2>3. Serves("looking", "nodes", p) /\ astray' = {} /\ <<"looking", "nodes">> \in Replies
    BY <1>1, <1>11 DEF ServesSnapshot, Replies
  <2> HIDE DEF p
  <2>4. Since(p, page.bytes, page.facts) /\ p.doc <= p.bytes /\ p.facts <= p.bytes
    BY <1>2, <2>2 DEF Since
  <2> QED
    BY <2>2, <2>3, <2>4, ServesKeeps
<1>12. CASE ServesWait
  <2>1. astray' = {} /\ <<"waiting", "met">> \in Replies /\ <<"pausing", "met">> \in Replies
        /\ <<"hydrating", "met">> \in Replies /\ <<"hydrating", "missing">> \in Replies
    BY <1>1, <1>12 DEF ServesWait, Replies
  <2>2. \E q \in {"waiting", "pausing", "hydrating"} : Serves(q, "met", page) \/ Serves("hydrating", "missing", page)
    BY <1>12 DEF ServesWait
  <2> QED
    BY <1>2, <2>1, <2>2, ServesKeeps
<1>13. CASE ServesDestination
  <2>1. astray' = {} /\ <<"setting", "kept">> \in Replies /\ <<"setting", "set">> \in Replies
    BY <1>1, <1>13 DEF ServesDestination, Replies
  <2>2. CASE Serves("setting", "kept", page)
    BY <1>2, <2>1, <2>2, ServesKeeps
  <2>3. CASE \E p \in {Altered, Document(page.kind)} : Serves("setting", "set", p)
    <3>1. page.kind \in PageKinds
      BY <1>1, VersionFields
    <3>2. PICK p \in {Altered, Document(page.kind)} : Serves("setting", "set", p)
      BY <2>3
    <3>3. CASE p = Altered
      BY <1>2, <2>1, <3>2, <3>3, ServesKeeps
    <3>4. CASE p = Document(page.kind)
      BY <1>2, <2>1, <3>1, <3>2, <3>4, ServesKeeps
    <3> QED
      BY <3>2, <3>3, <3>4
  <2> QED
    BY <1>13, <2>2, <2>3 DEF ServesDestination
<1>14. CASE Fails
  <2>1. PICK p \in {page, Altered} : page' = p /\ news' = news \o <<[what |-> "error", page |-> p]>>
    BY <1>14 DEF Fails
  <2>2. /\ run.pc \notin {"idle", "titling", "parking"} /\ \A k \in DOMAIN news : ~IsAnswer(news[k])
        /\ open' = open /\ tab' = tab /\ queue' = queue /\ run' = run /\ refs' = refs /\ wrote' = wrote /\ waited' = waited
        /\ answers' = answers /\ astray' = astray
    BY <1>14 DEF Fails, IsAnswer, histories
  <2>3. p \in Version /\ p.doc = page.doc /\ "error" \in Told \ {"navigated"} /\ open \in BOOLEAN
    BY <1>1, <1>2 DEF Told, TabTypes
  <2>4. news' = news \o Sent(p, "error")
    BY <1>1, <2>1, <2>3, SentIs
  <2>5. <<run.pc, "error">> \in Replies
    BY <1>1, <2>2, RunFields DEF Replies
  <2> QED
    BY <1>1, <1>2, <2>1, <2>2, <2>3, <2>4, <2>5, ChromeKeeps
<1> QED
  BY <1>4, <1>5, <1>6, <1>7, <1>8, <1>9, <1>10, <1>11, <1>12, <1>13, <1>14 DEF Chrome
-----------------------------------------------------------------------------
(* What the agent makes of the tab and of the command that runs *)

LEMMA TabUpdates ==
  ASSUME NEW t \in TabRec
  PROVE  /\ t.rev + 1 \in Nat
         /\ \A r \in Nat : \A b \in BOOLEAN : \A s \in SUBSET PinRec :
              /\ \A u \in UrlRec : [t EXCEPT !.rev = r, !.dirty = b, !.pin = s, !.url = u] \in TabRec
              /\ [t EXCEPT !.rev = r, !.dirty = b, !.pin = s] \in TabRec
         /\ \A r \in Nat : \A b \in BOOLEAN : [t EXCEPT !.rev = r, !.dirty = b] \in TabRec
         /\ \A s \in SUBSET PinRec : [t EXCEPT !.pin = s] \in TabRec
         /\ \A b \in BOOLEAN : [t EXCEPT !.dirty = b] \in TabRec
         /\ FALSE \in BOOLEAN /\ TRUE \in BOOLEAN /\ {} \in SUBSET PinRec
<1>1. t.rev \in Nat /\ t.rev + 1 \in Nat
  BY TabFields
<1>2. ASSUME NEW r \in Nat, NEW b \in BOOLEAN, NEW s \in SUBSET PinRec
      PROVE  /\ \A u \in UrlRec : [t EXCEPT !.rev = r, !.dirty = b, !.pin = s, !.url = u] \in TabRec
             /\ [t EXCEPT !.rev = r, !.dirty = b, !.pin = s] \in TabRec
  BY DEF TabRec
<1>3. ASSUME NEW r \in Nat, NEW b \in BOOLEAN PROVE [t EXCEPT !.rev = r, !.dirty = b] \in TabRec
  BY DEF TabRec
<1>4. ASSUME NEW s \in SUBSET PinRec PROVE [t EXCEPT !.pin = s] \in TabRec
  BY DEF TabRec
<1>5. ASSUME NEW b \in BOOLEAN PROVE [t EXCEPT !.dirty = b] \in TabRec
  BY DEF TabRec
<1> QED
  BY <1>1, <1>2, <1>3, <1>4, <1>5

LEMMA ResolvedIs ==
  ASSUME NEW t \in TabRec
  PROVE  /\ Resolved(t) \in TabRec /\ Resolved(t).url = t.url
         /\ \/ t.dirty = FALSE /\ Resolved(t) = t
            \/ t.dirty = TRUE /\ Resolved(t).rev = t.rev + 1 /\ Resolved(t).pin = {}
<1>1. CASE t.dirty = TRUE
  <2>1. Resolved(t) = [t EXCEPT !.rev = t.rev + 1, !.dirty = FALSE, !.pin = {}]
    BY <1>1 DEF Resolved
  <2>2. Resolved(t) \in TabRec
    <3>1. [t EXCEPT !.rev = t.rev + 1, !.dirty = FALSE, !.pin = {}] \in TabRec
      BY TabUpdates, Zenon
    <3> QED
      BY <2>1, <3>1
  <2>3. Resolved(t).url = t.url /\ Resolved(t).rev = t.rev + 1 /\ Resolved(t).pin = {}
    BY <2>1 DEF TabRec
  <2> QED
    BY <1>1, <2>2, <2>3
<1>2. CASE t.dirty = FALSE
  BY <1>2 DEF Resolved
<1> QED
  BY TabFields, <1>1, <1>2

LEMMA PinnedIs ==
  ASSUME NEW t \in TabRec, NEW n \in Nat, t.rev = n, NEW p \in Version
  PROVE  /\ Pin(t, p) \in PinRec /\ Pin(t, p).rev = n /\ Pin(t, p).bytes = p.bytes /\ Pin(t, p).facts = p.facts
         /\ Pinned(t, p) \in TabRec /\ Pinned(t, p).rev = n /\ Pinned(t, p).pin = {Pin(t, p)} /\ Pinned(t, p).url = t.url
<1>1. Pin(t, p) \in PinRec /\ Pin(t, p).rev = n /\ Pin(t, p).bytes = p.bytes /\ Pin(t, p).facts = p.facts
  BY VersionFields DEF Pin, PinRec
<1> DEFINE q == Pin(t, p)
<1> HIDE DEF q
<1>2. Pinned(t, p) = [t EXCEPT !.pin = {q}]
  BY DEF Pinned, q
<1>3. q \in PinRec
  BY <1>1 DEF q
<1>4. Pinned(t, p) \in TabRec /\ Pinned(t, p).rev = n /\ Pinned(t, p).pin = {q} /\ Pinned(t, p).url = t.url
  BY <1>2, <1>3 DEF TabRec
<1> QED
  BY <1>1, <1>4 DEF q

LEMMA UrlIs ==
  ASSUME NEW p \in Version
  PROVE  Url(p) \in UrlRec /\ Url(p).doc = p.doc
  BY VersionFields DEF Url, UrlRec

LEMMA NavigatedIs ==
  ASSUME NEW t \in TabRec, NEW p \in Version
  PROVE  /\ Navigated(t, p) \in TabRec /\ Navigated(t, p).rev = t.rev + 1 /\ Navigated(t, p).pin = {}
         /\ Navigated(t, p).url.doc = p.doc
<1>1. Navigated(t, p) = [t EXCEPT !.rev = t.rev + 1, !.dirty = FALSE, !.pin = {}, !.url = Url(p)]
  BY DEF Navigated
<1>2. Navigated(t, p) \in TabRec
  <2>1. PICK u \in UrlRec : u = Url(p)
    BY UrlIs
  <2>2. [t EXCEPT !.rev = t.rev + 1, !.dirty = FALSE, !.pin = {}, !.url = u] \in TabRec
    BY TabUpdates, Zenon
  <2> QED
    BY <1>1, <2>1, <2>2
<1>3. Navigated(t, p).url = Url(p) /\ Navigated(t, p).rev = t.rev + 1 /\ Navigated(t, p).pin = {}
  BY <1>1 DEF TabRec
<1> QED
  BY UrlIs, <1>2, <1>3

LEMMA ResetIs ==
  ASSUME NEW t \in TabRec
  PROVE  Reset(t) \in TabRec /\ Reset(t).rev = t.rev + 1 /\ Reset(t).pin = {} /\ Reset(t).url = t.url
<1>1. Reset(t) = [t EXCEPT !.rev = t.rev + 1, !.dirty = FALSE, !.pin = {}]
  BY DEF Reset
<1>2. Reset(t) \in TabRec
  <2>1. [t EXCEPT !.rev = t.rev + 1, !.dirty = FALSE, !.pin = {}] \in TabRec
    BY TabUpdates, Zenon
  <2> QED
    BY <1>1, <2>1
<1>3. Reset(t).url = t.url /\ Reset(t).rev = t.rev + 1 /\ Reset(t).pin = {}
  BY <1>1 DEF TabRec
<1> QED
  BY <1>2, <1>3

LEMMA PausedIs ==
  ASSUME NEW t \in TabRec
  PROVE  /\ Paused(t) = [t EXCEPT !.rev = t.rev + 1, !.dirty = FALSE]
         /\ Paused(t) \in TabRec /\ Paused(t).rev = t.rev + 1 /\ Paused(t).pin = t.pin /\ Paused(t).url = t.url
<1>1. Paused(t) = [t EXCEPT !.rev = t.rev + 1, !.dirty = FALSE]
  BY DEF Paused
<1>2. Paused(t) \in TabRec
  BY TabUpdates, <1>1, Zenon
<1>3. Paused(t).url = t.url /\ Paused(t).rev = t.rev + 1 /\ Paused(t).pin = t.pin
  BY <1>1 DEF TabRec
<1> QED
  BY <1>1, <1>2, <1>3

LEMMA RefreshedIs ==
  ASSUME NEW t \in TabRec, NEW p \in Version
  PROVE  /\ Refreshed(t, p) \in TabRec /\ Refreshed(t, p).rev = t.rev + 1 /\ Refreshed(t, p).url = t.url
         /\ \E q \in PinRec : q.rev = t.rev + 1 /\ q.bytes = p.bytes /\ q.facts = p.facts /\ Refreshed(t, p).pin = {q}
<1>1. Refreshed(t, p) = Pinned(Paused(t), p)
  BY PausedIs DEF Refreshed
<1>2. PICK u \in TabRec : u = Paused(t)
  BY PausedIs
<1>3. PICK n \in Nat : n = t.rev + 1
  BY TabUpdates
<1>4. u.rev = n
  BY PausedIs, <1>2, <1>3
<1>5. PICK q \in PinRec : q = Pin(u, p)
  BY PinnedIs, <1>4
<1>6. q.rev = n /\ q.bytes = p.bytes /\ q.facts = p.facts /\ Pinned(u, p).pin = {q}
  BY PinnedIs, <1>4, <1>5
<1>7. Pinned(u, p) \in TabRec /\ Pinned(u, p).rev = n /\ Pinned(u, p).url = u.url
  BY PinnedIs, <1>4
<1>8. Refreshed(t, p) = Pinned(u, p) /\ u.url = t.url
  BY PausedIs, <1>1, <1>2
<1> QED
  BY <1>3, <1>6, <1>7, <1>8

LEMMA UnpinnedIs ==
  ASSUME NEW t \in TabRec
  PROVE  /\ [t EXCEPT !.pin = {}] \in TabRec /\ [t EXCEPT !.pin = {}].rev = t.rev /\ [t EXCEPT !.pin = {}].pin = {}
         /\ [t EXCEPT !.pin = {}].url = t.url
<1>1. [t EXCEPT !.pin = {}] \in TabRec
  BY TabUpdates, Zenon
<1> QED
  BY <1>1 DEF TabRec

LEMMA MarkedIs ==
  ASSUME NEW t \in TabRec
  PROVE  /\ [t EXCEPT !.dirty = TRUE] \in TabRec /\ [t EXCEPT !.dirty = TRUE].rev = t.rev
         /\ [t EXCEPT !.dirty = TRUE].dirty = TRUE /\ [t EXCEPT !.dirty = TRUE].pin = t.pin
         /\ [t EXCEPT !.dirty = TRUE].url = t.url
<1>1. [t EXCEPT !.dirty = TRUE] \in TabRec
  BY TabUpdates, Zenon
<1> QED
  BY <1>1 DEF TabRec

LEMMA IdleIs ==
  /\ Idle \in RunRec /\ Idle.pc = "idle" /\ Idle.before = 0 /\ Idle.wrote = 0 /\ Idle.waited = 0
  /\ Idle.ref = {} /\ Idle.source = {}
<1>1. "plain" \in PageKinds
  BY PageKindsAssumption
<1>2. Url([doc |-> 1, kind |-> "plain"]) \in UrlRec
  BY <1>1 DEF Url, UrlRec
<1> DEFINE u == Url([doc |-> 1, kind |-> "plain"])
<1> HIDE DEF u
<1>3. Idle = [pc |-> "idle", url |-> u, before |-> 0, wrote |-> 0, waited |-> 0, ref |-> {}, source |-> {}, again |-> FALSE]
  BY DEF Idle, u
<1>4. "idle" \in Pcs /\ u \in UrlRec /\ 0 \in Nat /\ {} \in SUBSET RefRec /\ {} \in SUBSET PinRec /\ FALSE \in BOOLEAN
  BY <1>2 DEF Pcs, u
<1>5. Idle \in RunRec
  BY <1>3, <1>4, Zenon DEF RunRec
<1> QED
  BY <1>3, <1>5
-----------------------------------------------------------------------------
(* What is left to be heard *)

LEMMA TailOfNews ==
  ASSUME TabTypes, news # <<>>
  PROVE  /\ Head(news) = news[1] /\ 1 \in DOMAIN news /\ p0 \in Version /\ Head(news).what \in Told
         /\ Tail(news) \in Seq(Message) /\ Len(news) \in Nat \ {0} /\ Len(Tail(news)) = Len(news) - 1
         /\ \A k \in DOMAIN Tail(news) : k \in Nat /\ k + 1 \in DOMAIN news /\ k + 1 # 1 /\ Tail(news)[k] = news[k + 1]
<1>1. news \in Seq(Message)
  BY DEF TabTypes
<1>2. Head(news) = news[1] /\ Head(news) \in Message
  BY <1>1
<1>3. Tail(news) \in Seq(Message) /\ Len(Tail(news)) = Len(news) - 1
  BY <1>1, HeadTailProperties
<1>4. Len(news) \in Nat \ {0} /\ DOMAIN news = 1 .. Len(news)
  BY <1>1, EmptySeq, LenProperties
<1>5. DOMAIN Tail(news) = 1 .. Len(news) - 1
  BY <1>3, LenProperties
<1>6. \A k \in 1 .. Len(news) - 1 : Tail(news)[k] = news[k + 1]
  BY <1>1, <1>3, HeadTailProperties
<1>7. Head(news).what \in Told /\ p0 \in Version
  BY <1>2 DEF Message, p0
<1>8. 1 \in DOMAIN news
  BY <1>4
<1>9. ASSUME NEW k \in DOMAIN Tail(news)
      PROVE  k \in Nat /\ k + 1 \in DOMAIN news /\ k + 1 # 1 /\ Tail(news)[k] = news[k + 1]
  BY <1>4, <1>5, <1>6
<1> QED
  BY <1>2, <1>3, <1>4, <1>7, <1>8, <1>9

\* What is left once a command has its answer: navigations only, up to the document
\* Chrome shows.
Left(n) ==
  /\ n \in Seq(Message) /\ \A k \in DOMAIN n : n[k].what = "navigated"
  /\ open => page.doc = IF n = <<>> THEN tab.url.doc ELSE n[Len(n)].page.doc

\* No answer is under way while no command runs.
LEMMA NothingAsked ==
  ASSUME TabInv, run.pc = "idle"
  PROVE  Left(news) /\ \A k \in DOMAIN news : news[k].what # "nodes"
<1>1. TabTypes /\ NewsOK /\ ChainOK
  BY DEF TabInv
<1>2. ASSUME NEW k \in DOMAIN news PROVE ~IsAnswer(news[k])
  <2> SUFFICES ASSUME IsAnswer(news[k]) PROVE FALSE
    OBVIOUS
  <2>1. <<run.pc, news[k].what>> \in Replies
    BY <1>1 DEF NewsOK
  <2> QED
    BY <2>1, RepliesTo
<1>3. \A k \in DOMAIN news : news[k].what = "navigated"
  BY <1>2 DEF IsAnswer
<1>4. news \in Seq(Message)
  BY <1>1 DEF TabTypes
<1>5. open => page.doc = IF news = <<>> THEN tab.url.doc ELSE news[Len(news)].page.doc
  BY <1>1 DEF ChainOK
<1> QED
  BY <1>3, <1>4, <1>5 DEF Left

\* The answer at the head is the one the command awaits, and the last.
LEMMA Heard ==
  ASSUME TabInv, news # <<>>, IsAnswer(Head(news))
  PROVE  /\ <<run.pc, Head(news).what>> \in Replies
         /\ Left(Tail(news)) /\ p0 \in Version
         /\ Since(p0, wrote, waited) /\ Since(page, p0.bytes, p0.facts)
         /\ open => p0.doc = tab.url.doc
         /\ open /\ Head(news).what = "landed" => tab.pin = {}
         /\ Head(news).what = "nodes" => p0.doc = page.doc \/ page.stamps = {}
         /\ Head(news).what # "nodes" => \A k \in DOMAIN news : news[k].what # "nodes"
<1>1. TabTypes /\ NewsOK /\ ChainOK /\ MovedOK /\ RefsOK
  BY DEF TabInv
<1>2. /\ Head(news) = news[1] /\ 1 \in DOMAIN news /\ p0 \in Version
      /\ Tail(news) \in Seq(Message) /\ Len(news) \in Nat \ {0} /\ Len(Tail(news)) = Len(news) - 1
      /\ \A k \in DOMAIN Tail(news) : k \in Nat /\ k + 1 \in DOMAIN news /\ k + 1 # 1 /\ Tail(news)[k] = news[k + 1]
  BY <1>1, TailOfNews
<1>3. IsAnswer(news[1]) /\ p0 = news[1].page
  BY <1>2 DEF p0
<1>4. <<run.pc, Head(news).what>> \in Replies /\ Since(p0, wrote, waited) /\ Since(page, p0.bytes, p0.facts)
  BY <1>1, <1>2, <1>3 DEF NewsOK
<1>5. \A k \in DOMAIN news : IsAnswer(news[k]) => k = 1
  BY <1>1, <1>2, <1>3 DEF NewsOK
<1>6. \A k \in DOMAIN Tail(news) : Tail(news)[k].what = "navigated"
  BY <1>2, <1>5 DEF IsAnswer
<1>7. open => p0.doc = tab.url.doc
  BY <1>1, <1>2, <1>3 DEF ChainOK
<1>8. open => page.doc = IF Tail(news) = <<>> THEN tab.url.doc ELSE Tail(news)[Len(Tail(news))].page.doc
  <2>1. open => page.doc = news[Len(news)].page.doc
    BY <1>1 DEF ChainOK
  <2>2. CASE Len(news) = 1
    <3>1. Tail(news) = <<>>
      BY <1>2, <2>2, EmptySeq
    <3> QED
      BY <1>3, <1>7, <2>1, <2>2, <3>1
  <2>3. CASE Len(news) # 1
    <3>1. Tail(news) # <<>> /\ Len(Tail(news)) \in DOMAIN Tail(news)
      BY <1>2, <2>3, EmptySeq, LenProperties
    <3>2. Tail(news)[Len(Tail(news))] = news[Len(Tail(news)) + 1]
      BY <1>2, <3>1
    <3>3. Len(Tail(news)) + 1 = Len(news)
      BY <1>2
    <3> QED
      BY <2>1, <3>1, <3>2, <3>3
  <2> QED
    BY <2>2, <2>3
<1>9. open /\ Head(news).what = "landed" => tab.pin = {}
  <2> SUFFICES ASSUME open, Head(news).what = "landed" PROVE tab.pin = {}
    OBVIOUS
  <2>1. tab.pin = {} \/ \E j \in DOMAIN news : j < 1 /\ news[j].what = "navigated"
    BY <1>1, <1>2 DEF MovedOK
  <2>2. \A j \in DOMAIN news : ~(j < 1)
    BY <1>1, MessageAt
  <2> QED
    BY <2>1, <2>2
<1>10. Head(news).what = "nodes" => p0.doc = page.doc \/ page.stamps = {}
  BY <1>1, <1>2, <1>3 DEF RefsOK
<1>11. Head(news).what # "nodes" => \A k \in DOMAIN news : news[k].what # "nodes"
  BY <1>2, <1>5 DEF IsAnswer
<1>12. Left(Tail(news))
  BY <1>2, <1>6, <1>8 DEF Left
<1> QED
  BY <1>2, <1>4, <1>7, <1>9, <1>10, <1>11, <1>12
-----------------------------------------------------------------------------
(* A step of the agent that leaves navigations only to be heard *)

LEMMA Settles ==
  ASSUME TabInv, NEW n, Left(n), news' = n, page' = page, open' = open,
         NEW t \in TabRec, tab' = t, t.url = tab.url,
         NEW r \in RunRec, run' = r, queue' \in Seq(CallRec),
         NEW w \in Nat, wrote' = w, NEW f \in Nat, waited' = f, Since(page, w, f),
         answers' \in SUBSET AnswerRec, refs' \in SUBSET RefRec,
         OnePin(t), open \/ Extracting(r.pc) => FreshPin(t, w, f),
         r.pc = "acting" /\ Head(queue').command = "click" => Unpinned(t, r.before, r.url),
         RunOK', AnswersOK', RefsOK'
  PROVE  TabInv'
<1>1. TabTypes /\ NewsOK /\ RefsOK'
  BY DEF TabInv
<1>2. /\ n \in Seq(Message) /\ \A k \in DOMAIN n : n[k].what = "navigated"
      /\ open => page.doc = IF n = <<>> THEN tab.url.doc ELSE n[Len(n)].page.doc
  BY DEF Left
<1>3. TabTypes'
  <2>1. open' \in BOOLEAN /\ page' \in Version
    BY <1>1 DEF TabTypes
  <2>2. news' \in Seq(Message)
    BY <1>2
  <2>3. astray' \in SUBSET RefRec
    BY <1>1 DEF RefsOK
  <2> QED
    BY <2>1, <2>2, <2>3 DEF TabTypes
<1>4. \A k \in DOMAIN n : ~IsAnswer(n[k]) /\ n[k].what # "nodes" /\ n[k].what # "landed"
  BY <1>2 DEF IsAnswer
<1>5. NewsOK'
  <2>1. Since(page', wrote', waited') /\ page'.doc <= page'.bytes /\ page'.facts <= page'.bytes
    BY <1>1 DEF NewsOK
  <2>2. \A k \in DOMAIN news' : ~IsAnswer(news'[k])
    BY <1>4
  <2> QED
    BY <2>1, <2>2 DEF NewsOK, IsAnswer
<1>6. ChainOK'
  BY <1>2, <1>4 DEF ChainOK
<1>7. PinsOK'
  BY DEF PinsOK
<1>8. MovedOK'
  BY <1>4 DEF MovedOK
<1> QED
  BY <1>1, <1>3, <1>5, <1>6, <1>7, <1>8 DEF TabInv

\* The references and stamps, when no snapshot is answered.
LEMMA RefsKept ==
  ASSUME TabInv, NEW n, Left(n), news' = n, page' = page, open' = open,
         \A k \in DOMAIN news : news[k].what # "nodes",
         NEW t \in TabRec, tab' = t, t.url = tab.url, tab.rev <= t.rev,
         NEW r \in RunRec, run' = r, r.pc # "acting", r.before <= t.rev,
         refs' = refs, astray' = astray
  PROVE  RefsOK'
<1>1. TabTypes /\ RefsOK
  BY DEF TabInv
<1>2. /\ \A s \in page.stamps : s <= tab.rev /\ s \in Nat
      /\ \A x \in refs : x.rev <= tab.rev /\ x.rev \in Nat
      /\ tab.rev \in Nat /\ t.rev \in Nat
  BY <1>1, VersionFields, TabFields DEF TabTypes, RefsOK, RefRec, Version
<1>3. \A s \in page.stamps : s <= t.rev
  BY <1>2
<1>4. \A x \in refs : x.rev <= t.rev
  BY <1>2
<1>5. open => \A x \in refs : x.rev = t.rev => x.doc = t.url.doc
  <2>1. ASSUME open, NEW x \in refs, x.rev = t.rev PROVE x.doc = tab.url.doc
    <3>1. x.rev = tab.rev
      BY <1>2, <2>1
    <3> QED
      BY <1>1, <2>1, <3>1 DEF RefsOK
  <2> QED
    BY <2>1
<1>6. open /\ t.rev \in page.stamps => page.doc = t.url.doc
  <2>1. ASSUME open, t.rev \in page.stamps PROVE page.doc = tab.url.doc
    <3>1. t.rev = tab.rev
      BY <1>2, <2>1
    <3> QED
      BY <1>1, <2>1, <3>1 DEF RefsOK
  <2> QED
    BY <2>1
<1>7. \A k \in DOMAIN n : n[k].what # "nodes"
  BY DEF Left
<1>8. astray = {}
  BY <1>1 DEF RefsOK
<1> QED
  BY <1>3, <1>4, <1>5, <1>6, <1>7, <1>8 DEF RefsOK

\* The answers given before.
LEMMA AnswersKept ==
  ASSUME TabInv, answers' = answers, NEW t \in TabRec, tab' = t, tab.rev <= t.rev, NEW r \in RunRec, run' = r,
         t.rev = tab.rev => \A a \in answers : OfItsRevision(a) /\ a.rev = tab.rev =>
                              Captured(t, a) /\ r.pc \notin {"reading", "hydrating"}
  PROVE  AnswersOK' /\ answers' \in SUBSET AnswerRec
<1>1. TabTypes /\ AnswersOK
  BY DEF TabInv
<1>2. tab.rev \in Nat /\ t.rev \in Nat /\ \A a \in answers : a.rev \in Nat /\ a.rev <= tab.rev
  BY <1>1, TabFields DEF TabTypes, AnswersOK, AnswerRec
<1>3. \A a \in answers : a.written /\ a.awaited /\ a.rev <= t.rev
  BY <1>1, <1>2 DEF AnswersOK
<1>4. ASSUME NEW a \in answers, OfItsRevision(a), a.rev = t.rev
      PROVE  Captured(t, a) /\ r.pc \notin {"reading", "hydrating"}
  <2>1. t.rev = tab.rev /\ a.rev = tab.rev
    BY <1>2, <1>4
  <2> QED
    BY <1>4, <2>1
<1>5. SameRevisionSameBytes'
  BY <1>1 DEF AnswersOK, SameRevisionSameBytes
<1>6. answers' \in SUBSET AnswerRec
  BY <1>1 DEF TabTypes
<1> QED
  BY <1>3, <1>4, <1>5, <1>6 DEF AnswersOK

\* Nothing is known of this revision's answers that the tab does not keep.
LEMMA AnswersStand ==
  ASSUME TabInv, answers' = answers, NEW t \in TabRec, tab' = t, tab.rev <= t.rev, NEW r \in RunRec, run' = r,
         t.rev = tab.rev => t.pin = tab.pin /\ r.pc \notin {"reading", "hydrating"}
  PROVE  AnswersOK' /\ answers' \in SUBSET AnswerRec
<1>1. AnswersOK
  BY DEF TabInv
<1>2. t.rev = tab.rev => \A a \in answers : OfItsRevision(a) /\ a.rev = tab.rev =>
                              Captured(t, a) /\ r.pc \notin {"reading", "hydrating"}
  BY <1>1 DEF AnswersOK, Captured
<1> QED
  BY <1>2, AnswersKept

\* One more answer, that states the present revision and is no older than what was
\* written and waited for; if it is of that revision, its capture is pinned, like
\* that of every other.
LEMMA AnswersGrow ==
  ASSUME TabInv, NEW t \in TabRec, tab' = t, tab.rev <= t.rev, NEW r \in RunRec, run' = r, r.pc = "idle",
         NEW a \in AnswerRec, answers' = answers \cup {a}, a.written, a.awaited, a.rev = t.rev,
         OfItsRevision(a) => Captured(t, a), OnePin(t),
         t.rev = tab.rev => \A b \in answers : OfItsRevision(b) /\ b.rev = tab.rev => Captured(t, b)
  PROVE  AnswersOK' /\ answers' \in SUBSET AnswerRec
<1>1. TabTypes /\ AnswersOK
  BY DEF TabInv
<1>2. tab.rev \in Nat /\ t.rev \in Nat /\ \A b \in answers : b.rev \in Nat /\ b.rev <= tab.rev
  BY <1>1, TabFields DEF TabTypes, AnswersOK, AnswerRec
<1>3. \A b \in answers \cup {a} : b.written /\ b.awaited /\ b.rev <= t.rev
  BY <1>1, <1>2 DEF AnswersOK
<1>4. ASSUME NEW b \in answers \cup {a}, OfItsRevision(b), b.rev = t.rev
      PROVE  Captured(t, b)
  <2>1. CASE b = a
    BY <1>4, <2>1
  <2>2. CASE b \in answers
    <3>1. t.rev = tab.rev /\ b.rev = tab.rev
      BY <1>2, <1>4, <2>2
    <3> QED
      BY <1>4, <2>2, <3>1
  <2> QED
    BY <2>1, <2>2
<1>5. ASSUME NEW b \in answers \cup {a}, NEW c \in answers \cup {a}, b.rev = c.rev, OfItsRevision(b), OfItsRevision(c)
      PROVE  b.bytes = c.bytes
  <2>1. CASE b.rev = t.rev
    <3>1. Captured(t, b) /\ Captured(t, c)
      BY <1>4, <1>5, <2>1
    <3> QED
      BY <3>1 DEF Captured, OnePin
  <2>2. CASE b.rev # t.rev
    <3>1. b \in answers /\ c \in answers
      BY <1>5, <2>2
    <3> QED
      BY <1>1, <1>5, <3>1 DEF AnswersOK, SameRevisionSameBytes, OfItsRevision
  <2> QED
    BY <2>1, <2>2
<1>6. SameRevisionSameBytes'
  <2> SUFFICES ASSUME NEW b \in answers', NEW c \in answers', b.rev = c.rev, b.of = b.rev, c.of = c.rev
               PROVE  b.bytes = c.bytes
    BY DEF SameRevisionSameBytes
  <2> QED
    BY <1>5 DEF OfItsRevision
<1>7. answers' \in SUBSET AnswerRec
  BY <1>1 DEF TabTypes
<1>8. r.pc \notin {"reading", "hydrating"}
  OBVIOUS
<1> QED
  BY <1>3, <1>4, <1>6, <1>7, <1>8 DEF AnswersOK
-----------------------------------------------------------------------------
(* How a command ends, goes on, and finds its source *)

LEMMA Leaves ==
  ASSUME TabInv, NEW n, Left(n), news' = n, page' = page, open' = open,
         NEW t \in TabRec, tab' = t, t.url = tab.url,
         Leave, queue # <<>>,
         NEW w \in Nat, wrote' = w, NEW f \in Nat, waited' = f, Since(page, w, f),
         answers' \in SUBSET AnswerRec, refs' \in SUBSET RefRec,
         OnePin(t), open => FreshPin(t, w, f), AnswersOK', RefsOK'
  PROVE  TabInv'
<1>1. run' = Idle /\ queue' = Tail(queue) /\ queue \in Seq(CallRec)
  BY DEF Leave, TabInv, TabTypes
<1>2. Tail(queue) \in Seq(CallRec)
  BY <1>1, HeadTailProperties
<1>3. Idle \in RunRec /\ Idle.pc = "idle" /\ ~Extracting(Idle.pc)
  BY IdleIs DEF Extracting
<1>4. RunOK'
  BY <1>1, <1>3 DEF RunOK, Extracting
<1> QED
  BY <1>1, <1>2, <1>3, <1>4, Settles

\* A command ends that leaves the pins of this revision and the references alone.
LEMMA LeavesQuietly ==
  ASSUME TabInv, NEW n, Left(n), news' = n, page' = page, open' = open,
         \A k \in DOMAIN news : news[k].what # "nodes",
         NEW t \in TabRec, tab' = t, t.url = tab.url, tab.rev <= t.rev, t.rev = tab.rev => t.pin = tab.pin,
         Leave, queue # <<>>,
         NEW w \in Nat, wrote' = w, NEW f \in Nat, waited' = f, Since(page, w, f),
         answers' = answers, refs' = refs, astray' = astray,
         OnePin(t), open => FreshPin(t, w, f)
  PROVE  TabInv'
<1>1. run' = Idle /\ Idle \in RunRec /\ Idle.pc = "idle" /\ Idle.before = 0 /\ t.rev \in Nat
  BY IdleIs, TabFields DEF Leave
<1>2. AnswersOK' /\ answers' \in SUBSET AnswerRec
  BY <1>1, AnswersStand
<1>3. RefsOK'
  BY <1>1, RefsKept
<1>4. refs' \in SUBSET RefRec
  BY DEF TabInv, TabTypes
<1> QED
  BY <1>2, <1>3, <1>4, Leaves

\* A command goes on to await something else than the page, leaving the same alone.
LEMMA GoesOn ==
  ASSUME TabInv, NEW n, Left(n), news' = n, page' = page, open' = open,
         \A k \in DOMAIN news : news[k].what # "nodes",
         NEW t \in TabRec, tab' = t, t.url = tab.url, tab.rev <= t.rev, t.rev = tab.rev => t.pin = tab.pin,
         NEW r \in RunRec, run' = r, r.pc \in {"landing", "parking", "titling", "looking", "waiting", "pausing"},
         r.before <= t.rev, queue' = queue, queue # <<>>,
         NEW w \in Nat, wrote' = w, waited' = waited, Since(page, w, waited),
         answers' = answers, refs' = refs, astray' = astray,
         OnePin(t), open => FreshPin(t, w, waited)
  PROVE  TabInv'
<1>1. r.pc \notin {"idle", "acting", "hydrating", "rereading", "reading", "setting"} /\ ~Extracting(r.pc)
  BY DEF Extracting
<1>2. AnswersOK' /\ answers' \in SUBSET AnswerRec
  BY <1>1, AnswersStand
<1>3. RefsOK'
  BY <1>1, RefsKept
<1>4. RunOK'
  BY <1>1 DEF RunOK, Extracting
<1>5. queue' \in Seq(CallRec) /\ refs' \in SUBSET RefRec /\ waited \in Nat
  BY DEF TabInv, TabTypes
<1> QED
  BY <1>1, <1>2, <1>3, <1>4, <1>5, Settles

\* An answer from the capture q.
LEMMA Answers ==
  ASSUME TabInv, NEW n, Left(n), news' = n, page' = page, open' = open,
         \A k \in DOMAIN news : news[k].what # "nodes",
         NEW t \in TabRec, tab' = t, t.url = tab.url, tab.rev <= t.rev,
         NEW r \in RunRec, NEW q \in PinRec, Answer(r, t, q), queue # <<>>,
         NEW w \in Nat, wrote' = w, waited' = waited, Since(page, w, waited), refs' = refs, astray' = astray,
         OnePin(t), open => FreshPin(t, w, waited),
         Since(q, r.wrote, r.waited), q.rev = t.rev => q \in t.pin,
         t.rev = tab.rev => \A b \in answers : OfItsRevision(b) /\ b.rev = tab.rev => Captured(t, b)
  PROVE  TabInv'
<1> DEFINE a == [rev |-> t.rev, of |-> q.rev, doc |-> r.url.doc, bytes |-> q.bytes,
                 written |-> q.bytes >= r.wrote, awaited |-> q.facts >= r.waited]
<1>1. Leave /\ answers' = answers \cup {a}
  BY DEF Answer
<1>2. t.rev \in Nat /\ q.rev \in Nat /\ q.bytes \in Nat /\ r.url.doc \in Nat
  BY TabFields, PinFields, RunFields
<1>3. (q.bytes >= r.wrote) = TRUE /\ (q.facts >= r.waited) = TRUE
  BY DEF Since
<1>4. a \in AnswerRec /\ a.written /\ a.awaited /\ a.rev = t.rev /\ a.of = q.rev /\ a.bytes = q.bytes
  BY <1>2, <1>3 DEF AnswerRec
<1> HIDE DEF a
<1>5. OfItsRevision(a) => Captured(t, a)
  BY <1>4 DEF OfItsRevision, Captured
<1>6. run' = Idle /\ Idle \in RunRec /\ Idle.pc = "idle" /\ Idle.before = 0
  BY <1>1, IdleIs DEF Leave
<1>7. AnswersOK' /\ answers' \in SUBSET AnswerRec
  BY <1>1, <1>4, <1>5, <1>6, AnswersGrow
<1>8. RefsOK'
  BY <1>2, <1>6, RefsKept
<1>9. refs' \in SUBSET RefRec /\ waited \in Nat
  BY DEF TabInv, TabTypes
<1> QED
  BY <1>1, <1>7, <1>8, <1>9, Leaves

\* The command goes on with an extraction, awaiting r.pc.
LEMMA Extracts ==
  ASSUME TabInv, NEW n, Left(n), news' = n, page' = page, open' = open,
         \A k \in DOMAIN news : news[k].what # "nodes",
         NEW t \in TabRec, tab' = t, t.url = tab.url, tab.rev <= t.rev,
         NEW r \in RunRec, run' = r, queue' = queue, queue # <<>>, answers' = answers,
         NEW w \in Nat, wrote' = w, waited' = waited, Since(page, w, waited), refs' = refs, astray' = astray,
         OnePin(t), FreshPin(t, w, waited), r.wrote <= w, r.waited <= waited, r.before <= t.rev,
         Extracting(r.pc),
         r.pc = "hydrating" => \A q \in r.source :
            Since(q, r.wrote, r.waited) /\ q.rev <= t.rev /\ (q.rev = t.rev => q \in t.pin),
         t.rev = tab.rev => \A b \in answers : OfItsRevision(b) /\ b.rev = tab.rev =>
            Captured(t, b) /\ r.pc \notin {"reading", "hydrating"}
  PROVE  TabInv'
<1>1. r.pc \notin {"idle", "acting", "rereading"}
  BY DEF Extracting
<1>2. AnswersOK' /\ answers' \in SUBSET AnswerRec
  BY AnswersKept
<1>3. RefsOK'
  BY <1>1, RefsKept
<1>4. RunOK'
  BY <1>1 DEF RunOK
<1>5. queue' \in Seq(CallRec) /\ refs' \in SUBSET RefRec /\ waited \in Nat
  BY DEF TabInv, TabTypes
<1> QED
  BY <1>1, <1>2, <1>3, <1>4, <1>5, Settles

\* Parsing what was captured: whatever it leads to, the promises are kept.
LEMMA ParseKeeps ==
  ASSUME TabInv, NEW n, Left(n), news' = n, page' = page, open' = open,
         \A k \in DOMAIN news : news[k].what # "nodes",
         NEW t \in TabRec, tab' = t, t.url = tab.url, tab.rev <= t.rev,
         NEW r \in RunRec, NEW q \in PinRec, NEW pinned \in BOOLEAN, Parse(r, t, q, pinned), queue # <<>>,
         NEW w \in Nat, wrote' = w, waited' = waited, Since(page, w, waited), refs' = refs, astray' = astray,
         OnePin(t), FreshPin(t, w, waited), r.wrote <= w, r.waited <= waited, r.before <= t.rev,
         q \in t.pin, q.rev = t.rev, Since(q, w, waited),
         t.rev = tab.rev => \A b \in answers : OfItsRevision(b) /\ b.rev = tab.rev => pinned /\ Captured(t, b)
  PROVE  TabInv'
<1>1. /\ r.wrote \in Nat /\ r.waited \in Nat /\ waited \in Nat /\ q.bytes \in Nat /\ q.facts \in Nat /\ t.rev \in Nat
  BY RunFields, PinFields, TabFields DEF TabInv, TabTypes
<1>2. Since(q, r.wrote, r.waited)
  BY <1>1 DEF Since
<1>3. CASE r.url.kind = "seller" /\ q.shell /\ ~pinned /\ ~r.again
  <2>1. run' = [r EXCEPT !.pc = "hydrating", !.source = {q}] /\ queue' = queue /\ answers' = answers
    BY <1>3 DEF Parse
  <2>2. PICK s \in RunRec : s = [r EXCEPT !.pc = "hydrating", !.source = {q}]
    BY DEF RunRec, Pcs
  <2>3. /\ s.pc = "hydrating" /\ s.source = {q} /\ s.wrote = r.wrote /\ s.waited = r.waited /\ s.before = r.before
        /\ Extracting(s.pc)
    BY <2>2 DEF RunRec, Extracting
  <2>4. \A x \in s.source : Since(x, s.wrote, s.waited) /\ x.rev <= t.rev /\ (x.rev = t.rev => x \in t.pin)
    BY <1>1, <1>2, <2>3
  <2>5. t.rev = tab.rev => \A b \in answers : ~(OfItsRevision(b) /\ b.rev = tab.rev)
    BY <1>3
  <2> QED
    BY <2>1, <2>2, <2>3, <2>4, <2>5, Extracts
<1>4. CASE r.url.kind = "listing" /\ ~r.again /\ ~(r.url.kind = "seller" /\ q.shell /\ ~pinned /\ ~r.again)
  <2>1. run' = [r EXCEPT !.pc = "setting"] /\ queue' = queue /\ answers' = answers
    BY <1>4 DEF Parse
  <2>2. PICK s \in RunRec : s = [r EXCEPT !.pc = "setting"]
    BY DEF RunRec, Pcs
  <2>3. /\ s.pc = "setting" /\ s.wrote = r.wrote /\ s.waited = r.waited /\ s.before = r.before
        /\ Extracting(s.pc)
    BY <2>2 DEF RunRec, Extracting
  <2> QED
    BY <2>1, <2>2, <2>3, Extracts
<1>5. CASE ~(r.url.kind = "listing" /\ ~r.again) /\ ~(r.url.kind = "seller" /\ q.shell /\ ~pinned /\ ~r.again)
  <2>1. Answer(r, t, q)
    BY <1>5 DEF Parse
  <2> QED
    BY <1>2, <2>1, Answers
<1> QED
  BY <1>3, <1>4, <1>5

\* resolveExtractionSource, from the tab as t0.
LEMMA SourceKeeps ==
  ASSUME TabInv, NEW n, Left(n), news' = n, page' = page, open' = open,
         \A k \in DOMAIN news : news[k].what # "nodes",
         NEW t0 \in TabRec, t0.url = tab.url, tab.rev <= t0.rev,
         NEW r \in RunRec, Source(r, t0), queue # <<>>,
         NEW w \in Nat, wrote' = w, waited' = waited, Since(page, w, waited), refs' = refs, astray' = astray,
         OnePin(t0), FreshPin(t0, w, waited), r.wrote <= w, r.waited <= waited, r.before <= t0.rev,
         t0.rev = tab.rev => \A b \in answers : OfItsRevision(b) /\ b.rev = tab.rev => Captured(t0, b)
  PROVE  TabInv'
<1>1. PICK t \in TabRec : t = Resolved(t0)
  BY ResolvedIs
<1>2. /\ t.url = t0.url
      /\ \/ t0.dirty = FALSE /\ t = t0
         \/ t0.dirty = TRUE /\ t.rev = t0.rev + 1 /\ t.pin = {}
  BY <1>1, ResolvedIs
<1>3. t0.rev \in Nat /\ t.rev \in Nat /\ t.pin \in SUBSET PinRec /\ tab.rev \in Nat /\ waited \in Nat /\ r.before \in Nat
  BY TabFields, RunFields DEF TabInv, TabTypes
<1>4. tab.rev <= t.rev /\ r.before <= t.rev
  BY <1>2, <1>3
<1>5. OnePin(t) /\ FreshPin(t, w, waited)
  BY <1>2 DEF OnePin, FreshPin
<1>6. t.rev = tab.rev => t = t0
  BY <1>2, <1>3
<1>7. t.rev = tab.rev => \A b \in answers : OfItsRevision(b) /\ b.rev = tab.rev => Captured(t, b)
  BY <1>6
<1> DEFINE pin == {q \in t.pin : q.rev = t.rev}
<1>8. tab' = t
  BY <1>1 DEF Source
<1>9. CASE pin # {}
  <2>1. PICK q \in pin : Parse(r, t, q, TRUE)
    BY <1>1, <1>9 DEF Source
  <2>2. q \in PinRec /\ q \in t.pin /\ q.rev = t.rev
    BY <1>3, <2>1
  <2>3. t = t0 /\ t0.dirty = FALSE
    BY <1>2, <2>2
  <2>4. Since(q, w, waited)
    BY <2>2, <2>3 DEF FreshPin
  <2>5. TRUE \in BOOLEAN /\ t.url = tab.url
    BY <1>2
  <2> QED
    BY <1>4, <1>5, <1>7, <1>8, <2>1, <2>2, <2>4, <2>5, ParseKeeps
<1>10. CASE pin = {}
  <2>1. run' = [r EXCEPT !.pc = "reading"] /\ queue' = queue /\ answers' = answers
    BY <1>1, <1>10 DEF Source
  <2>2. PICK s \in RunRec : s = [r EXCEPT !.pc = "reading"]
    BY DEF RunRec, Pcs
  <2>3. s.pc = "reading" /\ s.wrote = r.wrote /\ s.waited = r.waited /\ s.before = r.before /\ Extracting(s.pc)
    BY <2>2 DEF RunRec, Extracting
  <2>4. t.rev = tab.rev => \A b \in answers : ~(OfItsRevision(b) /\ b.rev = tab.rev)
    BY <1>7, <1>10 DEF Captured
  <2>5. t.url = tab.url
    BY <1>2
  <2> QED
    BY <1>4, <1>5, <1>8, <2>1, <2>2, <2>3, <2>4, <2>5, Extracts
<1> QED
  BY <1>9, <1>10
-----------------------------------------------------------------------------
(* The steps of the agent *)

LEMMA Now ==
  ASSUME TabInv
  PROVE  /\ tab \in TabRec /\ run \in RunRec /\ page \in Version /\ wrote \in Nat /\ waited \in Nat /\ tab.rev \in Nat
         /\ tab.rev <= tab.rev /\ refs \in SUBSET RefRec /\ queue \in Seq(CallRec)
         /\ OnePin(tab) /\ (open \/ Extracting(run.pc) => FreshPin(tab, wrote, waited))
         /\ Since(page, wrote, waited)
         /\ run.pc # "idle" => queue # <<>>
         /\ run.before <= tab.rev
         /\ \A b \in answers : OfItsRevision(b) /\ b.rev = tab.rev =>
              Captured(tab, b) /\ run.pc \notin {"reading", "hydrating"}
<1>1. TabTypes /\ NewsOK /\ PinsOK /\ RunOK /\ AnswersOK /\ RefsOK
  BY DEF TabInv
<1>2. tab \in TabRec /\ run \in RunRec /\ page \in Version /\ wrote \in Nat /\ waited \in Nat /\ refs \in SUBSET RefRec
      /\ queue \in Seq(CallRec)
  BY <1>1 DEF TabTypes
<1>3. tab.rev \in Nat /\ tab.rev <= tab.rev
  BY <1>2, TabFields
<1>4. OnePin(tab) /\ (open \/ Extracting(run.pc) => FreshPin(tab, wrote, waited))
  BY <1>1 DEF PinsOK
<1>5. Since(page, wrote, waited)
  BY <1>1 DEF NewsOK
<1>6. run.pc # "idle" => queue # <<>>
  BY <1>1 DEF RunOK
<1>7. run.before <= tab.rev
  BY <1>1 DEF RefsOK
<1>8. \A b \in answers : OfItsRevision(b) /\ b.rev = tab.rev =>
              Captured(tab, b) /\ run.pc \notin {"reading", "hydrating"}
  BY <1>1 DEF AnswersOK
<1> QED
  BY <1>2, <1>3, <1>4, <1>5, <1>6, <1>7, <1>8

\* A command begins when none runs.
LEMMA FrontIs ==
  ASSUME TabInv, Front # {}
  PROVE  /\ run = Idle /\ run.pc = "idle" /\ queue # <<>> /\ Front = {Head(queue)}
         /\ Left(news) /\ \A k \in DOMAIN news : news[k].what # "nodes"
<1>1. run = Idle /\ queue # <<>> /\ Front = {Head(queue)}
  BY DEF Front
<1>2. run.pc = "idle"
  BY <1>1, IdleIs
<1> QED
  BY <1>1, <1>2, NothingAsked

LEMMA RestIs ==
  ASSUME UNCHANGED rest
  PROVE  page' = page /\ open' = open /\ news' = news
  BY DEF rest, browserVars

LEMMA HistoriesAre ==
  ASSUME UNCHANGED histories
  PROVE  refs' = refs /\ astray' = astray /\ wrote' = wrote /\ waited' = waited /\ answers' = answers
  BY DEF histories

\* An extraction begins, with the tab open: with the URL it has and what was written and
\* waited for so far.
LEMMA ExtractKeeps ==
  ASSUME TabInv, NEW n, Left(n), news' = n, page' = page, open' = open, open,
         \A k \in DOMAIN news : news[k].what # "nodes",
         Extract(Idle), queue # <<>>, run.pc \notin {"reading", "hydrating"},
         wrote' = wrote, waited' = waited, refs' = refs, astray' = astray
  PROVE  TabInv'
<1>1. /\ tab \in TabRec /\ tab.rev \in Nat /\ tab.rev <= tab.rev /\ tab.url \in UrlRec
      /\ wrote \in Nat /\ waited \in Nat /\ OnePin(tab) /\ FreshPin(tab, wrote, waited) /\ Since(page, wrote, waited)
      /\ \A b \in answers : OfItsRevision(b) /\ b.rev = tab.rev => Captured(tab, b)
  BY Now, TabFields
<1>2. PICK r \in RunRec : r = [Idle EXCEPT !.url = tab.url, !.wrote = wrote, !.waited = waited]
  BY <1>1, IdleIs DEF RunRec
<1>3. r.wrote = wrote /\ r.waited = waited /\ r.before = 0
  BY <1>2, IdleIs DEF RunRec
<1>4. Source(r, tab)
  BY <1>2 DEF Extract
<1>5. r.wrote <= wrote /\ r.waited <= waited /\ r.before <= tab.rev
  BY <1>1, <1>3
<1> QED
  BY <1>1, <1>4, <1>5, SourceKeeps

LEMMA StartStep == ASSUME TabInv, Start PROVE TabInv'
<1>1. /\ tab \in TabRec /\ page \in Version /\ wrote \in Nat /\ waited \in Nat /\ tab.rev \in Nat
      /\ tab.rev <= tab.rev /\ refs \in SUBSET RefRec /\ queue \in Seq(CallRec)
      /\ OnePin(tab) /\ (open => FreshPin(tab, wrote, waited)) /\ Since(page, wrote, waited)
  BY Now
<1>2. Idle \in RunRec /\ Idle.pc = "idle" /\ Idle.before = 0 /\ Idle.ref = {}
  BY IdleIs
<1>3. ASSUME NEW commands, Starts(commands) PROVE open /\ Front # {} /\ Head(queue).command \in commands
  <2>1. open /\ Front # {}
    BY <1>3 DEF Starts
  <2>2. Front = {Head(queue)}
    BY <2>1, FrontIs
  <2> QED
    BY <1>3, <2>1, <2>2 DEF Starts
<1>4. CASE Refuse
  <2>1. Front # {} /\ Leave /\ UNCHANGED rest /\ UNCHANGED histories /\ tab' = tab
    BY <1>4 DEF Refuse
  <2>2. queue # <<>> /\ Left(news) /\ \A k \in DOMAIN news : news[k].what # "nodes"
    BY <2>1, FrontIs
  <2>3. page' = page /\ open' = open /\ news' = news
    BY <2>1, RestIs
  <2>4. refs' = refs /\ astray' = astray /\ wrote' = wrote /\ waited' = waited /\ answers' = answers
    BY <2>1, HistoriesAre
  <2> QED
    BY <1>1, <2>1, <2>2, <2>3, <2>4, LeavesQuietly
<1>5. CASE StartVisit
  <2>1. Front # {} /\ UNCHANGED rest /\ UNCHANGED histories /\ tab' = tab /\ queue' = queue /\ run' = [Idle EXCEPT !.pc = "landing"]
    BY <1>3, <1>5 DEF StartVisit
  <2>2. queue # <<>> /\ Left(news) /\ \A k \in DOMAIN news : news[k].what # "nodes"
    BY <2>1, FrontIs
  <2>3. page' = page /\ open' = open /\ news' = news
    BY <2>1, RestIs
  <2>4. refs' = refs /\ astray' = astray /\ wrote' = wrote /\ waited' = waited /\ answers' = answers
    BY <2>1, HistoriesAre
  <2>5. PICK r \in RunRec : r = [Idle EXCEPT !.pc = "landing"]
    BY <1>2 DEF RunRec, Pcs
  <2>6. r.pc = "landing" /\ r.before <= tab.rev
    BY <1>1, <1>2, <2>5 DEF RunRec
  <2> QED
    BY <1>1, <2>1, <2>2, <2>3, <2>4, <2>5, <2>6, GoesOn
<1>6. CASE StartExtract
  <2>1. Front # {} /\ open /\ UNCHANGED rest /\ Extract(Idle) /\ refs' = refs /\ astray' = astray /\ wrote' = wrote /\ waited' = waited
    BY <1>3, <1>6 DEF StartExtract
  <2>2. queue # <<>> /\ run.pc = "idle" /\ Left(news) /\ \A k \in DOMAIN news : news[k].what # "nodes"
    BY <2>1, FrontIs
  <2>3. page' = page /\ open' = open /\ news' = news
    BY <2>1, RestIs
  <2>4. run.pc \notin {"reading", "hydrating"}
    BY <2>2
  <2> QED
    BY <2>1, <2>2, <2>3, <2>4, ExtractKeeps
<1>7. CASE StartAction
  <2>1. /\ Front # {} /\ open /\ UNCHANGED rest /\ UNCHANGED histories /\ tab' = tab
        /\ \E r \in refs :
             IF RefIsCurrent(r)
               THEN run' = [Idle EXCEPT !.pc = "acting", !.ref = {r}, !.before = tab.rev, !.url = tab.url] /\ UNCHANGED queue
               ELSE Leave
    BY <1>3, <1>7 DEF StartAction
  <2>2. queue # <<>> /\ Left(news) /\ \A k \in DOMAIN news : news[k].what # "nodes"
    BY <2>1, FrontIs
  <2>3. page' = page /\ open' = open /\ news' = news
    BY <2>1, RestIs
  <2>4. refs' = refs /\ astray' = astray /\ wrote' = wrote /\ waited' = waited /\ answers' = answers
    BY <2>1, HistoriesAre
  <2>5. CASE Leave
    BY <1>1, <2>1, <2>2, <2>3, <2>4, <2>5, LeavesQuietly
  <2>6. CASE ~Leave
    <3>1. PICK x \in refs : /\ x.rev = tab.rev /\ queue' = queue
                            /\ run' = [Idle EXCEPT !.pc = "acting", !.ref = {x}, !.before = tab.rev, !.url = tab.url]
      BY <2>1, <2>6 DEF RefIsCurrent
    <3>2. "acting" \in Pcs /\ {x} \in SUBSET RefRec /\ tab.url \in UrlRec
      BY <1>1, TabFields DEF Pcs
    <3>3. PICK r \in RunRec : r = [Idle EXCEPT !.pc = "acting", !.ref = {x}, !.before = tab.rev, !.url = tab.url]
      BY <1>1, <1>2, <3>2 DEF RunRec
    <3>4. r.pc = "acting" /\ r.ref = {x} /\ r.before = tab.rev /\ r.url = tab.url
      BY <1>2, <3>3 DEF RunRec
    <3>5. Unpinned(tab, r.before, r.url)
      BY <3>4 DEF Unpinned
    <3>6. ~Extracting(r.pc) /\ r.pc \notin {"idle", "hydrating", "rereading"}
      BY <3>4 DEF Extracting
    <3>7. RunOK'
      BY <2>2, <3>1, <3>3, <3>6 DEF RunOK
    <3>8. AnswersOK' /\ answers' \in SUBSET AnswerRec
      <4>1. r.pc \notin {"reading", "hydrating"}
        BY <3>4
      <4> QED
        BY <1>1, <2>1, <2>4, <3>1, <3>3, <4>1, AnswersStand
    <3>9. RefsOK'
      <4>1. RefsOK
        BY DEF TabInv
      <4>2. ASSUME NEW y \in r.ref, y.rev \in page.stamps PROVE y.doc = page.doc
        <5>1. y = x /\ tab.rev \in page.stamps
          BY <3>1, <3>4, <4>2
        <5>2. page.doc = tab.url.doc /\ x.doc = tab.url.doc
          BY <2>1, <2>2, <3>1, <4>1, <5>1 DEF RefsOK
        <5> QED
          BY <5>1, <5>2
      <4> QED
        BY <1>1, <2>1, <2>3, <2>4, <3>1, <3>3, <3>4, <4>1, <4>2 DEF RefsOK
    <3> QED
      BY <1>1, <2>1, <2>2, <2>3, <2>4, <3>1, <3>3, <3>5, <3>6, <3>7, <3>8, <3>9, Settles
  <2> QED
    BY <2>5, <2>6
<1>8. CASE StartBlindAction
  <2>1. /\ Front # {} /\ open /\ UNCHANGED rest /\ UNCHANGED histories /\ tab' = tab /\ queue' = queue
        /\ run' = [Idle EXCEPT !.pc = "acting"] /\ Head(queue).command = "fill"
    BY <1>3, <1>8 DEF StartBlindAction
  <2>2. queue # <<>> /\ Left(news) /\ \A k \in DOMAIN news : news[k].what # "nodes"
    BY <2>1, FrontIs
  <2>3. page' = page /\ open' = open /\ news' = news
    BY <2>1, RestIs
  <2>4. refs' = refs /\ astray' = astray /\ wrote' = wrote /\ waited' = waited /\ answers' = answers
    BY <2>1, HistoriesAre
  <2>5. PICK r \in RunRec : r = [Idle EXCEPT !.pc = "acting"]
    BY <1>2 DEF RunRec, Pcs
  <2>6. r.pc = "acting" /\ r.ref = {} /\ r.before = 0
    BY <1>2, <2>5 DEF RunRec
  <2>7. Head(queue').command # "click"
    BY <2>1
  <2>8. ~Extracting(r.pc) /\ r.pc \notin {"idle", "hydrating", "rereading", "reading"}
    BY <2>6 DEF Extracting
  <2>9. RunOK'
    BY <2>1, <2>2, <2>5, <2>8 DEF RunOK
  <2>10. AnswersOK' /\ answers' \in SUBSET AnswerRec
    BY <1>1, <2>1, <2>4, <2>5, <2>8, AnswersStand
  <2>11. RefsOK'
    <3>1. RefsOK
      BY DEF TabInv
    <3> QED
      BY <1>1, <2>1, <2>3, <2>4, <2>5, <2>6, <3>1 DEF RefsOK
  <2> QED
    BY <1>1, <2>1, <2>2, <2>3, <2>4, <2>5, <2>7, <2>8, <2>9, <2>10, <2>11, Settles
<1>9. CASE StartSnapshot
  <2>1. /\ Front # {} /\ UNCHANGED rest /\ UNCHANGED histories /\ tab' = Resolved(tab) /\ queue' = queue
        /\ run' = [Idle EXCEPT !.pc = "looking", !.before = Resolved(tab).rev]
    BY <1>3, <1>9 DEF StartSnapshot
  <2>2. queue # <<>> /\ Left(news) /\ \A k \in DOMAIN news : news[k].what # "nodes"
    BY <2>1, FrontIs
  <2>3. page' = page /\ open' = open /\ news' = news
    BY <2>1, RestIs
  <2>4. refs' = refs /\ astray' = astray /\ wrote' = wrote /\ waited' = waited /\ answers' = answers
    BY <2>1, HistoriesAre
  <2>5. PICK t \in TabRec : t = Resolved(tab)
    BY <1>1, ResolvedIs
  <2>6. /\ t.url = tab.url
        /\ \/ t = tab
           \/ t.rev = tab.rev + 1 /\ t.pin = {}
    BY <1>1, <2>5, ResolvedIs
  <2>7. t.rev \in Nat /\ tab.rev <= t.rev /\ (t.rev = tab.rev => t.pin = tab.pin) /\ t.rev <= t.rev
    BY <1>1, <2>6, TabFields
  <2>8. OnePin(t) /\ (open => FreshPin(t, wrote, waited))
    BY <1>1, <2>6 DEF OnePin, FreshPin
  <2>9. PICK r \in RunRec : r = [Idle EXCEPT !.pc = "looking", !.before = t.rev]
    BY <1>2, <2>7 DEF RunRec, Pcs
  <2>10. r.pc = "looking" /\ r.before = t.rev
    BY <1>2, <2>9 DEF RunRec
  <2> QED
    BY <1>1, <2>1, <2>2, <2>3, <2>4, <2>5, <2>6, <2>7, <2>8, <2>9, <2>10, GoesOn
<1>10. CASE StartWait
  <2>1. /\ Front # {} /\ UNCHANGED rest /\ UNCHANGED histories /\ tab' = tab /\ queue' = queue
        /\ \E pc \in {"waiting", "pausing"} : run' = [Idle EXCEPT !.pc = pc]
    BY <1>3, <1>10 DEF StartWait
  <2>2. queue # <<>> /\ Left(news) /\ \A k \in DOMAIN news : news[k].what # "nodes"
    BY <2>1, FrontIs
  <2>3. page' = page /\ open' = open /\ news' = news
    BY <2>1, RestIs
  <2>4. refs' = refs /\ astray' = astray /\ wrote' = wrote /\ waited' = waited /\ answers' = answers
    BY <2>1, HistoriesAre
  <2>5. PICK pc \in {"waiting", "pausing"} : run' = [Idle EXCEPT !.pc = pc]
    BY <2>1
  <2>6. pc \in Pcs
    BY <2>5 DEF Pcs
  <2>7. PICK r \in RunRec : r = [Idle EXCEPT !.pc = pc]
    BY <1>2, <2>6 DEF RunRec
  <2>8. r.pc = pc /\ r.before <= tab.rev
    BY <1>1, <1>2, <2>7 DEF RunRec
  <2> QED
    BY <1>1, <2>1, <2>2, <2>3, <2>4, <2>5, <2>7, <2>8, GoesOn
<1> QED
  BY <1>4, <1>5, <1>6, <1>7, <1>8, <1>9, <1>10 DEF Start
\* A navigation is heard of: what was pinned is dropped if the tab is still there.
LEMMA NavigatedKeeps == ASSUME TabInv, HearNavigated PROVE TabInv'
<1>1. TabTypes /\ NewsOK /\ ChainOK /\ PinsOK /\ MovedOK /\ RunOK /\ AnswersOK /\ RefsOK
  BY DEF TabInv
<1>2. /\ news # <<>> /\ Head(news).what = "navigated" /\ news' = Tail(news)
      /\ tab' = (IF open THEN Navigated(tab, p0) ELSE tab)
      /\ open' = open /\ page' = page /\ queue' = queue /\ run' = run
      /\ refs' = refs /\ astray' = astray /\ wrote' = wrote /\ waited' = waited /\ answers' = answers
  BY DEF HearNavigated, Hears, unheard, browserVars, histories
<1>3. /\ Head(news) = news[1] /\ 1 \in DOMAIN news /\ p0 \in Version
      /\ Tail(news) \in Seq(Message) /\ Len(news) \in Nat \ {0} /\ Len(Tail(news)) = Len(news) - 1
      /\ \A k \in DOMAIN Tail(news) : k \in Nat /\ k + 1 \in DOMAIN news /\ k + 1 # 1 /\ Tail(news)[k] = news[k + 1]
  BY <1>1, <1>2, TailOfNews
<1>4. PICK n \in Seq(Message) : n = Tail(news)
  BY <1>3
<1>5. /\ Len(n) = Len(news) - 1 /\ DOMAIN n = 1 .. Len(n)
      /\ \A k \in DOMAIN n : k \in Nat /\ k + 1 \in DOMAIN news /\ k + 1 # 1 /\ n[k] = news[k + 1]
  BY <1>3, <1>4, LenProperties
<1>6. PICK t \in TabRec : t = tab'
  BY <1>1, <1>2, <1>3, NavigatedIs DEF TabTypes
<1>7. tab \in TabRec /\ tab.rev \in Nat /\ t.rev \in Nat
  BY <1>1, TabFields DEF TabTypes
<1>8. /\ open => t.rev = tab.rev + 1 /\ t.pin = {} /\ t.url.doc = p0.doc
      /\ ~open => t = tab
  <2>1. open => t = Navigated(tab, p0)
    BY <1>2, <1>6
  <2>2. ~open => t = tab
    BY <1>2, <1>6
  <2>3. /\ Navigated(tab, p0).rev = tab.rev + 1 /\ Navigated(tab, p0).pin = {}
        /\ Navigated(tab, p0).url.doc = p0.doc
    <3>1. PICK v \in Version : v = p0
      BY <1>3
    <3>2. /\ Navigated(tab, v).rev = tab.rev + 1 /\ Navigated(tab, v).pin = {}
          /\ Navigated(tab, v).url.doc = v.doc
      BY <1>7, NavigatedIs
    <3> QED
      BY <3>1, <3>2
  <2> QED
    BY <2>1, <2>2, <2>3
<1>9. tab.rev <= t.rev
  BY <1>7, <1>8
<1>10. TabTypes'
  <2>1. open' \in BOOLEAN /\ page' \in Version /\ run' \in RunRec /\ queue' \in Seq(CallRec)
    BY <1>1, <1>2 DEF TabTypes
  <2>2. refs' \in SUBSET RefRec /\ astray' \in SUBSET RefRec /\ wrote' \in Nat /\ waited' \in Nat /\ answers' \in SUBSET AnswerRec
    BY <1>1, <1>2 DEF TabTypes
  <2> QED
    BY <1>2, <1>4, <1>6, <2>1, <2>2 DEF TabTypes
<1>11. NewsOK'
  <2>1. ASSUME NEW j \in DOMAIN n, NEW k \in DOMAIN n, IsAnswer(n[j]), IsAnswer(n[k]) PROVE j = k
    <3>1. j + 1 = k + 1
      BY <1>1, <1>5, <2>1 DEF NewsOK
    <3> QED
      BY <1>5, <3>1
  <2>2. ASSUME NEW k \in DOMAIN n, IsAnswer(n[k])
        PROVE  /\ <<run.pc, n[k].what>> \in Replies
               /\ Since(n[k].page, wrote, waited)
               /\ Since(page, n[k].page.bytes, n[k].page.facts)
    BY <1>1, <1>5, <2>2 DEF NewsOK
  <2>3. Since(page, wrote, waited) /\ page.doc <= page.bytes /\ page.facts <= page.bytes
    BY <1>1 DEF NewsOK
  <2> QED
    BY <1>2, <1>4, <2>1, <2>2, <2>3 DEF NewsOK
<1>12. ChainOK'
  <2> SUFFICES ASSUME open PROVE ChainOK'
    BY <1>2 DEF ChainOK
  <2>1. ASSUME NEW k \in DOMAIN n, IsAnswer(n[k])
        PROVE  n[k].page.doc = IF k = 1 THEN t.url.doc ELSE n[k - 1].page.doc
    <3>1. news[k + 1].page.doc = news[(k + 1) - 1].page.doc
      BY <1>1, <1>5, <2>1 DEF ChainOK
    <3>2. (k + 1) - 1 = k /\ k \in 1 .. Len(n)
      BY <1>5
    <3>3. CASE k = 1
      BY <1>3, <1>5, <1>8, <3>1, <3>2, <3>3 DEF p0
    <3>4. CASE k # 1
      <4>1. k - 1 \in DOMAIN n /\ (k - 1) + 1 = k
        BY <1>5, <3>2, <3>4
      <4>2. n[k - 1] = news[k]
        BY <1>5, <4>1
      <4> QED
        BY <1>5, <3>1, <3>2, <3>4, <4>2
    <3> QED
      BY <3>3, <3>4
  <2>2. page.doc = IF n = <<>> THEN t.url.doc ELSE n[Len(n)].page.doc
    <3>1. page.doc = news[Len(news)].page.doc
      BY <1>1, <1>2 DEF ChainOK
    <3>2. CASE n = <<>>
      <4>1. Len(news) = 1
        BY <1>3, <1>5, <3>2, EmptySeq
      <4> QED
        BY <1>3, <1>8, <3>1, <3>2, <4>1 DEF p0
    <3>3. CASE n # <<>>
      <4>1. Len(n) \in DOMAIN n /\ Len(n) + 1 = Len(news)
        BY <1>3, <1>4, <1>5, <3>3, EmptySeq, LenProperties
      <4>2. n[Len(n)] = news[Len(news)]
        BY <1>5, <4>1
      <4> QED
        BY <3>1, <3>3, <4>2
    <3> QED
      BY <3>2, <3>3
  <2> QED
    BY <1>2, <1>4, <1>6, <2>1, <2>2 DEF ChainOK
<1>13. PinsOK'
  <2>1. OnePin(t)
    BY <1>1, <1>8 DEF PinsOK, OnePin
  <2>2. open \/ Extracting(run.pc) => FreshPin(t, wrote, waited)
    BY <1>1, <1>8 DEF PinsOK, FreshPin
  <2> QED
    BY <1>2, <1>6, <2>1, <2>2 DEF PinsOK
<1>14. MovedOK'
  <2>1. open => t.pin = {}
    BY <1>8
  <2>2. run.pc = "acting" /\ Head(queue).command = "click" => Unpinned(t, run.before, run.url)
    BY <1>1, <1>8 DEF MovedOK, Unpinned
  <2> QED
    BY <1>2, <1>6, <2>1, <2>2 DEF MovedOK
<1>15. RunOK'
  <2>1. run.source \in SUBSET PinRec
    BY <1>1, RunFields DEF TabTypes
  <2>2. ASSUME run.pc = "hydrating", NEW q \in run.source
        PROVE  Since(q, run.wrote, run.waited) /\ q.rev <= t.rev /\ (q.rev = t.rev => q \in t.pin)
    <3>1. Since(q, run.wrote, run.waited) /\ q.rev <= tab.rev /\ (q.rev = tab.rev => q \in tab.pin)
      BY <1>1, <2>2 DEF RunOK
    <3>2. q.rev \in Nat
      BY <2>1, <2>2, PinFields
    <3> QED
      BY <1>7, <1>8, <3>1, <3>2
  <2>3. run.pc = "rereading" => /\ \A p, q \in run.source : p = q
                                /\ \A q \in t.pin : q.rev = t.rev => q \in run.source
    BY <1>1, <1>8 DEF RunOK
  <2>4. /\ run.pc # "idle" => queue # <<>>
        /\ Extracting(run.pc) => run.wrote <= wrote /\ run.waited <= waited
    BY <1>1 DEF RunOK
  <2> QED
    BY <1>2, <1>6, <2>2, <2>3, <2>4 DEF RunOK
<1>16. AnswersOK'
  <2>1. t.rev = tab.rev => t = tab
    BY <1>7, <1>8
  <2>2. \A a \in answers : OfItsRevision(a) /\ a.rev = tab.rev =>
              Captured(tab, a) /\ run.pc \notin {"reading", "hydrating"}
    BY <1>1 DEF AnswersOK
  <2>3. t.rev = tab.rev => \A a \in answers : OfItsRevision(a) /\ a.rev = tab.rev =>
              Captured(t, a) /\ run.pc \notin {"reading", "hydrating"}
    BY <2>1, <2>2
  <2>4. run \in RunRec
    BY <1>1 DEF TabTypes
  <2> QED
    BY <1>2, <1>6, <1>9, <2>3, <2>4, AnswersKept
<1>17. RefsOK'
  <2>1. /\ \A s \in page.stamps : s <= tab.rev /\ s \in Nat
        /\ \A x \in refs : x.rev <= tab.rev /\ x.rev \in Nat
        /\ run.before <= tab.rev /\ run.before \in Nat
    BY <1>1, VersionFields, RunFields DEF TabTypes, RefsOK, RefRec, Version
  <2>2. /\ \A s \in page.stamps : s <= t.rev
        /\ \A x \in refs : x.rev <= t.rev
        /\ run.before <= t.rev
    BY <1>7, <1>9, <2>1
  <2>3. open => \A x \in refs : x.rev # t.rev
    BY <1>7, <1>8, <2>1
  <2>4. open => t.rev \notin page.stamps
    BY <1>7, <1>8, <2>1
  <2>5. \A k \in DOMAIN n : n[k].what = "nodes" => n[k].page.doc = page.doc \/ page.stamps = {}
    BY <1>1, <1>5 DEF RefsOK
  <2>6. run.pc = "acting" => \A x \in run.ref : x.rev \in page.stamps => x.doc = page.doc
    BY <1>1 DEF RefsOK
  <2>7. astray = {}
    BY <1>1 DEF RefsOK
  <2> QED
    BY <1>2, <1>4, <1>6, <2>2, <2>3, <2>4, <2>5, <2>6, <2>7 DEF RefsOK
<1> QED
  BY <1>10, <1>11, <1>12, <1>13, <1>14, <1>15, <1>16, <1>17 DEF TabInv

\* The queue changes behind the command that runs.
LEMMA QueueKeeps ==
  ASSUME TabInv, NEW q \in Seq(CallRec), queue' = q,
         run.pc # "idle" => q # <<>> /\ Head(q).command = Head(queue).command,
         open' = open, page' = page, news' = news, tab' = tab, run' = run, UNCHANGED histories
  PROVE  TabInv'
<1>1. TabTypes /\ NewsOK /\ ChainOK /\ PinsOK /\ MovedOK /\ RunOK /\ AnswersOK /\ RefsOK
  BY DEF TabInv
<1>2. refs' = refs /\ astray' = astray /\ wrote' = wrote /\ waited' = waited /\ answers' = answers
  BY HistoriesAre
<1>3. TabTypes'
  BY <1>1, <1>2 DEF TabTypes
<1>4. NewsOK' /\ ChainOK' /\ PinsOK'
  BY <1>1, <1>2 DEF NewsOK, ChainOK, PinsOK
<1>5. MovedOK'
  BY <1>1 DEF MovedOK
<1>6. RunOK'
  BY <1>1, <1>2 DEF RunOK
<1>7. AnswersOK' /\ RefsOK'
  BY <1>1, <1>2 DEF AnswersOK, RefsOK, SameRevisionSameBytes
<1> QED
  BY <1>3, <1>4, <1>5, <1>6, <1>7 DEF TabInv

LEMMA EnqueueKeeps == ASSUME TabInv, NEW k \in Kinds, Enqueue(k) PROVE TabInv'
<1>1. queue \in Seq(CallRec) /\ (run.pc # "idle" => queue # <<>>)
  BY Now
<1>2. PICK c \in CallRec : c = [command |-> k, expired |-> FALSE]
  <2>1. k \in Command /\ FALSE \in BOOLEAN
    BY KindsAssumption
  <2> QED
    BY <2>1, Zenon DEF CallRec
<1>3. PICK q \in Seq(CallRec) : q = Append(queue, c)
  BY <1>1, AppendProperties
<1>4. queue # <<>> => q # <<>> /\ Head(q) = Head(queue)
  <2> SUFFICES ASSUME queue # <<>> PROVE q # <<>> /\ Head(q) = Head(queue)
    OBVIOUS
  <2>1. Len(queue) \in Nat \ {0} /\ Len(q) = Len(queue) + 1 /\ \A i \in 1 .. Len(queue) : q[i] = queue[i]
    BY <1>1, <1>3, AppendProperties, EmptySeq, LenProperties
  <2>2. q # <<>> /\ 1 \in 1 .. Len(queue)
    BY <2>1, EmptySeq
  <2> QED
    BY <1>1, <2>1, <2>2
<1>5. queue' = q /\ open' = open /\ page' = page /\ news' = news /\ tab' = tab /\ run' = run /\ UNCHANGED histories
  BY <1>2, <1>3 DEF Enqueue, browserVars
<1> QED
  BY <1>1, <1>4, <1>5, QueueKeeps

LEMMA ExpiresKeeps == ASSUME TabInv, NEW i \in DOMAIN queue, Expires(i) PROVE TabInv'
<1>1. queue \in Seq(CallRec) /\ (run.pc # "idle" => queue # <<>>) /\ Len(queue) \in Nat /\ DOMAIN queue = 1 .. Len(queue)
  BY Now, LenProperties
<1>2. queue[i] \in CallRec
  BY <1>1
<1>3. PICK c \in CallRec : c = [queue[i] EXCEPT !.expired = TRUE]
  <2>1. \A b \in BOOLEAN : [queue[i] EXCEPT !.expired = b] \in CallRec
    BY <1>2 DEF CallRec
  <2> QED
    BY <2>1, Zenon
<1>4. c.command = queue[i].command
  BY <1>2, <1>3 DEF CallRec
<1>5. PICK q \in Seq(CallRec) : q = [queue EXCEPT ![i] = c]
  BY <1>1, ExceptSeq
<1>6. Len(q) = Len(queue) /\ \A j \in 1 .. Len(queue) : q[j] = IF j = i THEN c ELSE queue[j]
  BY <1>1, <1>5, ExceptSeq
<1>7. queue' = q /\ open' = open /\ page' = page /\ news' = news /\ tab' = tab /\ run' = run /\ UNCHANGED histories
  BY <1>3, <1>5 DEF Expires, browserVars
<1>8. q # <<>> /\ Head(q).command = Head(queue).command
  <2>1. queue # <<>> /\ 1 \in 1 .. Len(queue) /\ Len(q) # 0
    BY <1>1, <1>6, EmptySeq
  <2>2. Head(q) = q[1] /\ Head(queue) = queue[1] /\ q # <<>>
    BY <1>1, <2>1, EmptySeq
  <2> QED
    BY <1>4, <1>6, <2>1, <2>2
<1> QED
  BY <1>7, <1>8, QueueKeeps
-----------------------------------------------------------------------------
(* What the agent does with an answer *)

LEMMA AnswerIs ==
  ASSUME TabInv, NEW what, what # "navigated", Hears(what)
  PROVE  /\ news' = Tail(news) /\ Left(Tail(news)) /\ <<run.pc, what>> \in Replies
         /\ run.pc # "idle" /\ queue # <<>> /\ p0 \in Version /\ p0.bytes \in Nat /\ p0.facts \in Nat
         /\ Since(p0, wrote, waited) /\ Since(page, p0.bytes, waited) /\ Since(page, wrote, p0.facts)
         /\ open => p0.doc = tab.url.doc
         /\ open /\ what = "landed" => tab.pin = {}
         /\ what = "nodes" => p0.doc = page.doc \/ page.stamps = {}
         /\ what # "nodes" => \A k \in DOMAIN news : news[k].what # "nodes"
<1>1. news # <<>> /\ Head(news).what = what /\ news' = Tail(news)
  BY DEF Hears
<1>2. IsAnswer(Head(news))
  BY <1>1 DEF IsAnswer
<1>3. /\ <<run.pc, what>> \in Replies
      /\ Left(Tail(news)) /\ p0 \in Version
      /\ Since(p0, wrote, waited) /\ Since(page, p0.bytes, p0.facts)
      /\ open => p0.doc = tab.url.doc
      /\ open /\ what = "landed" => tab.pin = {}
      /\ what = "nodes" => p0.doc = page.doc \/ page.stamps = {}
      /\ what # "nodes" => \A k \in DOMAIN news : news[k].what # "nodes"
  BY <1>1, <1>2, Heard
<1>4. run.pc # "idle"
  BY <1>3, RepliesTo
<1>5. queue # <<>> /\ Since(page, wrote, waited)
  BY <1>4, Now
<1>6. p0.bytes \in Nat /\ p0.facts \in Nat
  BY <1>3, VersionFields
<1>7. Since(page, p0.bytes, waited) /\ Since(page, wrote, p0.facts)
  BY <1>3, <1>5 DEF Since
<1> QED
  BY <1>1, <1>3, <1>4, <1>5, <1>6, <1>7

LEMMA UnheardIs ==
  ASSUME UNCHANGED unheard
  PROVE  page' = page /\ open' = open
  BY DEF unheard, browserVars

\* The command that runs tries again.
LEMMA RunAgain ==
  ASSUME NEW r \in RunRec, NEW pc \in Pcs, NEW w \in Nat
  PROVE  /\ [r EXCEPT !.pc = pc, !.again = TRUE] \in RunRec
         /\ [r EXCEPT !.again = TRUE] \in RunRec
         /\ [r EXCEPT !.again = TRUE, !.wrote = w] \in RunRec
<1>1. \A b \in BOOLEAN : /\ [r EXCEPT !.pc = pc, !.again = b] \in RunRec
                         /\ [r EXCEPT !.again = b] \in RunRec
                         /\ [r EXCEPT !.again = b, !.wrote = w] \in RunRec
  BY DEF RunRec
<1>2. TRUE \in BOOLEAN
  OBVIOUS
<1> QED
  BY <1>1, <1>2, Zenon

\* The answers on which a command ends or asks for something else than the page.
LEMMA EndsKeep ==
  ASSUME TabInv, HearError \/ HearLanded \/ HearRefused \/ HearParked \/ HearDone
  PROVE  TabInv'
<1>1. /\ tab \in TabRec /\ run \in RunRec /\ wrote \in Nat /\ waited \in Nat /\ tab.rev \in Nat
      /\ tab.rev <= tab.rev /\ refs \in SUBSET RefRec /\ queue \in Seq(CallRec)
      /\ OnePin(tab) /\ (open => FreshPin(tab, wrote, waited)) /\ Since(page, wrote, waited) /\ run.before <= tab.rev
  BY Now
<1>2. PICK d \in TabRec : d = [tab EXCEPT !.dirty = TRUE]
  BY <1>1, MarkedIs
<1>3. d.rev = tab.rev /\ d.dirty = TRUE /\ d.pin = tab.pin /\ d.url = tab.url
  BY <1>1, <1>2, MarkedIs
<1>4. OnePin(d) /\ \A w, f : FreshPin(d, w, f)
  BY <1>1, <1>3 DEF OnePin, FreshPin
<1>5. tab.rev <= d.rev /\ (d.rev = tab.rev => d.pin = tab.pin)
  BY <1>1, <1>3
<1>6. CASE HearError
  <2>1. Hears("error") /\ Leave /\ UNCHANGED unheard /\ UNCHANGED histories /\ (tab' = tab \/ tab' = d)
    BY <1>2, <1>6 DEF HearError
  <2>2. news' = Tail(news) /\ Left(Tail(news)) /\ queue # <<>> /\ \A k \in DOMAIN news : news[k].what # "nodes"
    BY <2>1, AnswerIs
  <2>3. page' = page /\ open' = open
    BY <2>1, UnheardIs
  <2>4. refs' = refs /\ astray' = astray /\ wrote' = wrote /\ waited' = waited /\ answers' = answers
    BY <2>1, HistoriesAre
  <2>5. CASE tab' = tab
    BY <1>1, <2>1, <2>2, <2>3, <2>4, <2>5, LeavesQuietly
  <2>6. CASE tab' = d
    BY <1>1, <1>3, <1>4, <1>5, <2>1, <2>2, <2>3, <2>4, <2>6, LeavesQuietly
  <2> QED
    BY <2>1, <2>5, <2>6
<1>7. CASE HearLanded
  <2>1. /\ Hears("landed") /\ run' = [run EXCEPT !.pc = "titling"] /\ wrote' = p0.bytes /\ UNCHANGED unheard
        /\ tab' = tab /\ queue' = queue /\ refs' = refs /\ astray' = astray /\ waited' = waited /\ answers' = answers
    BY <1>7 DEF HearLanded
  <2>2. /\ news' = Tail(news) /\ Left(Tail(news)) /\ queue # <<>> /\ p0.bytes \in Nat /\ Since(page, p0.bytes, waited)
        /\ (open => tab.pin = {}) /\ \A k \in DOMAIN news : news[k].what # "nodes"
    BY <2>1, AnswerIs
  <2>3. page' = page /\ open' = open
    BY <2>1, UnheardIs
  <2>4. PICK r \in RunRec : r = [run EXCEPT !.pc = "titling"]
    BY <1>1 DEF RunRec, Pcs
  <2>5. r.pc = "titling" /\ r.before <= tab.rev
    BY <1>1, <2>4 DEF RunRec
  <2>6. open => FreshPin(tab, p0.bytes, waited)
    BY <2>2 DEF FreshPin
  <2> QED
    BY <1>1, <2>1, <2>2, <2>3, <2>4, <2>5, <2>6, GoesOn
<1>8. CASE HearRefused
  <2>1. /\ Hears("refused") /\ run' = [run EXCEPT !.pc = "parking"] /\ UNCHANGED unheard /\ UNCHANGED histories
        /\ tab' = tab /\ queue' = queue
    BY <1>8 DEF HearRefused
  <2>2. news' = Tail(news) /\ Left(Tail(news)) /\ queue # <<>> /\ \A k \in DOMAIN news : news[k].what # "nodes"
    BY <2>1, AnswerIs
  <2>3. page' = page /\ open' = open
    BY <2>1, UnheardIs
  <2>4. refs' = refs /\ astray' = astray /\ wrote' = wrote /\ waited' = waited /\ answers' = answers
    BY <2>1, HistoriesAre
  <2>5. PICK r \in RunRec : r = [run EXCEPT !.pc = "parking"]
    BY <1>1 DEF RunRec, Pcs
  <2>6. r.pc = "parking" /\ r.before <= tab.rev
    BY <1>1, <2>5 DEF RunRec
  <2> QED
    BY <1>1, <2>1, <2>2, <2>3, <2>4, <2>5, <2>6, GoesOn
<1>9. CASE HearParked
  <2>1. /\ Hears("parked") /\ UNCHANGED unheard /\ UNCHANGED histories /\ tab' = tab
        /\ (Leave \/ (run' = [run EXCEPT !.pc = "landing", !.again = TRUE] /\ queue' = queue))
    BY <1>9 DEF HearParked
  <2>2. news' = Tail(news) /\ Left(Tail(news)) /\ queue # <<>> /\ \A k \in DOMAIN news : news[k].what # "nodes"
    BY ZenonT(40), <2>1, AnswerIs
  <2>3. page' = page /\ open' = open
    BY <2>1, UnheardIs
  <2>4. refs' = refs /\ astray' = astray /\ wrote' = wrote /\ waited' = waited /\ answers' = answers
    BY <2>1, HistoriesAre
  <2>5. CASE Leave
    BY <1>1, <2>1, <2>2, <2>3, <2>4, <2>5, LeavesQuietly
  <2>6. CASE ~Leave
    <3>1. run' = [run EXCEPT !.pc = "landing", !.again = TRUE] /\ queue' = queue
      BY <2>1, <2>6
    <3>2. PICK r \in RunRec : r = [run EXCEPT !.pc = "landing", !.again = TRUE]
      <4>1. "landing" \in Pcs
        BY DEF Pcs
      <4> QED
        BY <1>1, <4>1, RunAgain
    <3>3. r.pc = "landing" /\ r.before <= tab.rev
      BY <1>1, <3>2 DEF RunRec
    <3> QED
      BY <1>1, <2>1, <2>2, <2>3, <2>4, <3>1, <3>2, <3>3, GoesOn
  <2> QED
    BY <2>5, <2>6
<1>10. CASE HearDone
  <2>1. /\ Hears("done") /\ tab' = Mutated /\ wrote' = p0.bytes /\ Leave /\ UNCHANGED unheard
        /\ refs' = refs /\ astray' = astray /\ waited' = waited /\ answers' = answers
    BY <1>10 DEF HearDone
  <2>2. /\ news' = Tail(news) /\ Left(Tail(news)) /\ queue # <<>> /\ p0.bytes \in Nat /\ Since(page, p0.bytes, waited)
        /\ <<run.pc, "done">> \in Replies /\ \A k \in DOMAIN news : news[k].what # "nodes"
    BY <2>1, AnswerIs
  <2>3. page' = page /\ open' = open
    BY <2>1, UnheardIs
  <2>4. run.pc = "acting"
    BY <2>2, RepliesTo
  <2>5. CASE Head(queue).command = "click" /\ (tab.rev # run.before \/ tab.url # run.url)
    <3>1. tab' = tab
      BY <2>1, <2>5 DEF Mutated
    <3>2. Unpinned(tab, run.before, run.url)
      BY <2>4, <2>5 DEF TabInv, MovedOK
    <3>3. tab.pin = {}
      BY <2>5, <3>2 DEF Unpinned
    <3>4. FreshPin(tab, p0.bytes, waited)
      BY <3>3 DEF FreshPin
    <3> QED
      BY <1>1, <2>1, <2>2, <2>3, <3>1, <3>4, LeavesQuietly
  <2>6. CASE ~(Head(queue).command = "click" /\ (tab.rev # run.before \/ tab.url # run.url))
    <3>1. tab' = d
      BY <1>2, <2>1, <2>6 DEF Mutated
    <3> QED
      BY <1>1, <1>3, <1>4, <1>5, <2>1, <2>2, <2>3, <3>1, LeavesQuietly
  <2> QED
    BY <2>5, <2>6
<1> QED
  BY <1>6, <1>7, <1>8, <1>9, <1>10

\* The snapshot is answered: its references are of the document it was taken on.
LEMMA NodesKeep == ASSUME TabInv, HearNodes PROVE TabInv'
<1>1. /\ tab \in TabRec /\ run \in RunRec /\ wrote \in Nat /\ waited \in Nat /\ tab.rev \in Nat
      /\ tab.rev <= tab.rev /\ refs \in SUBSET RefRec /\ queue \in Seq(CallRec)
      /\ OnePin(tab) /\ (open => FreshPin(tab, wrote, waited)) /\ Since(page, wrote, waited) /\ run.before <= tab.rev
  BY Now
<1>2. PICK x : x = [rev |-> run.before, doc |-> p0.doc]
  OBVIOUS
<1>3. /\ Hears("nodes") /\ refs' = refs \cup {x} /\ Leave /\ UNCHANGED unheard
      /\ tab' = tab /\ astray' = astray /\ wrote' = wrote /\ waited' = waited /\ answers' = answers
  BY <1>2 DEF HearNodes
<1>4. /\ news' = Tail(news) /\ Left(Tail(news)) /\ queue # <<>> /\ p0 \in Version
      /\ (open => p0.doc = tab.url.doc) /\ (p0.doc = page.doc \/ page.stamps = {})
  BY <1>3, AnswerIs
<1>5. page' = page /\ open' = open
  BY <1>3, UnheardIs
<1>6. x \in RefRec /\ x.rev = run.before /\ x.doc = p0.doc
  BY <1>1, <1>2, <1>4, RunFields, VersionFields DEF RefRec
<1>7. run' = Idle /\ Idle \in RunRec /\ Idle.pc = "idle" /\ Idle.before = 0
  BY <1>3, IdleIs DEF Leave
<1>8. AnswersOK' /\ answers' \in SUBSET AnswerRec
  BY <1>1, <1>3, <1>7, AnswersStand
<1>9. RefsOK'
  <2>1. RefsOK
    BY DEF TabInv
  <2>2. \A y \in refs' : y.rev <= tab.rev
    BY <1>1, <1>3, <1>6, <2>1 DEF RefsOK
  <2>3. open => \A y \in refs' : y.rev = tab.rev => y.doc = tab.url.doc
    BY <1>3, <1>4, <1>6, <2>1 DEF RefsOK
  <2>4. open /\ tab.rev \in page.stamps => page.doc = tab.url.doc
    BY <1>4
  <2>5. \A k \in DOMAIN Tail(news) : Tail(news)[k].what # "nodes"
    BY <1>4 DEF Left
  <2>6. (\A s \in page.stamps : s <= tab.rev) /\ astray = {}
    BY <2>1 DEF RefsOK
  <2> QED
    BY <1>1, <1>3, <1>4, <1>5, <1>7, <2>2, <2>3, <2>4, <2>5, <2>6 DEF RefsOK
<1>10. refs' \in SUBSET RefRec
  BY <1>1, <1>3, <1>6
<1> QED
  BY <1>1, <1>3, <1>4, <1>5, <1>8, <1>9, <1>10, Leaves
\* The answers on which an extraction begins, goes on or is answered.
LEMMA ExtractionsKeep ==
  ASSUME TabInv, HearTitled \/ HearPage \/ HearHydrated \/ HearDestination
  PROVE  TabInv'
<1>1. /\ tab \in TabRec /\ run \in RunRec /\ wrote \in Nat /\ waited \in Nat /\ tab.rev \in Nat
      /\ tab.rev <= tab.rev /\ OnePin(tab) /\ (open \/ Extracting(run.pc) => FreshPin(tab, wrote, waited))
      /\ Since(page, wrote, waited) /\ run.before <= tab.rev
      /\ \A b \in answers : OfItsRevision(b) /\ b.rev = tab.rev =>
              Captured(tab, b) /\ run.pc \notin {"reading", "hydrating"}
  BY Now
<1>2. /\ run.wrote \in Nat /\ run.waited \in Nat /\ run.before \in Nat /\ run.source \in SUBSET PinRec
      /\ Extracting(run.pc) => run.wrote <= wrote /\ run.waited <= waited
      /\ run.pc = "hydrating" => \A q \in run.source :
           Since(q, run.wrote, run.waited) /\ q.rev <= tab.rev /\ (q.rev = tab.rev => q \in tab.pin)
  BY <1>1, RunFields DEF TabInv, RunOK
<1>3. CASE HearTitled
  <2>1. /\ Hears("titled") /\ UNCHANGED unheard /\ refs' = refs /\ astray' = astray /\ wrote' = wrote /\ waited' = waited
        /\ \/ open /\ Extract(Idle)
           \/ Leave /\ tab' = tab /\ answers' = answers
    BY <1>3 DEF HearTitled
  <2>2. /\ news' = Tail(news) /\ Left(Tail(news)) /\ queue # <<>> /\ <<run.pc, "titled">> \in Replies
        /\ \A k \in DOMAIN news : news[k].what # "nodes"
    BY <2>1, AnswerIs
  <2>3. page' = page /\ open' = open
    BY <2>1, UnheardIs
  <2>4. run.pc \notin {"reading", "hydrating"}
    BY <2>2, RepliesTo
  <2>5. CASE open /\ Extract(Idle)
    BY <2>1, <2>2, <2>3, <2>4, <2>5, ExtractKeeps
  <2>6. CASE Leave /\ tab' = tab /\ answers' = answers
    BY <1>1, <2>1, <2>2, <2>3, <2>6, LeavesQuietly
  <2> QED
    BY <2>1, <2>5, <2>6
<1>4. CASE HearPage
  <2>1. /\ Hears("page") /\ run.pc = "reading" /\ UNCHANGED unheard /\ tab' = Pinned(tab, p0)
        /\ Parse(run, tab, Pin(tab, p0), FALSE)
        /\ refs' = refs /\ astray' = astray /\ wrote' = wrote /\ waited' = waited
    BY <1>4 DEF HearPage
  <2>2. /\ news' = Tail(news) /\ Left(Tail(news)) /\ queue # <<>> /\ p0 \in Version /\ Since(p0, wrote, waited)
        /\ \A k \in DOMAIN news : news[k].what # "nodes"
    <3>1. Hears("page")
      BY <2>1
    <3> QED
      BY <3>1, AnswerIs
  <2>3. page' = page /\ open' = open
    BY <2>1, UnheardIs
  <2>4. PICK p \in Version : p = p0
    BY <2>2
  <2>5. PICK q \in PinRec : q = Pin(tab, p)
    BY <1>1, PinnedIs
  <2>6. PICK t \in TabRec : t = Pinned(tab, p)
    BY <1>1, PinnedIs
  <2>7. /\ q.rev = tab.rev /\ q.bytes = p.bytes /\ q.facts = p.facts
        /\ t.rev = tab.rev /\ t.pin = {q} /\ t.url = tab.url
    BY <1>1, <2>5, <2>6, PinnedIs
  <2>8. tab' = t /\ Parse(run, tab, q, FALSE)
    BY <2>1, <2>4, <2>5, <2>6
  <2>9. Parse(run, t, q, FALSE)
    BY <2>7, <2>8 DEF Parse, Answer
  <2>10. Since(q, wrote, waited)
    BY <2>2, <2>4, <2>7 DEF Since
  <2>11. OnePin(t) /\ FreshPin(t, wrote, waited)
    BY <1>1, <2>7, <2>10 DEF OnePin, FreshPin
  <2>12. run.wrote <= wrote /\ run.waited <= waited /\ run.before <= t.rev /\ q \in t.pin /\ q.rev = t.rev /\ tab.rev <= t.rev
    BY <1>1, <1>2, <2>1, <2>7 DEF Extracting
  <2>13. t.rev = tab.rev => \A b \in answers : OfItsRevision(b) /\ b.rev = tab.rev => FALSE /\ Captured(t, b)
    BY <1>1, <2>1
  <2> QED
    BY <1>1, <2>1, <2>2, <2>3, <2>7, <2>8, <2>9, <2>10, <2>11, <2>12, <2>13, ParseKeeps
<1>5. CASE HearHydrated /\ Hears("missing")
  <2>1. PICK q \in run.source : Answer(run, tab, q)
    BY <1>5 DEF HearHydrated, Hears
  <2>2. /\ run.pc = "hydrating" /\ UNCHANGED unheard /\ tab' = tab
        /\ refs' = refs /\ astray' = astray /\ wrote' = wrote /\ waited' = waited
    BY <1>5 DEF HearHydrated, Hears
  <2>3. /\ news' = Tail(news) /\ Left(Tail(news)) /\ queue # <<>> /\ \A k \in DOMAIN news : news[k].what # "nodes"
    <3>1. PICK w : w = "missing"
      OBVIOUS
    <3>2. Hears(w) /\ w # "navigated" /\ w # "nodes"
      BY <1>5, <3>1
    <3> QED
      BY <3>2, AnswerIs
  <2>4. page' = page /\ open' = open
    BY <2>2, UnheardIs
  <2>5. q \in PinRec /\ Since(q, run.wrote, run.waited) /\ (q.rev = tab.rev => q \in tab.pin)
    BY <1>2, <2>1, <2>2
  <2> QED
    BY <1>1, <2>1, <2>2, <2>3, <2>4, <2>5, Answers
<1>6. CASE HearHydrated /\ ~Hears("missing")
  <2>1. /\ Hears("met") /\ run.pc = "hydrating" /\ UNCHANGED unheard
        /\ Source([run EXCEPT !.again = TRUE], [tab EXCEPT !.pin = {}])
        /\ refs' = refs /\ astray' = astray /\ wrote' = wrote /\ waited' = waited
    BY <1>6 DEF HearHydrated
  <2>2. /\ news' = Tail(news) /\ Left(Tail(news)) /\ queue # <<>> /\ \A k \in DOMAIN news : news[k].what # "nodes"
    <3>1. Hears("met")
      BY <2>1
    <3> QED
      BY <3>1, AnswerIs
  <2>3. page' = page /\ open' = open
    BY <2>1, UnheardIs
  <2>4. PICK t \in TabRec : t = [tab EXCEPT !.pin = {}]
    BY <1>1, UnpinnedIs
  <2>5. t.rev = tab.rev /\ t.pin = {} /\ t.url = tab.url
    BY <1>1, <2>4, UnpinnedIs
  <2>6. PICK r \in RunRec : r = [run EXCEPT !.again = TRUE]
    <3>1. "idle" \in Pcs
      BY DEF Pcs
    <3> QED
      BY <1>1, <3>1, RunAgain
  <2>7. r.wrote = run.wrote /\ r.waited = run.waited /\ r.before = run.before
    BY <1>1, <2>6 DEF RunRec
  <2>8. Source(r, t)
    BY <2>1, <2>4, <2>6
  <2>9. OnePin(t) /\ FreshPin(t, wrote, waited)
    BY <2>5 DEF OnePin, FreshPin
  <2>10. r.wrote <= wrote /\ r.waited <= waited /\ r.before <= t.rev /\ tab.rev <= t.rev
    BY <1>1, <1>2, <2>1, <2>5, <2>7 DEF Extracting
  <2>11. t.rev = tab.rev => \A b \in answers : OfItsRevision(b) /\ b.rev = tab.rev => Captured(t, b)
    BY <1>1, <2>1
  <2> QED
    BY <1>1, <2>1, <2>2, <2>3, <2>5, <2>8, <2>9, <2>10, <2>11, SourceKeeps
<1>7. CASE HearDestination /\ Hears("kept")
  <2>1. Source([run EXCEPT !.again = TRUE], tab) /\ wrote' = wrote
    BY <1>7 DEF HearDestination, Hears
  <2>2. UNCHANGED unheard /\ refs' = refs /\ astray' = astray /\ waited' = waited
    BY <1>7 DEF HearDestination
  <2>3. /\ news' = Tail(news) /\ Left(Tail(news)) /\ queue # <<>> /\ <<run.pc, "kept">> \in Replies
        /\ \A k \in DOMAIN news : news[k].what # "nodes"
    BY <1>7, AnswerIs
  <2>4. page' = page /\ open' = open
    BY <2>2, UnheardIs
  <2>5. run.pc = "setting" /\ Extracting(run.pc)
    BY <2>3, RepliesTo DEF Extracting
  <2>6. PICK r \in RunRec : r = [run EXCEPT !.again = TRUE]
    <3>1. "idle" \in Pcs
      BY DEF Pcs
    <3> QED
      BY <1>1, <3>1, RunAgain
  <2>7. r.wrote = run.wrote /\ r.waited = run.waited /\ r.before = run.before
    BY <1>1, <2>6 DEF RunRec
  <2>8. Source(r, tab)
    BY <2>1, <2>6
  <2>9. r.wrote <= wrote /\ r.waited <= waited /\ r.before <= tab.rev
    BY <1>1, <1>2, <2>5, <2>7
  <2> QED
    BY <1>1, <2>1, <2>2, <2>3, <2>4, <2>5, <2>8, <2>9, SourceKeeps
<1>8. CASE HearDestination /\ ~Hears("kept")
  <2>1. /\ Hears("set") /\ wrote' = p0.bytes
        /\ Source([run EXCEPT !.again = TRUE, !.wrote = p0.bytes], Reset(tab))
    BY <1>8 DEF HearDestination
  <2>2. UNCHANGED unheard /\ refs' = refs /\ astray' = astray /\ waited' = waited
    BY <1>8 DEF HearDestination
  <2>3. /\ news' = Tail(news) /\ Left(Tail(news)) /\ queue # <<>> /\ <<run.pc, "set">> \in Replies
        /\ p0.bytes \in Nat /\ Since(page, p0.bytes, waited)
        /\ \A k \in DOMAIN news : news[k].what # "nodes"
    BY <2>1, AnswerIs
  <2>4. page' = page /\ open' = open
    BY <2>2, UnheardIs
  <2>5. run.pc = "setting" /\ Extracting(run.pc)
    BY <2>3, RepliesTo DEF Extracting
  <2>6. PICK w \in Nat : w = p0.bytes
    BY <2>3
  <2>7. PICK r \in RunRec : r = [run EXCEPT !.again = TRUE, !.wrote = w]
    <3>1. "idle" \in Pcs
      BY DEF Pcs
    <3> QED
      BY <1>1, <3>1, RunAgain
  <2>8. r.wrote = w /\ r.waited = run.waited /\ r.before = run.before
    BY <1>1, <2>7 DEF RunRec
  <2>9. PICK t \in TabRec : t = Reset(tab)
    BY <1>1, ResetIs
  <2>10. t.rev = tab.rev + 1 /\ t.pin = {} /\ t.url = tab.url
    BY <1>1, <2>9, ResetIs
  <2>11. Source(r, t)
    BY <2>1, <2>6, <2>7, <2>9
  <2>12. OnePin(t) /\ FreshPin(t, w, waited)
    BY <2>10 DEF OnePin, FreshPin
  <2>13. r.wrote <= w /\ r.waited <= waited /\ r.before <= t.rev /\ tab.rev <= t.rev /\ t.rev # tab.rev
    BY <1>1, <1>2, <2>5, <2>8, <2>10
  <2>14. wrote' = w /\ Since(page, w, waited)
    BY <2>1, <2>3, <2>6
  <2> QED
    BY <1>1, <2>2, <2>3, <2>4, <2>10, <2>11, <2>12, <2>13, <2>14, SourceKeeps
<1> QED
  BY <1>3, <1>4, <1>5, <1>6, <1>7, <1>8

\* The answers that a wait or a hand-off ends on.
LEMMA WaitsKeep ==
  ASSUME TabInv, HearResumed \/ HearSatisfied \/ HearReread
  PROVE  TabInv'
<1>1. /\ tab \in TabRec /\ run \in RunRec /\ wrote \in Nat /\ waited \in Nat /\ tab.rev \in Nat
      /\ tab.rev <= tab.rev /\ refs \in SUBSET RefRec /\ queue \in Seq(CallRec)
      /\ OnePin(tab) /\ (open => FreshPin(tab, wrote, waited)) /\ Since(page, wrote, waited) /\ run.before <= tab.rev
  BY Now
<1>2. tab.pin \in SUBSET PinRec /\ \A q \in tab.pin : q.rev \in Nat /\ q.rev <= tab.rev
  BY <1>1, TabFields, PinFields DEF OnePin
<1>3. CASE HearResumed
  <2>1. /\ Hears("met") /\ tab' = Paused(tab) /\ wrote' = p0.bytes /\ Leave /\ UNCHANGED unheard
        /\ refs' = refs /\ astray' = astray /\ waited' = waited /\ answers' = answers
    BY <1>3 DEF HearResumed
  <2>2. /\ news' = Tail(news) /\ Left(Tail(news)) /\ queue # <<>> /\ p0.bytes \in Nat /\ Since(page, p0.bytes, waited)
        /\ \A k \in DOMAIN news : news[k].what # "nodes"
    BY <2>1, AnswerIs
  <2>3. page' = page /\ open' = open
    BY <2>1, UnheardIs
  <2>4. PICK t \in TabRec : t = Paused(tab)
    BY <1>1, PausedIs
  <2>5. t.rev = tab.rev + 1 /\ t.pin = tab.pin /\ t.url = tab.url
    BY <1>1, <2>4, PausedIs
  <2>6. OnePin(t)
    BY <1>1, <1>2, <2>5 DEF OnePin
  <2>7. FreshPin(t, p0.bytes, waited)
    BY <1>1, <1>2, <2>5 DEF FreshPin
  <2>8. tab.rev <= t.rev
    BY <1>1, <2>5
  <2> QED
    BY <1>1, <2>1, <2>2, <2>3, <2>4, <2>5, <2>6, <2>7, <2>8, LeavesQuietly
<1>4. CASE HearSatisfied
  <2> DEFINE pin == {q \in tab.pin : q.rev = tab.rev}
  <2>1. /\ Hears("met") /\ UNCHANGED unheard /\ tab' = tab
        /\ refs' = refs /\ astray' = astray /\ wrote' = wrote /\ answers' = answers
        /\ IF pin = {} \/ ~open THEN Leave /\ waited' = (IF open THEN p0.facts ELSE waited)
           ELSE run' = [run EXCEPT !.pc = "rereading", !.source = pin] /\ queue' = queue /\ waited' = waited
    BY <1>4 DEF HearSatisfied
  <2>2. /\ news' = Tail(news) /\ Left(Tail(news)) /\ queue # <<>> /\ p0.facts \in Nat /\ Since(page, wrote, p0.facts)
        /\ \A k \in DOMAIN news : news[k].what # "nodes"
    BY <2>1, AnswerIs
  <2>3. page' = page /\ open' = open
    BY <2>1, UnheardIs
  <2>4. CASE pin = {} \/ ~open
    <3>1. PICK f \in Nat : f = IF open THEN p0.facts ELSE waited
      BY <1>1, <2>2
    <3>2. Leave /\ waited' = f /\ Since(page, wrote, f)
      BY <1>1, <2>1, <2>2, <2>4, <3>1
    <3>3. open => FreshPin(tab, wrote, f)
      BY <2>4 DEF FreshPin
    <3> HIDE DEF pin
    <3> QED
      BY <1>1, <2>1, <2>2, <2>3, <3>1, <3>2, <3>3, LeavesQuietly
  <2>5. CASE pin # {} /\ open
    <3>1. run' = [run EXCEPT !.pc = "rereading", !.source = pin] /\ queue' = queue /\ waited' = waited
      BY <2>1, <2>5
    <3>2. pin \in SUBSET PinRec
      BY <1>2
    <3>3. /\ \A p, q \in pin : p = q
          /\ \A q \in tab.pin : q.rev = tab.rev => q \in pin
      BY <1>1 DEF OnePin
    <3> HIDE DEF pin
    <3>4. PICK r \in RunRec : r = [run EXCEPT !.pc = "rereading", !.source = pin]
      BY <1>1, <3>2 DEF RunRec, Pcs
    <3>5. r.pc = "rereading" /\ r.source = pin /\ r.before = run.before
      BY <1>1, <3>4 DEF RunRec
    <3>6. ~Extracting(r.pc) /\ r.pc \notin {"idle", "acting", "reading", "hydrating"}
      BY <3>5 DEF Extracting
    <3>7. RunOK'
      BY <2>1, <2>2, <3>1, <3>3, <3>4, <3>5, <3>6 DEF RunOK
    <3>8. AnswersOK' /\ answers' \in SUBSET AnswerRec
      BY <1>1, <2>1, <3>1, <3>4, <3>6, AnswersStand
    <3>9. RefsOK'
      BY <1>1, <2>1, <2>2, <2>3, <3>1, <3>4, <3>5, <3>6, RefsKept
    <3> QED
      BY <1>1, <2>1, <2>2, <2>3, <3>1, <3>4, <3>6, <3>7, <3>8, <3>9, Settles
  <2> QED
    BY <2>4, <2>5
<1>5. CASE HearReread
  <2>1. /\ Hears("page") /\ run.pc = "rereading" /\ UNCHANGED unheard /\ Leave /\ waited' = p0.facts
        /\ refs' = refs /\ astray' = astray /\ wrote' = wrote /\ answers' = answers
        /\ \E q \in run.source : tab' = IF p0.facts = q.facts THEN tab ELSE Refreshed(tab, p0)
    BY <1>5 DEF HearReread
  <2>2. /\ news' = Tail(news) /\ Left(Tail(news)) /\ queue # <<>> /\ p0 \in Version /\ p0.facts \in Nat
        /\ Since(p0, wrote, waited) /\ Since(page, wrote, p0.facts)
        /\ \A k \in DOMAIN news : news[k].what # "nodes"
    <3>1. Hears("page")
      BY <2>1
    <3> QED
      BY <3>1, AnswerIs
  <2>3. page' = page /\ open' = open
    BY <2>1, UnheardIs
  <2>4. PICK q \in run.source : tab' = IF p0.facts = q.facts THEN tab ELSE Refreshed(tab, p0)
    BY <2>1
  <2>5. CASE p0.facts = q.facts
    <3>1. \A p \in tab.pin : p.rev = tab.rev => p = q
      BY <2>1, <2>4 DEF TabInv, RunOK
    <3>2. open => FreshPin(tab, wrote, p0.facts)
      <4> SUFFICES ASSUME open, NEW p \in tab.pin, p.rev = tab.rev, ~tab.dirty PROVE Since(p, wrote, p0.facts)
        BY DEF FreshPin
      <4>1. Since(p, wrote, waited) /\ p.facts = p0.facts
        BY <1>1, <2>5, <3>1 DEF FreshPin
      <4> QED
        BY <2>2, <4>1 DEF Since
    <3>3. tab' = tab
      BY <2>4, <2>5
    <3> QED
      BY <1>1, <2>1, <2>2, <2>3, <3>2, <3>3, LeavesQuietly
  <2>6. CASE p0.facts # q.facts
    <3>1. PICK p \in Version : p = p0
      BY <2>2
    <3>2. PICK t \in TabRec : t = Refreshed(tab, p)
      BY <1>1, RefreshedIs
    <3>3. t.rev = tab.rev + 1 /\ t.url = tab.url /\ tab' = t
      BY <1>1, <2>4, <2>6, <3>1, <3>2, RefreshedIs
    <3>4. PICK x \in PinRec : x.rev = t.rev /\ x.bytes = p.bytes /\ x.facts = p.facts /\ t.pin = {x}
      BY <1>1, <3>2, <3>3, RefreshedIs
    <3>5. OnePin(t)
      BY <1>1, <3>3, <3>4 DEF OnePin
    <3>6. FreshPin(t, wrote, p0.facts)
      BY <2>2, <3>1, <3>4 DEF FreshPin, Since
    <3>7. tab.rev <= t.rev /\ t.rev # tab.rev
      BY <1>1, <3>3
    <3> QED
      BY <1>1, <2>1, <2>2, <2>3, <3>3, <3>5, <3>6, <3>7, LeavesQuietly
  <2> QED
    BY <2>5, <2>6
<1> QED
  BY <1>3, <1>4, <1>5
-----------------------------------------------------------------------------
(* The theorems *)

LEMMA TabInit == Init => TabInv
<1> SUFFICES ASSUME Init PROVE TabInv
  OBVIOUS
<1>1. /\ open = TRUE /\ news = <<>> /\ queue = <<>> /\ run = Idle /\ refs = {} /\ astray = {}
      /\ wrote = 1 /\ waited = 1 /\ answers = {}
      /\ page = [doc |-> 1, kind |-> "plain", shell |-> FALSE, facts |-> 1, bytes |-> 1, stamps |-> {}]
      /\ tab = [rev |-> 0, dirty |-> FALSE, pin |-> {}, url |-> Url(page)]
  BY DEF Init
<1>2. page \in Version /\ page.doc = 1 /\ page.bytes = 1 /\ page.facts = 1 /\ page.stamps = {}
  <2>1. "plain" \in PageKinds /\ FALSE \in BOOLEAN /\ {} \in SUBSET Nat /\ 1 \in Nat
    BY PageKindsAssumption
  <2>2. page \in Version
    BY <1>1, <2>1, Zenon DEF Version
  <2> QED
    BY <1>1, <2>2
<1>3. tab \in TabRec /\ tab.rev = 0 /\ tab.pin = {} /\ tab.url.doc = 1
  <2>1. PICK u \in UrlRec : u = Url(page) /\ u.doc = 1
    BY <1>2, UrlIs
  <2>2. FALSE \in BOOLEAN /\ {} \in SUBSET PinRec /\ 0 \in Nat
    OBVIOUS
  <2>3. tab = [rev |-> 0, dirty |-> FALSE, pin |-> {}, url |-> u]
    BY <1>1, <2>1
  <2>4. tab \in TabRec
    BY <2>2, <2>3, Zenon DEF TabRec
  <2> QED
    BY <2>1, <2>3, <2>4
<1>4. Idle \in RunRec /\ Idle.pc = "idle" /\ Idle.before = 0
  BY IdleIs
<1>5. news \in Seq(Message) /\ queue \in Seq(CallRec) /\ DOMAIN news = {} /\ open \in BOOLEAN
  BY <1>1
<1>6. TabTypes
  BY <1>1, <1>2, <1>3, <1>4, <1>5 DEF TabTypes
<1>7. NewsOK
  BY <1>1, <1>2, <1>5 DEF NewsOK, Since
<1>8. ChainOK
  BY <1>1, <1>2, <1>3, <1>5 DEF ChainOK
<1>9. PinsOK
  BY <1>3 DEF PinsOK, OnePin, FreshPin
<1>10. MovedOK
  BY <1>1, <1>3, <1>4 DEF MovedOK
<1>11. RunOK
  BY <1>1, <1>4 DEF RunOK, Extracting
<1>12. AnswersOK
  BY <1>1 DEF AnswersOK, SameRevisionSameBytes
<1>13. RefsOK
  BY <1>1, <1>2, <1>3, <1>4, <1>5 DEF RefsOK
<1> QED
  BY <1>6, <1>7, <1>8, <1>9, <1>10, <1>11, <1>12, <1>13 DEF TabInv

LEMMA TabStep == TabInv /\ [Next]_vars => TabInv'
<1> SUFFICES ASSUME TabInv, [Next]_vars PROVE TabInv'
  OBVIOUS
<1>1. CASE Chrome
  BY <1>1, ChromeStep
<1>2. CASE Start
  BY <1>2, StartStep
<1>3. CASE Hear
  BY <1>3, NavigatedKeeps, EndsKeep, ExtractionsKeep, WaitsKeep, NodesKeep DEF Hear
<1>4. CASE \E k \in Kinds : Enqueue(k)
  BY <1>4, EnqueueKeeps
<1>5. CASE \E i \in DOMAIN queue : Expires(i)
  BY <1>5, ExpiresKeeps
<1>6. CASE UNCHANGED vars
  BY <1>6 DEF vars, browserVars, histories, TabInv, TabTypes, NewsOK, ChainOK, PinsOK, MovedOK, RunOK, AnswersOK, RefsOK,
     SameRevisionSameBytes
<1> QED
  BY <1>1, <1>2, <1>3, <1>4, <1>5, <1>6 DEF Next

LEMMA TabAlways == Spec => []TabInv
<1>1. Init => TabInv
  BY TabInit
<1>2. TabInv /\ [Next]_vars => TabInv'
  BY TabStep
<1> QED
  BY <1>1, <1>2, PTL DEF Spec

\* Extractions answered with the same revision read one serialization, however
\* many commands, navigations and changes of the page interleave
\* (executors.ts resolveExtractionSource).
THEOREM SameRevisionSameBytesHolds == Spec => []SameRevisionSameBytes
<1>1. TabInv => SameRevisionSameBytes
  BY DEF TabInv, AnswersOK
<1> QED
  BY <1>1, TabAlways, PTL

\* No extraction answers from before the last action, navigation, hand-off or
\* destination change that succeeded.
THEOREM ReadsAfterWritesHolds == Spec => []ReadsAfterWrites
<1>1. TabInv => ReadsAfterWrites
  BY DEF TabInv, AnswersOK, ReadsAfterWrites
<1> QED
  BY <1>1, TabAlways, PTL

\* No extraction answers from before the last satisfied wait
\* (refreshExtractionPinAfterWait).
THEOREM ReadsAfterWaitsHolds == Spec => []ReadsAfterWaits
<1>1. TabInv => ReadsAfterWaits
  BY DEF TabInv, AnswersOK, ReadsAfterWaits
<1> QED
  BY <1>1, TabAlways, PTL

\* A reference never acts on another document than the one it was collected
\* from (snapshot.ts, actions.ts resolveRef).
THEOREM ActsOnWhatWasSeenHolds == Spec => []ActsOnWhatWasSeen
<1>1. TabInv => ActsOnWhatWasSeen
  BY DEF TabInv, RefsOK, ActsOnWhatWasSeen
<1> QED
  BY <1>1, TabAlways, PTL
=============================================================================
