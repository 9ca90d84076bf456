--------------------------- MODULE LiveViewProofs ---------------------------
(***************************************************************************)
(* Proofs about LiveView: type correctness, and that a page which asks     *)
(* because it was told of a change gets an answer that shows it, for any   *)
(* number of tabs, changes, requests and faults.                           *)
(***************************************************************************)
EXTENDS LiveView, DetailCacheProofs

-----------------------------------------------------------------------------
(* What the steps of LiveView do to the variables of DetailCache: a step of *)
(* DetailCache, a request for a list, or a socket that drops.               *)

AskList == \E r \in Reader : Ask(r, "list")

LoseSocket ==
  /\ faults < MaxFaults
  /\ faults' = faults + 1
  /\ UNCHANGED <<stored, call, online, cache, reader, evicted, missed>>

StoreStep == [CacheNext]_cacheVars \/ AskList \/ LoseSocket

\* A page asks for the query of its kind: one of the cached answers, or a list.
LEMMA AskIsStoreStep ==
  ASSUME NEW r \in Reader, NEW kind, Ask(r, QueryOf(kind))
  PROVE  StoreStep
<1>1. CASE kind \in CacheKey
  BY <1>1 DEF QueryOf, StoreStep, CacheNext
<1>2. CASE kind \notin CacheKey
  BY <1>2 DEF QueryOf, StoreStep, AskList
<1> QED  BY <1>1, <1>2

\* The request of a page is such a step.
LEMMA RequestIsStoreStep ==
  ASSUME NEW r \in Free, NEW p, NEW kind, NEW full, NEW told, Request(r, p, kind, full, told)
  PROVE  StoreStep
BY AskIsStoreStep DEF Request, Free

\* Every step of LiveView is a step of DetailCache, a request for a list, or a
\* socket that drops.
LEMMA LiveStepInStore ==
  ASSUME [LiveNext]_liveVars
  PROVE  StoreStep
<1>0. ASSUME UNCHANGED cacheVars PROVE StoreStep
  BY <1>0 DEF StoreStep
<1>1. ASSUME NEW c \in Change, NEW kind \in Kind, NEW p \in Page \cup {None},
             LiveBegin(c, kind, p)
      PROVE  StoreStep
  BY <1>1 DEF LiveBegin, StoreStep, CacheNext
<1>2. ASSUME NEW c \in Change, LiveHandler(c) \/ LiveEmit(c) PROVE StoreStep
  BY <1>2 DEF LiveHandler, LiveEmit, StoreStep, CacheNext
<1>3. ASSUME NEW c \in Change, ReceiveReply(c) PROVE StoreStep
  BY <1>3, <1>0, RequestIsStoreStep DEF ReceiveReply, NoRequest
<1>4. ASSUME NEW r \in Reader, LiveReader(r) \/ Receive(r) PROVE StoreStep
  BY <1>4 DEF LiveReader, Receive, StoreStep, CacheNext
<1>5. ASSUME NEW p \in Page, NEW kind \in PageKind, Open(p, kind) PROVE StoreStep
  BY <1>5, RequestIsStoreStep DEF Open
<1>6. ASSUME NEW p \in Page, Connect(p) PROVE StoreStep
  BY <1>6, <1>0, RequestIsStoreStep DEF Connect, NoRequest
<1>7. ASSUME NEW p \in Page, Join(p) \/ Leave(p) PROVE StoreStep
  BY <1>7, <1>0 DEF Join, Leave
<1>8. ASSUME NEW p \in Page, HandleEvent(p) PROVE StoreStep
  BY <1>8, <1>0, RequestIsStoreStep DEF HandleEvent, NoRequest
<1>9. ASSUME NEW p \in Page, Drop(p) PROVE StoreStep
  BY <1>9 DEF Drop, StoreStep, LoseSocket
<1>10. ASSUME NEW p \in Page, Refilter(p) PROVE StoreStep
  BY <1>10, RequestIsStoreStep DEF Refilter
<1>11. ASSUME NEW s \in Store, NEW key \in CacheKey, LiveExpire(s, key) PROVE StoreStep
  BY <1>11 DEF LiveExpire, StoreStep, CacheNext
<1>12. CASE LiveRedis \/ LiveCrash
  BY <1>12 DEF LiveRedis, LiveCrash, StoreStep, CacheNext
<1>13. CASE UNCHANGED liveVars
  BY <1>13, <1>0 DEF liveVars
<1> QED
  BY <1>1, <1>2, <1>3, <1>4, <1>5, <1>6, <1>7, <1>8, <1>9, <1>10, <1>11, <1>12, <1>13
  DEF LiveNext, PageStep

\* A request for a list and a dropped socket keep the stores well typed.
LEMMA StoreTypeNext == CacheTypeOK /\ StoreStep => CacheTypeOK'
<1> SUFFICES ASSUME CacheTypeOK, StoreStep PROVE CacheTypeOK'
  OBVIOUS
<1>1. CASE [CacheNext]_cacheVars
  BY <1>1, CacheTypeNext
<1>2. ASSUME NEW r \in Reader, Ask(r, "list") PROVE CacheTypeOK'
  <2>1. [Idle EXCEPT !.step = "lookup", !.query = "list"] \in Reading
    BY DEF Idle, Reading, Query
  <2> QED  BY <1>2, <2>1 DEF Ask, CacheTypeOK
<1>3. CASE LoseSocket
  <2>1. faults' \in 0..MaxFaults
    BY <1>3, FaultAssumption DEF LoseSocket, CacheTypeOK
  <2> QED  BY <1>3, <2>1 DEF LoseSocket, CacheTypeOK
<1> QED  BY <1>1, <1>2, <1>3 DEF StoreStep, AskList

\* Neither of the two steps that are new breaks the invariant of the cache.
LEMMA StoreInvNext == CacheTypeOK /\ CacheInv /\ StoreStep => CacheInv'
<1> SUFFICES ASSUME CacheTypeOK, CacheInv, StoreStep PROVE CacheInv'
  OBVIOUS
<1>1. CASE [CacheNext]_cacheVars
  BY <1>1, CacheInvNext
<1>2. CASE AskList \/ LoseSocket
  <2>1. UNCHANGED <<stored, call, online, cache, evicted, missed>>
    BY <1>2 DEF AskList, Ask, LoseSocket
  <2>2. EvictedPast' /\ EvictionSticks'
    BY <2>1 DEF CacheInv, EvictedPast, PastEviction, Begun, Steps, EvictionSticks, WritesOf
  <2>3. ASSUME NEW r \in Reader, reader'[r].step = "reading"
        PROVE  reader'[r] = reader[r]
    BY <1>2, <2>3 DEF AskList, Ask, LoseSocket, CacheTypeOK, Idle
  <2>4. ReadsWhole'
    BY <2>1, <2>3 DEF CacheInv, ReadsWhole, ReadSo, WritesOf
  <2> QED  BY <2>2, <2>4 DEF CacheInv
<1> QED  BY <1>1, <1>2 DEF StoreStep

\* A change keeps its kind, and never goes back.
LEMMA StoreNeverBack ==
  ASSUME CacheTypeOK, StoreStep, NEW d \in Change, Begun(d)
  PROVE  /\ call'[d].kind = call[d].kind
         /\ call'[d].at \in Nat
         /\ call'[d].at >= call[d].at
<1>1. CASE [CacheNext]_cacheVars
  BY <1>1, NeverBack
<1>2. CASE AskList \/ LoseSocket
  <2>1. call' = call
    BY <1>2 DEF AskList, Ask, LoseSocket
  <2> QED  BY <2>1 DEF CacheTypeOK, Position
<1> QED  BY <1>1, <1>2 DEF StoreStep

-----------------------------------------------------------------------------
(* Type correctness.  LiveTypeOK is not inductive: who handles an event must *)
(* know that the inbox is a sequence of messages, and who gets an answer     *)
(* that an open page has asked.                                              *)

PlanEvent == {Plan[kind][n].event : kind \in DOMAIN Plan, n \in Nat}
Message   == [change : Change, event : PlanEvent]
PageView  == [kind : PageKind \cup {None}, loaded : BOOLEAN, shows : SUBSET Write,
              told : SUBSET Change]
Asked     == [page : Page, full : BOOLEAN, after : SUBSET Change]

Shapes ==
  /\ link \in [Page -> {"new", "up", "down"}]
  /\ leaving \subseteq joining /\ joining \subseteq Page /\ room \subseteq Page
  /\ inbox \in [Page -> Seq(Message)]
  /\ view \in [Page -> PageView]
  /\ author \in [Change -> Page \cup {None}]
  /\ replied \subseteq Change
  /\ watched \subseteq Change \X Page

\* Only an open page on a connected socket is in its room, or on its way there.
RoomsOpen == \A p \in joining \cup room : link[p] = "up" /\ IsOpen(p)

\* Events tell of changes that have begun.
EventsBegun == \A p \in Page : \A n \in DOMAIN inbox[p] : Begun(inbox[p][n].change)

\* A request under way was asked by an open page.
Fetching ==
  \A r \in Reader :
    IF reader[r].step = "idle" THEN fetch[r] = NoFetch
    ELSE fetch[r] \in Asked /\ IsOpen(fetch[r].page)

Fetches == fetch \in [Reader -> Asked \cup {NoFetch}] /\ Fetching

\* Who has made a change has its detail page open.
Authors ==
  \A c \in Change : author[c] # None =>
    Begun(c) /\ call[c].kind \in MadeOnDetail /\ view[author[c]].kind = "detail"

\* A tab without a page has heard of nothing.
ClosedHearNothing ==
  \A p \in Page : ~IsOpen(p) => inbox[p] = <<>> /\ view[p].told = {}

LiveType ==
  CacheTypeOK /\ Shapes /\ RoomsOpen /\ EventsBegun /\ Fetches /\ Authors /\ ClosedHearNothing

\* The invariant implies what the runs check.
LEMMA LiveTypeImplied == LiveType => LiveTypeOK
<1> SUFFICES ASSUME LiveType PROVE LiveTypeOK
  OBVIOUS
<1>1. \A r \in Reader : (reader[r].step = "idle") <=> (fetch[r] = NoFetch)
  <2> SUFFICES ASSUME NEW r \in Reader, fetch[r] \in Asked PROVE fetch[r] # NoFetch
    BY DEF LiveType, Fetches, Fetching
  <2>1. fetch[r].page \in Page /\ NoFetch.page = None
    BY DEF Asked, NoFetch
  <2> QED  BY <2>1, PageAssumption
<1>2. \A p \in Page : \A n \in DOMAIN inbox[p] : inbox[p][n].change \in Change
  <2> SUFFICES ASSUME NEW p \in Page, NEW n \in DOMAIN inbox[p]
               PROVE  inbox[p][n].change \in Change
    OBVIOUS
  <2>1. inbox[p] \in Seq(Message)
    BY DEF LiveType, Shapes
  <2>2. inbox[p][n] \in Message
    BY <2>1
  <2> QED  BY <2>2 DEF Message
<1> QED
  BY <1>1, <1>2 DEF LiveType, LiveTypeOK, Shapes, RoomsOpen, EventsBegun, PageView

\* No tab has a page open, a connection or a request at first.
LEMMA LiveTypeInit == LiveInit => LiveType
<1> SUFFICES ASSUME LiveInit PROVE LiveType
  OBVIOUS
<1>1. CacheTypeOK
  BY CacheTypeInit DEF LiveInit
<1>2. Closed \in PageView
  BY DEF Closed, PageView
<1>3. <<>> \in Seq(Message) /\ DOMAIN <<>> = {}
  OBVIOUS
<1>4. Shapes
  BY <1>2, <1>3 DEF LiveInit, Shapes
<1>5. RoomsOpen /\ EventsBegun
  BY <1>3 DEF LiveInit, RoomsOpen, EventsBegun
<1>6. Fetches
  BY DEF LiveInit, CacheInit, Fetches, Fetching, Idle
<1>7. Authors /\ ClosedHearNothing
  BY DEF LiveInit, Authors, ClosedHearNothing, Closed
<1> QED  BY <1>1, <1>4, <1>5, <1>6, <1>7 DEF LiveType

\* The part of the detail that an event brings up to date is a write.
LEMMA EventWrite == ASSUME NEW c \in Change, NEW e PROVE <<c, PartOf(e)>> \in Write
  BY DEF PartOf, Write, Part

\* What a page shows after an event: more, of the same kind.
LEMMA EventView ==
  ASSUME Shapes, NEW p \in Page, HandleEvent(p)
  PROVE  /\ Head(inbox[p]) \in Message
         /\ view' \in [Page -> PageView]
         /\ \A q \in Page : /\ view'[q].kind = view[q].kind
                            /\ view'[q].loaded = view[q].loaded
                            /\ q # p => view'[q].told = view[q].told
         /\ view'[p].told = view[p].told \cup
              (IF call[Head(inbox[p]).change].kind \in TellsEarly THEN {}
               ELSE {Head(inbox[p]).change})
<1> DEFINE m == Head(inbox[p])
           w == <<m.change, PartOf(m.event)>>
           added == [view EXCEPT ![p].shows = @ \cup {w}]
           told == view[p].told \cup
                     (IF call[m.change].kind \in TellsEarly THEN {} ELSE {m.change})
<1>1. inbox[p] \in Seq(Message) /\ inbox[p] # <<>>
  BY DEF Shapes, HandleEvent
<1>2. m \in Message
  BY <1>1
<1>3. w \in Write /\ m.change \in Change
  BY <1>2, EventWrite DEF Message
<1>4. view \in [Page -> PageView]
  BY DEF Shapes
<1>5. /\ added \in [Page -> PageView]
      /\ \A q \in Page : /\ added[q].kind = view[q].kind
                         /\ added[q].loaded = view[q].loaded
                         /\ added[q].told = view[q].told
  <2> HIDE DEF w
  <2>1. [view[p] EXCEPT !.shows = @ \cup {w}] \in PageView
    BY <1>3, <1>4 DEF PageView
  <2> QED  BY <1>4, <2>1 DEF PageView
<1>6. told \in SUBSET Change
  BY <1>3, <1>4 DEF PageView
<1>7. PICK base \in {view, added} : view' = [base EXCEPT ![p].told = told]
  BY DEF HandleEvent
<1>8. /\ base \in [Page -> PageView]
      /\ \A q \in Page : /\ base[q].kind = view[q].kind
                         /\ base[q].loaded = view[q].loaded
                         /\ base[q].told = view[q].told
  BY <1>4, <1>5
<1> HIDE DEF told, m
<1>9. [base[p] EXCEPT !.told = told] \in PageView
  BY <1>6, <1>8 DEF PageView
<1>10. /\ view' \in [Page -> PageView]
       /\ \A q \in Page : q # p => view'[q] = base[q]
       /\ view'[p] = [base[p] EXCEPT !.told = told]
  BY <1>7, <1>8, <1>9
<1>11. /\ view'[p].kind = base[p].kind /\ view'[p].loaded = base[p].loaded
       /\ view'[p].told = told
  BY <1>8, <1>10 DEF PageView
<1>12. ASSUME NEW q \in Page
       PROVE  /\ view'[q].kind = view[q].kind
              /\ view'[q].loaded = view[q].loaded
              /\ q # p => view'[q].told = view[q].told
  <2>1. CASE q = p
    BY <1>8, <1>11, <2>1
  <2>2. CASE q # p
    BY <1>8, <1>10, <2>2
  <2> QED  BY <2>1, <2>2
<1>13. view'[p].told = view[p].told \cup (IF call[m.change].kind \in TellsEarly THEN {}
                                         ELSE {m.change})
  BY <1>11 DEF told
<1> QED  BY <1>2, <1>10, <1>12, <1>13 DEF m

\* What the author's page shows after the answer: more, or what it showed.
LEMMA ReplyView ==
  ASSUME CacheTypeOK, Shapes, NEW c \in Change, ReceiveReply(c)
  PROVE  /\ author[c] \in Page
         /\ view' \in [Page -> PageView]
         /\ \A q \in Page : /\ view'[q].kind = view[q].kind
                            /\ view'[q].loaded = view[q].loaded
                            /\ q # author[c] => view'[q] = view[q]
         /\ view'[author[c]].told = view[author[c]].told \cup
              (IF call[c].kind \in TellsEarly THEN {} ELSE {c})
<1> DEFINE kind == call[c].kind
           told == view[author[c]].told \cup (IF kind \in TellsEarly THEN {} ELSE {c})
<1>1. PICK p \in Page : p = author[c]
  BY DEF Shapes, ReceiveReply
<1> DEFINE shown == [view EXCEPT ![p].shows = @ \cup WritesOf(c)]
<1>2. WritesOf(c) \subseteq Write
  BY DEF WritesOf, CacheTypeOK
<1>3. view \in [Page -> PageView]
  BY DEF Shapes
<1>4. told \in SUBSET Change
  BY <1>1, <1>3 DEF PageView
<1>5. PICK base \in {view, shown} : view' = [base EXCEPT ![p].told = told]
  BY <1>1 DEF ReceiveReply
<1> HIDE DEF told, kind
<1>6. /\ base \in [Page -> PageView]
      /\ \A q \in Page : /\ base[q].kind = view[q].kind
                         /\ base[q].loaded = view[q].loaded
                         /\ q # p => base[q] = view[q]
  <2>1. CASE base = view
    BY <1>3, <2>1
  <2>2. CASE base = shown
    <3>1. [view[p] EXCEPT !.shows = @ \cup WritesOf(c)] \in PageView
      BY <1>2, <1>3 DEF PageView
    <3> QED  BY <1>3, <2>2, <3>1 DEF PageView
  <2> QED  BY <1>5, <2>1, <2>2
<1>7. [base[p] EXCEPT !.told = told] \in PageView
  BY <1>4, <1>6 DEF PageView
<1>8. /\ view' \in [Page -> PageView]
      /\ \A q \in Page : q # p => view'[q] = base[q]
      /\ view'[p] = [base[p] EXCEPT !.told = told]
  BY <1>5, <1>6, <1>7
<1>9. /\ view'[p].kind = base[p].kind /\ view'[p].loaded = base[p].loaded
      /\ view'[p].told = told
  BY <1>6, <1>8 DEF PageView
<1>10. ASSUME NEW q \in Page
       PROVE  /\ view'[q].kind = view[q].kind
              /\ view'[q].loaded = view[q].loaded
              /\ q # p => view'[q] = view[q]
  <2>1. CASE q = p
    BY <1>6, <1>9, <2>1
  <2>2. CASE q # p
    BY <1>6, <1>8, <2>2
  <2> QED  BY <2>1, <2>2
<1>12. view'[p].told = view[author[c]].told \cup (IF call[c].kind \in TellsEarly THEN {} ELSE {c})
  BY <1>9 DEF told, kind
<1> QED  BY <1>1, <1>8, <1>10, <1>12

\* The steps that change what pages show.
LEMMA ViewSteps ==
  ASSUME [LiveNext]_liveVars
  PROVE  \/ \E p \in Page, kind \in PageKind : Open(p, kind)
         \/ \E r \in Reader : Receive(r)
         \/ \E p \in Page : HandleEvent(p)
         \/ \E c \in Change : ReceiveReply(c)
         \/ UNCHANGED view
BY DEF LiveNext, LiveBegin, LiveHandler, LiveEmit, LiveReader, PageStep, Connect, Join, Leave,
       Drop, Refilter, LiveExpire, LiveRedis, LiveCrash, clientVars, liveVars

\* A page opens: nothing but its kind is set.
LEMMA OpenView ==
  ASSUME Shapes, NEW p \in Page, NEW kind \in PageKind, Open(p, kind)
  PROVE  /\ view' \in [Page -> PageView]
         /\ view'[p].kind = kind /\ ~IsOpen(p)
         /\ \A q \in Page : q # p => view'[q] = view[q]
         /\ \A q \in Page : /\ view'[q].told = view[q].told
                            /\ view'[q].loaded = view[q].loaded
<1>1. view \in [Page -> PageView] /\ view' = [view EXCEPT ![p].kind = kind]
  BY DEF Shapes, Open
<1>2. [view[p] EXCEPT !.kind = kind] \in PageView
  BY <1>1 DEF PageView
<1> QED  BY <1>1, <1>2 DEF PageView, Open

\* An answer arrives: the page that asked is loaded, or as it was.
LEMMA ReceiveView ==
  ASSUME CacheTypeOK, Shapes, Fetches, NEW r \in Reader, Receive(r)
  PROVE  /\ fetch[r] \in Asked /\ IsOpen(fetch[r].page)
         /\ view' \in [Page -> PageView]
         /\ \A q \in Page : /\ view'[q].kind = view[q].kind
                            /\ view'[q].told = view[q].told
<1>1. fetch[r] \in Asked /\ IsOpen(fetch[r].page)
  BY DEF Fetches, Fetching, Receive, Answer
<1>2. PICK p \in Page : p = fetch[r].page
  BY <1>1 DEF Asked
<1>3. view \in [Page -> PageView]
  BY DEF Shapes
<1>4. CASE UNCHANGED view
  BY <1>1, <1>3, <1>4
<1>5. CASE view' = [view EXCEPT ![p].loaded = TRUE, ![p].shows = reader[r].shows]
  <2>1. PICK shows \in SUBSET Write : shows = reader[r].shows
    BY DEF CacheTypeOK, Reading
  <2>2. view' = [q \in Page |-> IF q = p
                   THEN [view[p] EXCEPT !.loaded = TRUE, !.shows = shows]
                   ELSE view[q]]
    BY <1>3, <1>5, <2>1
  <2>3. [view[p] EXCEPT !.loaded = TRUE, !.shows = shows] \in PageView
    BY <1>3 DEF PageView
  <2>4. view' \in [Page -> PageView]
    BY <1>3, <2>2, <2>3
  <2>5. view'[p] = [view[p] EXCEPT !.loaded = TRUE, !.shows = shows]
    BY <2>2
  <2>6. view'[p].kind = view[p].kind /\ view'[p].told = view[p].told
    BY <1>3, <2>5 DEF PageView
  <2>7. \A q \in Page : q # p => view'[q] = view[q]
    BY <2>2
  <2> QED  BY <1>1, <2>4, <2>6, <2>7
<1> QED  BY <1>2, <1>4, <1>5 DEF Receive

\* A tab keeps the page that is open in it.
LEMMA PageStays ==
  ASSUME LiveType, [LiveNext]_liveVars, NEW p \in Page, IsOpen(p)
  PROVE  view'[p].kind = view[p].kind
<1> USE DEF LiveType
<1>1. ASSUME NEW q \in Page, NEW kind \in PageKind, Open(q, kind)
      PROVE  view'[p].kind = view[p].kind
  BY <1>1, OpenView
<1>2. ASSUME NEW r \in Reader, Receive(r) PROVE view'[p].kind = view[p].kind
  BY <1>2, ReceiveView
<1>3. ASSUME NEW q \in Page, HandleEvent(q) PROVE view'[p].kind = view[p].kind
  BY <1>3, EventView
<1>4. ASSUME NEW c \in Change, ReceiveReply(c) PROVE view'[p].kind = view[p].kind
  BY <1>4, ReplyView
<1> QED  BY <1>1, <1>2, <1>3, <1>4, ViewSteps

\* The steps that send or take events.
LEMMA InboxSteps ==
  ASSUME [LiveNext]_liveVars
  PROVE  \/ \E c \in Change : LiveEmit(c)
         \/ \E p \in Page : HandleEvent(p)
         \/ \E p \in Page : inbox' = [inbox EXCEPT ![p] = <<>>]
         \/ inbox' = [p \in Page |-> <<>>]
         \/ UNCHANGED inbox
BY DEF LiveNext, LiveBegin, LiveHandler, LiveReader, PageStep, Connect, Join, Leave, Drop,
       ReceiveReply, Refilter, LiveExpire, LiveRedis, LiveCrash, clientVars, liveVars, Open, Receive

\* What a handler sends is a message about its change.
LEMMA EmitMessage ==
  ASSUME CacheTypeOK, NEW c \in Change, LiveEmit(c)
  PROVE  [change |-> c, event |-> NextStep(c).event] \in Message
<1>1. call[c].kind \in DOMAIN Plan /\ call[c].at \in Nat
  BY KindAssumption DEF CacheTypeOK, Position, LiveEmit, EmitEvent, AtStep, Running, Begun
<1>2. NextStep(c).event \in PlanEvent
  BY <1>1 DEF NextStep, Steps, PlanEvent
<1> QED  BY <1>2 DEF Message

\* An event arrives at the end of the inbox of each page it reaches.
LEMMA EmitInbox ==
  ASSUME CacheTypeOK, Shapes, NEW c \in Change, LiveEmit(c), NEW p \in Page
  PROVE  \/ inbox'[p] = inbox[p]
         \/ /\ p \in room
            /\ Reaches(p, NextStep(c).event, NextStep(c).this)
            /\ inbox'[p] = Append(inbox[p], [change |-> c, event |-> NextStep(c).event])
BY DEF LiveEmit

\* Every step leaves each inbox a sequence of messages.
LEMMA InboxShape ==
  ASSUME CacheTypeOK, Shapes, [LiveNext]_liveVars
  PROVE  inbox' \in [Page -> Seq(Message)]
<1>1. inbox \in [Page -> Seq(Message)]
  BY DEF Shapes
<1>2. ASSUME NEW c \in Change, LiveEmit(c) PROVE inbox' \in [Page -> Seq(Message)]
  <2>1. ASSUME NEW p \in Page PROVE inbox'[p] \in Seq(Message)
    <3> DEFINE m == [change |-> c, event |-> NextStep(c).event]
    <3>1. m \in Message
      BY <1>2, EmitMessage
    <3>2. inbox'[p] = inbox[p] \/ inbox'[p] = Append(inbox[p], m)
      BY <1>2, EmitInbox
    <3>3. inbox[p] \in Seq(Message)
      BY <1>1
    <3> HIDE DEF m
    <3> QED  BY <3>1, <3>2, <3>3
  <2>2. inbox' = [p \in Page |-> inbox'[p]]
    BY <1>2 DEF LiveEmit
  <2> QED  BY <2>1, <2>2
<1>3. ASSUME NEW p \in Page, HandleEvent(p) PROVE inbox' \in [Page -> Seq(Message)]
  <2>1. Tail(inbox[p]) \in Seq(Message)
    BY <1>1, <1>3 DEF HandleEvent
  <2> QED  BY <1>1, <1>3, <2>1 DEF HandleEvent
<1>4. <<>> \in Seq(Message)
  OBVIOUS
<1> QED  BY <1>1, <1>2, <1>3, <1>4, InboxSteps

\* Every step keeps the variables of the pages well formed.
LEMMA ShapesNext ==
  ASSUME LiveType, [LiveNext]_liveVars
  PROVE  Shapes'
<1> USE DEF LiveType
<1>1. inbox' \in [Page -> Seq(Message)]
  BY InboxShape
<1>2. view' \in [Page -> PageView]
  <2>1. CASE UNCHANGED view
    BY <2>1 DEF Shapes
  <2>2. ASSUME NEW p \in Page, NEW kind \in PageKind, Open(p, kind)
        PROVE  view' \in [Page -> PageView]
    BY <2>2, OpenView
  <2>3. ASSUME NEW r \in Reader, Receive(r) PROVE view' \in [Page -> PageView]
    BY <2>3, ReceiveView
  <2>4. ASSUME NEW p \in Page, HandleEvent(p) PROVE view' \in [Page -> PageView]
    BY <2>4, EventView
  <2>5. ASSUME NEW c \in Change, ReceiveReply(c) PROVE view' \in [Page -> PageView]
    BY <2>5, ReplyView
  <2> QED  BY <2>1, <2>2, <2>3, <2>4, <2>5, ViewSteps
<1>3. /\ link \in [Page -> {"new", "up", "down"}]
      /\ leaving \subseteq joining /\ joining \subseteq Page /\ room \subseteq Page
      /\ author \in [Change -> Page \cup {None}]
      /\ replied \subseteq Change
      /\ watched \subseteq Change \X Page
  BY DEF Shapes
<1>4. link' \in [Page -> {"new", "up", "down"}]
  <2>1. ASSUME NEW p \in Page, Connect(p) \/ Drop(p)
        PROVE  link' \in [Page -> {"new", "up", "down"}]
    BY <1>3, <2>1 DEF Connect, Drop
  <2>2. CASE LiveCrash
    BY <1>3, <2>2 DEF LiveCrash
  <2>3. CASE UNCHANGED link
    BY <1>3, <2>3
  <2> QED
    BY <2>1, <2>2, <2>3
    DEF LiveNext, LiveBegin, LiveHandler, LiveEmit, LiveReader, PageStep, Join, Leave, HandleEvent,
        ReceiveReply, Refilter, LiveExpire, LiveRedis, clientVars, liveVars, Open, Receive
<1>5. joining' \subseteq Page
  <2>1. ASSUME NEW r \in Reader, Receive(r) PROVE joining' \subseteq Page
    <3>1. fetch[r].page \in Page
      BY <2>1, ReceiveView DEF Asked
    <3> QED  BY <1>3, <2>1, <3>1 DEF Receive
  <2>2. ASSUME NEW p \in Page, \/ \E kind \in PageKind : Open(p, kind)
                               \/ Refilter(p) \/ Drop(p) \/ Join(p)
        PROVE  joining' \subseteq Page
    BY <1>3, <2>2 DEF Open, Refilter, Drop, Join
  <2>3. CASE LiveCrash
    BY <2>3 DEF LiveCrash
  <2>4. CASE UNCHANGED joining
    BY <1>3, <2>4
  <2> QED
    BY <2>1, <2>2, <2>3, <2>4
    DEF LiveNext, LiveBegin, LiveHandler, LiveEmit, LiveReader, PageStep, Connect, Leave,
        HandleEvent, ReceiveReply, LiveExpire, LiveRedis, clientVars, liveVars
<1>10. leaving' \subseteq joining'
  <2>1. ASSUME NEW r \in Reader, Receive(r) PROVE leaving' \subseteq joining'
    BY <1>3, <2>1 DEF Receive
  <2>2. ASSUME NEW p \in Page, \/ \E kind \in PageKind : Open(p, kind)
                               \/ Refilter(p) \/ Drop(p) \/ Join(p) \/ Leave(p)
        PROVE  leaving' \subseteq joining'
    BY <1>3, <2>2 DEF Open, Refilter, Drop, Join, Leave
  <2>3. CASE LiveCrash
    BY <2>3 DEF LiveCrash
  <2>4. CASE UNCHANGED <<leaving, joining>>
    BY <1>3, <2>4
  <2> QED
    BY <2>1, <2>2, <2>3, <2>4
    DEF LiveNext, LiveBegin, LiveHandler, LiveEmit, LiveReader, PageStep, Connect,
        HandleEvent, ReceiveReply, LiveExpire, LiveRedis, clientVars, liveVars
<1>6. room' \subseteq Page
  BY <1>3 DEF LiveNext, LiveBegin, LiveHandler, LiveEmit, LiveReader, PageStep, Connect, Join,
              Leave, Drop, RoomWithout, HandleEvent, ReceiveReply, Refilter, LiveExpire, LiveRedis,
              LiveCrash, clientVars, liveVars, Open, Receive
<1>7. author' \in [Change -> Page \cup {None}]
  BY <1>3 DEF LiveNext, LiveBegin, LiveHandler, LiveEmit, LiveReader, PageStep, Connect, Join,
              Leave, Drop, HandleEvent, ReceiveReply, Refilter, LiveExpire, LiveRedis,
              LiveCrash, clientVars, liveVars, Open, Receive
<1>8. replied' \subseteq Change
  BY <1>3 DEF LiveNext, LiveBegin, LiveHandler, LiveEmit, LiveReader, PageStep, Connect, Join,
              Leave, Drop, HandleEvent, ReceiveReply, Refilter, LiveExpire, LiveRedis,
              LiveCrash, clientVars, liveVars, Open, Receive
<1>9. watched' \subseteq Change \X Page
  <2>1. ASSUME NEW c \in Change, NEW kind \in Kind, NEW p \in Page \cup {None},
               LiveBegin(c, kind, p)
        PROVE  watched' \subseteq Change \X Page
    <3>1. watched' \in {{c} \X room, {}}
      BY <2>1 DEF LiveBegin
    <3> QED  BY <1>3, <3>1
  <2>2. CASE watched' = {} \/ UNCHANGED watched
    BY <1>3, <2>2
  <2> QED
    BY <2>1, <2>2
    DEF LiveNext, LiveHandler, LiveEmit, LiveReader, PageStep, Connect, Join, Leave, Disturb,
        Drop, HandleEvent, ReceiveReply, Refilter, LiveExpire, LiveRedis,
        LiveCrash, clientVars, liveVars, Open, Receive
<1> QED  BY <1>1, <1>2, <1>4, <1>5, <1>6, <1>7, <1>8, <1>9, <1>10 DEF Shapes

\* A page joins only while it is open and connected, and leaves when it drops.
LEMMA RoomsOpenNext ==
  ASSUME LiveType, [LiveNext]_liveVars
  PROVE  RoomsOpen'
<1> SUFFICES ASSUME NEW p \in Page, p \in joining' \cup room'
             PROVE  link'[p] = "up" /\ IsOpen(p)'
  BY ShapesNext DEF RoomsOpen, Shapes
<1> USE DEF LiveType
<1>1. link \in [Page -> {"new", "up", "down"}] /\ joining \subseteq Page /\ room \subseteq Page
  BY DEF Shapes
<1>2. IsOpen(p) => IsOpen(p)'
  BY PageStays DEF IsOpen
<1>3. p \in joining \cup room => link[p] = "up" /\ IsOpen(p)
  BY DEF RoomsOpen
\* Most steps leave sockets and rooms alone.
<1>4. CASE UNCHANGED link /\ joining' \cup room' \subseteq joining \cup room
  BY <1>2, <1>3, <1>4
<1>5. ASSUME NEW q \in Page, NEW kind \in PageKind, Open(q, kind)
      PROVE  link'[p] = "up" /\ IsOpen(p)'
  <2>1. p \in joining \cup room \/ (p = q /\ link[q] = "up")
    BY <1>5 DEF Open
  <2>2. p = q => IsOpen(p)'
    BY <1>5, OpenView, PageAssumption DEF IsOpen
  <2> QED  BY <1>2, <1>3, <1>5, <2>1, <2>2 DEF Open
<1>6. ASSUME NEW r \in Reader, Receive(r) PROVE link'[p] = "up" /\ IsOpen(p)'
  <2>1. p \in joining \cup room \/ (p = fetch[r].page /\ link[p] = "up")
    BY <1>6 DEF Receive
  <2> QED  BY <1>2, <1>3, <1>6, <2>1, ReceiveView DEF Receive
<1>7. ASSUME NEW q \in Page, Refilter(q) PROVE link'[p] = "up" /\ IsOpen(p)'
  <2>1. p \in joining \cup room \/ (p = q /\ link[q] = "up")
    BY <1>7 DEF Refilter
  <2>2. IsOpen(q)
    BY <1>7, PageAssumption DEF Refilter, IsOpen
  <2> QED  BY <1>2, <1>3, <1>7, <2>1, <2>2 DEF Refilter
<1>8. ASSUME NEW q \in Page, Connect(q) PROVE link'[p] = "up" /\ IsOpen(p)'
  <2>1. p \in joining \cup room
    BY <1>8 DEF Connect
  <2>2. link'[p] = "up"
    BY <1>1, <1>3, <1>8, <2>1 DEF Connect
  <2> QED  BY <1>2, <1>3, <2>1, <2>2
<1>9. ASSUME NEW q \in Page, Drop(q) PROVE link'[p] = "up" /\ IsOpen(p)'
  <2>1. p \in joining \cup room /\ p # q
    BY <1>9 DEF Drop, RoomWithout
  <2>2. link'[p] = link[p]
    BY <1>1, <1>9, <2>1 DEF Drop
  <2> QED  BY <1>2, <1>3, <2>1, <2>2
<1>10. ASSUME NEW q \in Page, Join(q) \/ Leave(q) PROVE link'[p] = "up" /\ IsOpen(p)'
  BY <1>4, <1>10 DEF Join, Leave, RoomWithout
<1>11. CASE LiveCrash
  BY <1>11 DEF LiveCrash
<1> QED
  BY <1>4, <1>5, <1>6, <1>7, <1>8, <1>9, <1>10, <1>11
  DEF LiveNext, LiveBegin, LiveHandler, LiveEmit, LiveReader, PageStep, HandleEvent,
      ReceiveReply, LiveExpire, LiveRedis, clientVars, liveVars

\* Who makes a change has its detail page open, and it stays open.
LEMMA AuthorsNext ==
  ASSUME LiveType, [LiveNext]_liveVars
  PROVE  Authors'
<1> SUFFICES ASSUME NEW c \in Change, author'[c] # None
             PROVE  /\ Begun(c)' /\ call'[c].kind \in MadeOnDetail
                    /\ view'[author'[c]].kind = "detail"
  BY DEF Authors
<1> USE DEF LiveType
<1>1. CASE author'[c] = author[c]
  <2>1. Begun(c) /\ call[c].kind \in MadeOnDetail /\ view[author[c]].kind = "detail"
    BY <1>1 DEF Authors
  <2>2. call'[c].kind = call[c].kind
    BY <2>1, StoreNeverBack, LiveStepInStore
  <2>3. author[c] \in Page /\ IsOpen(author[c])
    BY <1>1, <2>1, PageAssumption DEF Shapes, IsOpen
  <2> QED  BY <1>1, <2>1, <2>2, <2>3, PageStays DEF Begun
<1>2. ASSUME NEW d \in Change, NEW kind \in Kind, NEW p \in Page \cup {None},
             LiveBegin(d, kind, p), author'[c] # author[c]
      PROVE  /\ Begun(c)' /\ call'[c].kind \in MadeOnDetail
             /\ view'[author'[c]].kind = "detail"
  <2>1. c = d /\ author'[c] = p
    BY <1>2 DEF LiveBegin, Shapes
  <2>2. call'[c].kind = kind
    BY <1>2, <2>1 DEF LiveBegin, Begin, CacheTypeOK, Position
  <2>3. kind # None
    BY NoneAssumption
  <2>4. kind \in MadeOnDetail /\ view[p].kind = "detail" /\ view' = view
    BY <1>2, <2>1 DEF LiveBegin
  <2> QED  BY <2>1, <2>2, <2>3, <2>4 DEF Begun
<1> QED
  BY <1>1, <1>2
  DEF LiveNext, LiveHandler, LiveEmit, LiveReader, PageStep, Connect, Join, Leave,
      Drop, HandleEvent, ReceiveReply, Refilter, LiveExpire, LiveRedis,
      LiveCrash, clientVars, liveVars, Open, Receive

\* An element of an inbox was there, or its change emits it now.
LEMMA InboxFrom ==
  ASSUME LiveType, [LiveNext]_liveVars, NEW p \in Page, NEW n \in DOMAIN inbox'[p]
  PROVE  \/ \E k \in DOMAIN inbox[p] : inbox'[p][n] = inbox[p][k]
         \/ \E c \in Change : /\ LiveEmit(c) /\ p \in room
                              /\ Reaches(p, NextStep(c).event, NextStep(c).this)
                              /\ inbox'[p][n] = [change |-> c, event |-> NextStep(c).event]
<1> DEFINE Known == \E k \in DOMAIN inbox[p] : inbox'[p][n] = inbox[p][k]
           New(c) == /\ LiveEmit(c) /\ p \in room
                     /\ Reaches(p, NextStep(c).event, NextStep(c).this)
                     /\ inbox'[p][n] = [change |-> c, event |-> NextStep(c).event]
<1>1. inbox \in [Page -> Seq(Message)] /\ inbox[p] \in Seq(Message)
  BY DEF LiveType, Shapes
<1>2. CASE inbox'[p] = inbox[p]
  BY <1>2
<1>3. CASE inbox'[p] = <<>>
  BY <1>3
<1>4. ASSUME NEW c \in Change, LiveEmit(c), inbox'[p] # inbox[p] PROVE Known \/ New(c)
  <2>1. PICK m \in Message : m = [change |-> c, event |-> NextStep(c).event]
    BY <1>4, EmitMessage DEF LiveType
  <2>2. /\ p \in room /\ Reaches(p, NextStep(c).event, NextStep(c).this)
        /\ inbox'[p] = Append(inbox[p], m)
    BY <1>4, <2>1, EmitInbox DEF LiveType
  <2>3. \/ n \in DOMAIN inbox[p] /\ inbox'[p][n] = inbox[p][n]
        \/ inbox'[p][n] = m
    BY <1>1, <2>2
  <2> QED  BY <1>4, <2>1, <2>2, <2>3
<1>5. ASSUME NEW q \in Page, HandleEvent(q), q = p PROVE Known
  <2>1. inbox[p] # <<>> /\ inbox'[p] = Tail(inbox[p])
    BY <1>1, <1>5 DEF HandleEvent
  <2>2. n + 1 \in DOMAIN inbox[p] /\ inbox'[p][n] = inbox[p][n + 1]
    BY <1>1, <2>1
  <2> QED  BY <2>2
<1>6. ASSUME NEW q \in Page, HandleEvent(q), q # p PROVE inbox'[p] = inbox[p]
  BY <1>1, <1>6 DEF HandleEvent
<1>7. ASSUME NEW q \in Page, inbox' = [inbox EXCEPT ![q] = <<>>]
      PROVE  inbox'[p] = inbox[p] \/ inbox'[p] = <<>>
  BY <1>1, <1>7
<1>8. ASSUME inbox' = [q \in Page |-> <<>>] PROVE inbox'[p] = <<>>
  BY <1>8
<1> QED
  BY <1>2, <1>3, <1>4, <1>5, <1>6, <1>7, <1>8, InboxSteps

\* A change that has begun stays begun, and only such a change emits.
LEMMA EventsBegunNext ==
  ASSUME LiveType, [LiveNext]_liveVars
  PROVE  EventsBegun'
<1> SUFFICES ASSUME NEW p \in Page, NEW n \in DOMAIN inbox'[p]
             PROVE  call'[inbox'[p][n].change].kind # None
  BY DEF EventsBegun, Begun
<1>1. ASSUME NEW d \in Change, Begun(d) PROVE Begun(d)'
  BY <1>1, StoreNeverBack, LiveStepInStore DEF LiveType, Begun
<1>2. ASSUME NEW k \in DOMAIN inbox[p], inbox'[p][n] = inbox[p][k]
      PROVE  call'[inbox'[p][n].change].kind # None
  <2>1. inbox[p][k] \in Message
    BY DEF LiveType, Shapes
  <2>2. Begun(inbox[p][k].change)
    BY DEF LiveType, EventsBegun
  <2>3. PICK d \in Change : d = inbox[p][k].change
    BY <2>1 DEF Message
  <2>4. Begun(d)'
    BY <1>1, <2>2, <2>3
  <2>5. d = inbox'[p][n].change
    BY <1>2, <2>3
  <2> QED  BY <2>4, <2>5 DEF Begun
<1>3. ASSUME NEW c \in Change, LiveEmit(c),
             inbox'[p][n] = [change |-> c, event |-> NextStep(c).event]
      PROVE  call'[inbox'[p][n].change].kind # None
  <2>1. Begun(c)'
    BY <1>1, <1>3 DEF LiveEmit, EmitEvent, AtStep, Running
  <2>2. inbox'[p][n].change = c
    BY <1>3
  <2> QED  BY <2>1, <2>2 DEF Begun
<1> QED  BY <1>2, <1>3, InboxFrom


\* A tab is told of nothing before a page is open in it.
LEMMA ClosedHearNothingNext ==
  ASSUME LiveType, [LiveNext]_liveVars
  PROVE  ClosedHearNothing'
<1> SUFFICES ASSUME NEW p \in Page, ~IsOpen(p)'
             PROVE  inbox'[p] = <<>> /\ view'[p].told = {}
  BY DEF ClosedHearNothing
<1> USE DEF LiveType
<1>1. ~IsOpen(p)
  BY PageStays DEF IsOpen
<1>2. inbox[p] = <<>> /\ view[p].told = {}
  BY <1>1 DEF ClosedHearNothing
<1>3. inbox'[p] = <<>>
  <2>1. inbox'[p] \in Seq(Message)
    BY InboxShape
  <2>2. ASSUME NEW n \in DOMAIN inbox'[p] PROVE FALSE
    <3>1. p \notin room
      BY <1>1 DEF RoomsOpen
    <3>2. DOMAIN inbox[p] = {}
      BY <1>2
    <3> QED  BY <3>1, <3>2, InboxFrom
  <2>3. inbox'[p] # <<>> => 1 \in DOMAIN inbox'[p]
    BY <2>1
  <2> QED  BY <2>2, <2>3
<1>4. view'[p].told = {}
  <2>1. ASSUME NEW q \in Page, NEW kind \in PageKind, Open(q, kind) PROVE view'[p].told = {}
    BY <1>2, <2>1, OpenView
  <2>2. ASSUME NEW r \in Reader, Receive(r) PROVE view'[p].told = {}
    BY <1>2, <2>2, ReceiveView
  <2>3. ASSUME NEW q \in Page, HandleEvent(q) PROVE view'[p].told = {}
    <3>1. q # p
      BY <1>2, <2>3 DEF HandleEvent
    <3> QED  BY <1>2, <2>3, <3>1, EventView
  <2>4. ASSUME NEW c \in Change, ReceiveReply(c) PROVE view'[p].told = {}
    <3>1. author[c] # p
      BY <1>1, <2>4, PageAssumption DEF Authors, ReceiveReply, IsOpen
    <3> QED  BY <1>2, <2>4, <3>1, ReplyView
  <2> QED  BY <1>2, <2>1, <2>2, <2>3, <2>4, ViewSteps
<1> QED  BY <1>3, <1>4

-----------------------------------------------------------------------------
(* Requests.  What a page knows of when it asks it still knows of once it   *)
(* has asked.                                                               *)

\* A page that is open asks for the query of its kind.
Asks(r, p, full, told) ==
  /\ p \in Page /\ IsOpen(p)'
  /\ told \subseteq view'[p].told
  /\ Request(r, p, view'[p].kind, full, told)

PageAsks ==
  \E r \in Reader, p \in Page, full \in BOOLEAN, told \in SUBSET Change : Asks(r, p, full, told)

\* A request of an open page for the query of its kind, about what it knows.
LEMMA AsksPage ==
  ASSUME Shapes', NEW r \in Free, NEW p \in Page, NEW full \in BOOLEAN, NEW told,
         told \subseteq view'[p].told, IsOpen(p)', Request(r, p, view'[p].kind, full, told)
  PROVE  PageAsks
<1>1. told \in SUBSET Change
  BY DEF Shapes, PageView
<1> QED  BY <1>1 DEF PageAsks, Asks, Free

\* What becomes of the requests in a step.
LEMMA RequestSteps ==
  ASSUME LiveType, [LiveNext]_liveVars
  PROVE  \/ PageAsks
         \/ \E r \in Reader : Receive(r)
         \/ \E r \in Reader : LiveReader(r)
         \/ \E c \in Change : LiveHandler(c)
         \/ LiveCrash
         \/ UNCHANGED <<reader, fetch>>
<1> USE DEF LiveType
<1>1. Shapes'
  BY ShapesNext
<1>2. view \in [Page -> PageView]
  BY DEF Shapes
<1>3. ASSUME NEW p \in Page, NEW kind \in PageKind, Open(p, kind) PROVE PageAsks
  <2>1. view'[p].kind = kind /\ kind # None
    BY <1>3, OpenView, PageAssumption
  <2>2. PICK r \in Free : Request(r, p, kind, TRUE, {})
    BY <1>3 DEF Open
  <2>3. IsOpen(p)' /\ {} \subseteq view'[p].told
    BY <2>1 DEF IsOpen
  <2>4. Request(r, p, view'[p].kind, TRUE, {})
    BY <2>1, <2>2
  <2>5. PICK full \in BOOLEAN : full = TRUE
    OBVIOUS
  <2>6. PICK told : told = {}
    OBVIOUS
  <2>7. told \subseteq view'[p].told /\ Request(r, p, view'[p].kind, full, told)
    BY <2>3, <2>4, <2>5, <2>6
  <2>8. IsOpen(p)'
    BY <2>3
  <2> QED  BY <1>1, <2>7, <2>8, AsksPage
<1>4. ASSUME NEW p \in Page, Refilter(p) PROVE PageAsks
  <2>1. IsOpen(p)' /\ view' = view
    BY <1>4, PageAssumption DEF Refilter, IsOpen
  <2>2. PICK r \in Free : Request(r, p, view[p].kind, TRUE, view[p].told)
    BY <1>4 DEF Refilter
  <2> QED  BY <1>1, <2>1, <2>2, AsksPage
<1>5. ASSUME NEW p \in Page, Connect(p) PROVE PageAsks \/ UNCHANGED <<reader, fetch>>
  <2>1. CASE link[p] = "down" /\ IsOpen(p)
    <3>1. PICK r \in Free : Request(r, p, view[p].kind, TRUE, view[p].told)
      BY <1>5, <2>1 DEF Connect
    <3> QED  BY <1>1, <1>5, <2>1, <3>1, AsksPage DEF IsOpen, Connect
  <2>2. CASE ~(link[p] = "down" /\ IsOpen(p))
    BY <1>5, <2>2 DEF Connect, NoRequest, cacheVars
  <2> QED  BY <2>1, <2>2
<1>6. ASSUME NEW p \in Page, HandleEvent(p) PROVE PageAsks \/ UNCHANGED <<reader, fetch>>
  <2> DEFINE m == Head(inbox[p])
             told == view[p].told \cup
                       (IF call[m.change].kind \in TellsEarly THEN {} ELSE {m.change})
  <2>1. view'[p].told = told /\ view'[p].kind = view[p].kind
    BY <1>6, EventView
  <2>2. IsOpen(p)'
    BY <1>6, <2>1 DEF HandleEvent, ClosedHearNothing, IsOpen
  <2>3. CASE NoRequest
    BY <2>3 DEF NoRequest, cacheVars
  <2>4. CASE ~NoRequest
    <3>1. PICK r \in Free, full \in BOOLEAN : Request(r, p, view'[p].kind, full, told)
      <4>1. CASE view[p].kind = "detail"
        <5>1. PICK r \in Free : Request(r, p, "detail", m.event \in ReloadEvents, told)
          BY <1>6, <2>4, <4>1 DEF HandleEvent
        <5>2. (m.event \in ReloadEvents) \in BOOLEAN
          OBVIOUS
        <5> QED  BY <2>1, <4>1, <5>1, <5>2
      <4>2. CASE view[p].kind # "detail"
        <5>1. PICK r \in Free : Request(r, p, view[p].kind, TRUE, told)
          BY <1>6, <2>4, <4>2 DEF HandleEvent
        <5> QED  BY <2>1, <5>1
      <4> QED  BY <4>1, <4>2
    <3> HIDE DEF told
    <3> QED  BY <1>1, <2>1, <2>2, <3>1, AsksPage
  <2> QED  BY <2>3, <2>4
<1>7. ASSUME NEW c \in Change, ReceiveReply(c), ~NoRequest PROVE PageAsks
  <2> DEFINE told == view[author[c]].told \cup (IF call[c].kind \in TellsEarly THEN {} ELSE {c})
             again == call[c].kind \in ReloadingKinds
  <2>1. PICK p \in Page : p = author[c]
    BY <1>7, ReplyView
  <2>2. view'[p].told = told /\ view'[p].kind = view[p].kind
    BY <1>7, <2>1, ReplyView
  <2>3. view[p].kind = "detail"
    BY <2>1, <1>7 DEF Authors, ReceiveReply
  <2>4. PICK r \in Free : Request(r, p, "detail", again, told)
    BY <1>7, <2>1 DEF ReceiveReply
  <2>5. again \in BOOLEAN
    OBVIOUS
  <2>6. IsOpen(p)'
    BY <2>2, <2>3, PageAssumption DEF IsOpen
  <2> HIDE DEF told, again
  <2> QED  BY <1>1, <2>2, <2>3, <2>4, <2>5, <2>6, AsksPage
<1>8. ASSUME NEW c \in Change, (\E kind \in Kind, p \in Page \cup {None} : LiveBegin(c, kind, p))
                               \/ LiveEmit(c)
      PROVE  UNCHANGED <<reader, fetch>>
  BY <1>8 DEF LiveBegin, Begin, LiveEmit, EmitEvent
<1>9. ASSUME NEW p \in Page, Join(p) \/ Leave(p) \/ Drop(p) PROVE UNCHANGED <<reader, fetch>>
  BY <1>9 DEF Join, Leave, Drop, cacheVars
<1>11. CASE NoRequest
  BY <1>11 DEF NoRequest, cacheVars
<1>10. ASSUME (\E s \in Store, key \in CacheKey : LiveExpire(s, key)) \/ LiveRedis
              \/ UNCHANGED liveVars
       PROVE  UNCHANGED <<reader, fetch>>
  BY <1>10 DEF LiveExpire, Expire, LiveRedis, LoseRedis, RegainRedis, liveVars, clientVars, cacheVars
<1> QED
  BY <1>3, <1>4, <1>5, <1>6, <1>7, <1>8, <1>9, <1>10, <1>11 DEF LiveNext, PageStep

\* A page that asks is open, and stays open until it is answered.
LEMMA FetchesNext ==
  ASSUME LiveType, [LiveNext]_liveVars
  PROVE  Fetches'
<1> USE DEF LiveType
<1>1. /\ reader \in [Reader -> Reading] /\ fetch \in [Reader -> Asked \cup {NoFetch}]
      /\ Fetching
  BY DEF CacheTypeOK, Fetches
\* A page that has asked stays open.
<1>2. ASSUME NEW r \in Reader, fetch'[r] = fetch[r],
             reader[r].step = "idle" <=> reader'[r].step = "idle"
      PROVE  IF reader'[r].step = "idle" THEN fetch'[r] = NoFetch
             ELSE fetch'[r] \in Asked /\ IsOpen(fetch[r].page)'
  <2>1. fetch[r] \in Asked => fetch[r].page \in Page
    BY DEF Asked
  <2> QED  BY <1>1, <1>2, <2>1, PageStays DEF Fetching, IsOpen
<1>3. ASSUME PageAsks PROVE Fetches'
  <2>1. PICK r \in Reader, p \in Page, full \in BOOLEAN, told \in SUBSET Change :
               Asks(r, p, full, told)
    BY <1>3 DEF PageAsks
  <2>2. /\ fetch' = [fetch EXCEPT ![r] = [page |-> p, full |-> full, after |-> told]]
        /\ Ask(r, QueryOf(view'[p].kind))
    BY <2>1 DEF Asks, Request
  <2>3. [page |-> p, full |-> full, after |-> told] \in Asked
    BY DEF Asked
  <2>4. fetch' \in [Reader -> Asked \cup {NoFetch}]
    BY <1>1, <2>2, <2>3
  <2>5. ASSUME NEW q \in Reader, q # r PROVE reader'[q] = reader[q] /\ fetch'[q] = fetch[q]
    BY <1>1, <2>2, <2>5 DEF Ask
  <2>6. fetch'[r] = [page |-> p, full |-> full, after |-> told] /\ fetch'[r].page = p
    BY <1>1, <2>2
  <2>7. reader'[r].step = "lookup"
    BY <1>1, <2>2 DEF Ask, Idle
  <2>8. IsOpen(p)'
    BY <2>1 DEF Asks
  <2> QED  BY <1>2, <2>3, <2>4, <2>5, <2>6, <2>7, <2>8 DEF Fetches, Fetching, IsOpen
<1>4. ASSUME NEW r \in Reader, Receive(r) PROVE Fetches'
  <2>1. /\ fetch' = [fetch EXCEPT ![r] = NoFetch]
        /\ reader' = [reader EXCEPT ![r] = Idle]
    BY <1>4 DEF Receive, Answer
  <2>2. fetch' \in [Reader -> Asked \cup {NoFetch}]
    BY <1>1, <2>1
  <2>3. ASSUME NEW q \in Reader, q # r PROVE reader'[q] = reader[q] /\ fetch'[q] = fetch[q]
    BY <1>1, <2>1, <2>3
  <2>4. reader'[r].step = "idle" /\ fetch'[r] = NoFetch
    BY <1>1, <2>1 DEF Idle
  <2> QED  BY <1>2, <2>2, <2>3, <2>4 DEF Fetches, Fetching, IsOpen
<1>5. ASSUME fetch' = fetch,
             \A r \in Reader : reader[r].step = "idle" <=> reader'[r].step = "idle"
      PROVE  Fetches'
  BY <1>1, <1>2, <1>5 DEF Fetches, Fetching, IsOpen
<1>6. ASSUME NEW r \in Reader, LiveReader(r) PROVE Fetches'
  <2>1. fetch' = fetch /\ ReaderStep(r)
    BY <1>6 DEF LiveReader, clientVars
  <2>2. /\ reader[r].step # "idle" /\ reader'[r].step # "idle"
        /\ \A q \in Reader : q # r => reader'[q] = reader[q]
    <3>1. CASE Lookup(r)
      BY <1>1, <3>1 DEF Lookup, Reading
    <3>2. ASSUME NEW part \in Part, Read(r, part)
          PROVE  /\ reader[r].step # "idle" /\ reader'[r].step # "idle"
                 /\ \A q \in Reader : q # r => reader'[q] = reader[q]
      BY <1>1, <3>2 DEF Read, Reading
    <3>3. CASE Fill(r)
      BY <1>1, <3>3 DEF Fill, Reading
    <3> QED  BY <2>1, <3>1, <3>2, <3>3 DEF ReaderStep
  <2> QED  BY <1>5, <2>1, <2>2
<1>7. ASSUME NEW c \in Change, LiveHandler(c) PROVE Fetches'
  <2>1. fetch' = fetch /\ HandlerStep(c)
    BY <1>7 DEF LiveHandler, clientVars
  <2>2. ASSUME NEW r \in Reader PROVE reader[r].step = reader'[r].step
    <3>1. ASSUME NEW key \in CacheKey, Evict(c, key) PROVE reader[r].step = reader'[r].step
      BY <1>1, <3>1 DEF Evict, Reading
    <3>2. CASE SaveWrite(c) \/ LogEvent(c)
      BY <3>2 DEF SaveWrite, LogEvent
    <3> QED  BY <2>1, <3>1, <3>2 DEF HandlerStep
  <2> QED  BY <1>5, <2>1, <2>2
<1>8. CASE LiveCrash
  <2>1. fetch' = [r \in Reader |-> NoFetch] /\ reader' = [r \in Reader |-> Idle]
    BY <1>8 DEF LiveCrash, Crash
  <2> QED  BY <2>1 DEF Fetches, Fetching, Idle
<1>9. CASE UNCHANGED <<reader, fetch>>
  BY <1>5, <1>9
<1> QED  BY <1>3, <1>4, <1>6, <1>7, <1>8, <1>9, RequestSteps

\* Every step preserves the invariant.
LEMMA LiveTypeNext == LiveType /\ [LiveNext]_liveVars => LiveType'
<1> SUFFICES ASSUME LiveType, [LiveNext]_liveVars PROVE LiveType'
  OBVIOUS
<1>1. CacheTypeOK'
  BY StoreTypeNext, LiveStepInStore DEF LiveType
<1> QED
  BY <1>1, ShapesNext, RoomsOpenNext, EventsBegunNext, FetchesNext, AuthorsNext,
     ClosedHearNothingNext
  DEF LiveType

\* Pages, sockets, rooms, events on their way and requests under way are well
\* formed at all times, for any number of tabs, changes, requests and faults;
\* only open pages on connected sockets are in a room (the gateway, the socket
\* of SocketProvider, the pages).
THEOREM LiveTypeCorrect == LiveSpec => []LiveTypeOK
<1>1. LiveInit => LiveType
  BY LiveTypeInit
<1>2. LiveType /\ [LiveNext]_liveVars => LiveType'
  BY LiveTypeNext
<1>3. LiveType => LiveTypeOK
  BY LiveTypeImplied
<1> QED  BY <1>1, <1>2, <1>3, PTL DEF LiveSpec

-----------------------------------------------------------------------------
(* The plans.  All handlers but those of TellsEarly evict before they tell.  *)

\* Step e evicts the overview, and the detail too if an event follows that the
\* room of the incident hears.
EvictsThenTells(plan, e) ==
  /\ e \in 1..Len(plan) /\ plan[e].op = "evict"
  /\ \A n \in 1..Len(plan) : plan[n].op = "emit" =>
       /\ e < n
       /\ "overview" \in plan[e].keys
       /\ plan[n].this => "detail" \in plan[e].keys

TellsLast(plan) ==
  \/ \A n \in 1..Len(plan) : plan[n].op # "emit"
  \/ \E e \in 1..Len(plan) : EvictsThenTells(plan, e)

\* The keys of the two invalidations, and the room of an event about another incident.
LEMMA StepKeys ==
  /\ invalidateIncident.keys = {"detail", "overview"} /\ invalidateDashboard.keys = {"overview"}
  /\ \A event : EmitOther(event).this = FALSE
BY DEF EvictKeys, EmitOther, EmitTo, invalidateIncident, invalidateDashboard

\* Every handler outside TellsEarly evicts before its first event.
LEMMA PlansTellLast ==
  \A kind \in DOMAIN Plan \ TellsEarly : TellsLast(Plan[kind])
<1>1. TellsLast(createIncident)
  <2>1. EvictsThenTells(createIncident, 3) /\ 3 \in 1..Len(createIncident)
    BY StepKinds, StepKeys DEF EvictsThenTells, createIncident
  <2> QED  BY <2>1 DEF TellsLast
<1>2. TellsLast(updateIncident)
  <2>1. EvictsThenTells(updateIncident, 3) /\ 3 \in 1..Len(updateIncident)
    BY StepKinds, StepKeys DEF EvictsThenTells, updateIncident
  <2> QED  BY <2>1 DEF TellsLast
<1>3. TellsLast(changeStatus)
  <2>1. EvictsThenTells(changeStatus, 3) /\ 3 \in 1..Len(changeStatus)
    BY StepKinds, StepKeys DEF EvictsThenTells, changeStatus
  <2> QED  BY <2>1 DEF TellsLast
<1>4. TellsLast(changeSeverity)
  <2>1. EvictsThenTells(changeSeverity, 3) /\ 3 \in 1..Len(changeSeverity)
    BY StepKinds, StepKeys DEF EvictsThenTells, changeSeverity
  <2> QED  BY <2>1 DEF TellsLast
<1>5. TellsLast(assign)
  <2>1. EvictsThenTells(assign, 3) /\ 3 \in 1..Len(assign)
    BY StepKinds, StepKeys DEF EvictsThenTells, assign
  <2> QED  BY <2>1 DEF TellsLast
<1>6. TellsLast(mergeIncident)
  <2>1. EvictsThenTells(mergeIncident, 4) /\ 4 \in 1..Len(mergeIncident)
    BY StepKinds, StepKeys DEF EvictsThenTells, mergeIncident
  <2> QED  BY <2>1 DEF TellsLast
<1>7. TellsLast(changeOther)
  <2>1. EvictsThenTells(changeOther, 3) /\ 3 \in 1..Len(changeOther)
    BY StepKinds, StepKeys DEF EvictsThenTells, changeOther
  <2> QED  BY <2>1 DEF TellsLast
<1>8. TellsLast(createComment)
  <2>1. EvictsThenTells(createComment, 3) /\ 3 \in 1..Len(createComment)
    BY StepKinds, StepKeys DEF EvictsThenTells, createComment
  <2> QED  BY <2>1 DEF TellsLast
<1>9. TellsLast(createTask)
  <2>1. EvictsThenTells(createTask, 3) /\ 3 \in 1..Len(createTask)
    BY StepKinds, StepKeys DEF EvictsThenTells, createTask
  <2> QED  BY <2>1 DEF TellsLast
<1>10. TellsLast(updateTask)
  <2>1. EvictsThenTells(updateTask, 3) /\ 3 \in 1..Len(updateTask)
    BY StepKinds, StepKeys DEF EvictsThenTells, updateTask
  <2> QED  BY <2>1 DEF TellsLast
<1>11. TellsLast(deleteTask)
  <2>1. EvictsThenTells(deleteTask, 3) /\ 3 \in 1..Len(deleteTask)
    BY StepKinds, StepKeys DEF EvictsThenTells, deleteTask
  <2> QED  BY <2>1 DEF TellsLast
<1>12. TellsLast(repeatReport)
  BY StepKinds DEF TellsLast, repeatReport
<1>13. TellsLast(spawn)
  <2>1. EvictsThenTells(spawn, 3) /\ 3 \in 1..Len(spawn)
    BY StepKinds, StepKeys DEF EvictsThenTells, spawn
  <2> QED  BY <2>1 DEF TellsLast
<1>14. TellsLast(associate)
  <2>1. EvictsThenTells(associate, 4) /\ 4 \in 1..Len(associate)
    BY StepKinds, StepKeys DEF EvictsThenTells, associate
  <2> QED  BY <2>1 DEF TellsLast
<1>15. TellsLast(unassociate)
  BY StepKinds DEF TellsLast, unassociate
<1>16. TellsLast(complete)
  <2>1. EvictsThenTells(complete, 3) /\ 3 \in 1..Len(complete)
    BY StepKinds, StepKeys DEF EvictsThenTells, complete
  <2> QED  BY <2>1 DEF TellsLast
<1>17. TellsLast(rejectAction)
  <2>1. EvictsThenTells(rejectAction, 3) /\ 3 \in 1..Len(rejectAction)
    BY StepKinds, StepKeys DEF EvictsThenTells, rejectAction
  <2> QED  BY <2>1 DEF TellsLast
<1>18. TellsLast(changeTeam)
  BY StepKinds DEF TellsLast, changeTeam
<1> QED
  BY <1>1, <1>2, <1>3, <1>4, <1>5, <1>6, <1>7, <1>8, <1>9, <1>10, <1>11, <1>12, <1>13, <1>14, <1>15, <1>16, <1>17, <1>18 DEF Plan, TellsEarly

\* A change that a detail page makes evicts the detail, unless it tells early.
EvictsDetail(plan, e) ==
  e \in 1..Len(plan) /\ plan[e].op = "evict" /\ plan[e].keys = {"detail", "overview"}

\* Every handler that the detail page calls evicts the detail, outside TellsEarly.
LEMMA OwnChangesEvict ==
  \A kind \in MadeOnDetail \ TellsEarly :
    kind \in DOMAIN Plan /\ \E e \in 1..Len(Plan[kind]) : EvictsDetail(Plan[kind], e)
<1>1. EvictsDetail(updateIncident, 3) /\ 3 \in 1..Len(updateIncident)
  BY StepKinds, StepKeys DEF EvictsDetail, updateIncident
<1>2. EvictsDetail(changeStatus, 3) /\ 3 \in 1..Len(changeStatus)
  BY StepKinds, StepKeys DEF EvictsDetail, changeStatus
<1>3. EvictsDetail(changeSeverity, 3) /\ 3 \in 1..Len(changeSeverity)
  BY StepKinds, StepKeys DEF EvictsDetail, changeSeverity
<1>4. EvictsDetail(assign, 3) /\ 3 \in 1..Len(assign)
  BY StepKinds, StepKeys DEF EvictsDetail, assign
<1>5. EvictsDetail(mergeIncident, 4) /\ 4 \in 1..Len(mergeIncident)
  BY StepKinds, StepKeys DEF EvictsDetail, mergeIncident
<1>6. EvictsDetail(createComment, 3) /\ 3 \in 1..Len(createComment)
  BY StepKinds, StepKeys DEF EvictsDetail, createComment
<1>7. EvictsDetail(createTask, 3) /\ 3 \in 1..Len(createTask)
  BY StepKinds, StepKeys DEF EvictsDetail, createTask
<1>8. EvictsDetail(updateTask, 3) /\ 3 \in 1..Len(updateTask)
  BY StepKinds, StepKeys DEF EvictsDetail, updateTask
<1>9. EvictsDetail(deleteTask, 3) /\ 3 \in 1..Len(deleteTask)
  BY StepKinds, StepKeys DEF EvictsDetail, deleteTask
<1>10. EvictsDetail(rejectAction, 3) /\ 3 \in 1..Len(rejectAction)
  BY StepKinds, StepKeys DEF EvictsDetail, rejectAction
<1> QED
  BY <1>1, <1>2, <1>3, <1>4, <1>5, <1>6, <1>7, <1>8, <1>9, <1>10 DEF Plan, MadeOnDetail, TellsEarly

-----------------------------------------------------------------------------
(* Evictions that a handler has behind it are over. *)

EvictionsKept ==
  \A c \in Change :
    /\ \A key \in call[c].gone : c \in evicted[key]
    /\ ~Begun(c) => call[c].at = 1
    /\ Begun(c) => \A m \in 1..Len(Steps(c)) :
         m < call[c].at /\ Steps(c)[m].op = "evict" =>
           \A key \in CacheKey : key \in Steps(c)[m].keys => c \in evicted[key]

\* Nothing that was evicted is forgotten.
LEMMA EvictedGrows ==
  ASSUME CacheTypeOK, StoreStep, NEW key \in CacheKey
  PROVE  evicted[key] \subseteq evicted'[key]
<1>1. ASSUME NEW c \in Change, NEW gone \in CacheKey, Evict(c, gone)
      PROVE  evicted[key] \subseteq evicted'[key]
  BY <1>1 DEF Evict, CacheTypeOK
<1>2. (\E c \in Change, gone \in CacheKey : Evict(c, gone)) \/ UNCHANGED evicted
  BY DEF StoreStep, AskList, LoseSocket, CacheNext, HandlerStep, ReaderStep, Begin, SaveWrite,
         LogEvent, EmitEvent, Ask, Lookup, Read, Fill, Answer, Expire, LoseRedis, RegainRedis,
         Crash, cacheVars
<1> QED  BY <1>1, <1>2

\* A change begins, goes on past a step that is no eviction, evicts, ends, or
\* stays where it is.
LEMMA CallSteps ==
  ASSUME CacheTypeOK, StoreStep, NEW d \in Change
  PROVE  \/ call'[d] = call[d]
         \/ \E kind \in Kind : ~Begun(d) /\ call'[d] = [call[d] EXCEPT !.kind = kind]
         \/ /\ Running(d) /\ NextStep(d).op # "evict"
            /\ call'[d] = [call[d] EXCEPT !.at = call[d].at + 1, !.gone = {}]
         \/ \E key \in CacheKey : Evict(d, key)
         \/ Running(d) /\ call'[d] = [call[d] EXCEPT !.failed = TRUE]
<1>1. call \in [Change -> Position]
  BY DEF CacheTypeOK
<1>2. ASSUME NEW c \in Change, c # d,
             \/ \E kind \in Kind : Begin(c, kind)
             \/ SaveWrite(c) \/ LogEvent(c) \/ EmitEvent(c)
             \/ \E key \in CacheKey : Evict(c, key)
      PROVE  call'[d] = call[d]
  BY <1>1, <1>2 DEF Begin, SaveWrite, LogEvent, EmitEvent, Evict, Onwards
<1>3. ASSUME NEW kind \in Kind, Begin(d, kind)
      PROVE  ~Begun(d) /\ call'[d] = [call[d] EXCEPT !.kind = kind]
  BY <1>1, <1>3 DEF Begin
<1>4. ASSUME Onwards(d) PROVE call'[d] = [call[d] EXCEPT !.at = call[d].at + 1, !.gone = {}]
  BY <1>1, <1>4 DEF Onwards
<1>5. ASSUME SaveWrite(d) \/ LogEvent(d) \/ EmitEvent(d)
      PROVE  /\ Running(d) /\ NextStep(d).op # "evict"
             /\ Onwards(d) \/ call'[d] = [call[d] EXCEPT !.failed = TRUE]
  BY <1>1, <1>5 DEF SaveWrite, LogEvent, EmitEvent, AtStep
<1>6. CASE Crash
  BY <1>1, <1>6 DEF Crash
<1>7. ASSUME \/ \E r \in Reader : \/ \E query \in CacheKey : Ask(r, query)
                                  \/ ReaderStep(r)
                                  \/ Answer(r)
             \/ \E s \in Store, key \in CacheKey : Expire(s, key)
             \/ LoseRedis \/ RegainRedis \/ AskList \/ LoseSocket \/ UNCHANGED cacheVars
      PROVE  call' = call
  BY <1>7 DEF AskList, LoseSocket, ReaderStep, Ask, Lookup, Read, Fill, Answer, Expire, LoseRedis,
              RegainRedis, cacheVars
<1> QED
  BY <1>2, <1>3, <1>4, <1>5, <1>6, <1>7 DEF StoreStep, CacheNext, HandlerStep

\* No handler has begun at first.
LEMMA EvictionsKeptInit == CacheInit => EvictionsKept
  BY DEF CacheInit, EvictionsKept, NotCalled, Begun

\* A handler goes past an eviction only when all its keys are gone.
LEMMA EvictionsKeptNext ==
  ASSUME CacheTypeOK, EvictionsKept, StoreStep
  PROVE  EvictionsKept'
<1> SUFFICES ASSUME NEW c \in Change
             PROVE  /\ \A key \in call'[c].gone : c \in evicted'[key]
                    /\ ~Begun(c)' => call'[c].at = 1
                    /\ Begun(c)' => \A m \in 1..Len(Steps(c)') :
                         m < call'[c].at /\ Steps(c)'[m].op = "evict" =>
                           \A key \in CacheKey : key \in Steps(c)'[m].keys => c \in evicted'[key]
  BY DEF EvictionsKept
<1> DEFINE Kept(m) == Steps(c)[m].op = "evict" =>
                        \A key \in CacheKey : key \in Steps(c)[m].keys => c \in evicted'[key]
<1>1. call[c] \in Position
  BY DEF CacheTypeOK
<1>2. \A key \in call[c].gone : c \in evicted'[key]
  BY <1>1, EvictedGrows DEF EvictionsKept, Position
<1>3. Begun(c) => \A m \in 1..Len(Steps(c)) : m < call[c].at => Kept(m)
  BY EvictedGrows DEF EvictionsKept
<1>4. CASE call'[c] = call[c]
  BY <1>2, <1>3, <1>4 DEF EvictionsKept, Begun, Steps
<1>5. ASSUME NEW kind \in Kind, ~Begun(c), call'[c] = [call[c] EXCEPT !.kind = kind]
      PROVE  /\ \A key \in call'[c].gone : c \in evicted'[key]
             /\ Begun(c)' /\ call'[c].at = 1
  <2>1. call'[c].gone = call[c].gone /\ call'[c].kind = kind /\ call'[c].at = call[c].at
    BY <1>1, <1>5 DEF Position
  <2>2. call[c].at = 1
    BY <1>5 DEF EvictionsKept
  <2> QED  BY <1>2, <2>1, <2>2, NoneAssumption DEF Begun
<1>6. ASSUME Running(c), call'[c] = [call[c] EXCEPT !.failed = TRUE]
      PROVE  call'[c].gone = call[c].gone /\ call'[c].kind = call[c].kind
             /\ call'[c].at = call[c].at
  BY <1>1, <1>6 DEF Position
\* A handler that goes on has this step behind it too.
<1>7. ASSUME Running(c), call'[c] = [call[c] EXCEPT !.at = call[c].at + 1, !.gone = {}],
             Kept(call[c].at)
      PROVE  /\ call'[c].gone = {} /\ Begun(c)' /\ Steps(c)' = Steps(c)
             /\ \A m \in 1..Len(Steps(c)) : m < call'[c].at => Kept(m)
  <2>1. call'[c].kind = call[c].kind /\ call'[c].at = call[c].at + 1 /\ call'[c].gone = {}
    BY <1>1, <1>7 DEF Position
  <2>2. Begun(c)
    BY <1>7 DEF Running
  <2>3. call[c].at \in Nat
    BY <1>1 DEF Position
  <2>4. ASSUME NEW m \in 1..Len(Steps(c)), m < call'[c].at PROVE Kept(m)
    <3>1. m \in Nat
      <4>1. Len(Steps(c)) \in Nat
        BY <1>7, StepInPlan DEF SavesFirst
      <4> QED  BY <4>1
    <3>2. m < call[c].at \/ m = call[c].at
      BY <2>1, <2>3, <2>4, <3>1
    <3> QED  BY <1>3, <1>7, <2>2, <3>2
  <2> HIDE DEF Kept
  <2> QED  BY <2>1, <2>2, <2>4 DEF Begun, Steps
<1>8. ASSUME NEW key \in CacheKey, Evict(c, key)
      PROVE  \/ /\ call'[c] = [call[c] EXCEPT !.at = call[c].at + 1, !.gone = {}]
                /\ Kept(call[c].at)
             \/ /\ call'[c].gone = call[c].gone \cup {key} /\ c \in evicted'[key]
                /\ call'[c].kind = call[c].kind /\ call'[c].at = call[c].at
  <2>1. c \in evicted'[key]
    BY <1>8 DEF Evict, CacheTypeOK
  <2>2. CASE call[c].gone \cup {key} = NextStep(c).keys
    <3>1. Onwards(c)
      BY <1>8, <2>2 DEF Evict
    <3>2. call'[c] = [call[c] EXCEPT !.at = call[c].at + 1, !.gone = {}]
      BY <3>1 DEF Onwards, CacheTypeOK
    <3>3. Steps(c)[call[c].at].keys = call[c].gone \cup {key}
      BY <2>2 DEF NextStep
    <3> QED  BY <1>2, <2>1, <3>2, <3>3
  <2>3. CASE call[c].gone \cup {key} # NextStep(c).keys
    <3>1. call' = [call EXCEPT ![c].gone = @ \cup {key}]
      BY <1>8, <2>3 DEF Evict
    <3>2. call'[c] = [call[c] EXCEPT !.gone = call[c].gone \cup {key}]
      BY <3>1 DEF CacheTypeOK
    <3> QED  BY <1>1, <2>1, <3>2 DEF Position
  <2> QED  BY <2>2, <2>3
<1>9. CASE Running(c) /\ NextStep(c).op # "evict"
           /\ call'[c] = [call[c] EXCEPT !.at = call[c].at + 1, !.gone = {}]
  <2>1. Kept(call[c].at)
    BY <1>9 DEF NextStep
  <2> HIDE DEF Kept
  <2>2. /\ call'[c].gone = {} /\ Begun(c)' /\ Steps(c)' = Steps(c)
        /\ \A m \in 1..Len(Steps(c)) : m < call'[c].at => Kept(m)
    BY <1>7, <1>9, <2>1
  <2> QED  BY <2>2 DEF Kept
<1>10. CASE \E key \in CacheKey : Evict(c, key)
  <2>1. PICK key \in CacheKey : Evict(c, key)
    BY <1>10
  <2>2. Running(c)
    BY <2>1 DEF Evict, AtStep
  <2>3. CASE call'[c] = [call[c] EXCEPT !.at = call[c].at + 1, !.gone = {}] /\ Kept(call[c].at)
    <3> HIDE DEF Kept
    <3>1. /\ call'[c].gone = {} /\ Begun(c)' /\ Steps(c)' = Steps(c)
          /\ \A m \in 1..Len(Steps(c)) : m < call'[c].at => Kept(m)
      BY <1>7, <2>2, <2>3
    <3> QED  BY <3>1 DEF Kept
  <2>4. CASE /\ call'[c].gone = call[c].gone \cup {key} /\ c \in evicted'[key]
             /\ call'[c].kind = call[c].kind /\ call'[c].at = call[c].at
    <3>1. Begun(c) /\ Begun(c)' /\ Steps(c)' = Steps(c)
      BY <2>2, <2>4 DEF Running, Begun, Steps
    <3> QED  BY <1>2, <1>3, <2>4, <3>1
  <2> QED  BY <1>8, <2>1, <2>3, <2>4
<1>11. CASE Running(c) /\ call'[c] = [call[c] EXCEPT !.failed = TRUE]
  <2>1. call'[c].gone = call[c].gone /\ call'[c].kind = call[c].kind /\ call'[c].at = call[c].at
    BY <1>6, <1>11
  <2> QED  BY <1>2, <1>3, <2>1 DEF EvictionsKept, Begun, Steps
<1>12. CASE \E kind \in Kind : ~Begun(c) /\ call'[c] = [call[c] EXCEPT !.kind = kind]
  <2>1. /\ \A key \in call'[c].gone : c \in evicted'[key]
        /\ Begun(c)' /\ call'[c].at = 1
    BY <1>5, <1>12
  <2>2. Len(Steps(c)') \in Nat
    <3>1. call'[c].kind \in DOMAIN Plan
      BY <2>1, StoreTypeNext, KindAssumption DEF CacheTypeOK, Position, Begun
    <3> QED  BY <3>1, PlansSaveFirst DEF Steps, SavesFirst
  <2> QED  BY <2>1, <2>2
<1> QED  BY <1>4, <1>9, <1>10, <1>11, <1>12, CallSteps

-----------------------------------------------------------------------------
(* What a page has been told of is settled: all of it is saved, and the     *)
(* answer behind the page is evicted.                                       *)

Settled(c, query) == PastEviction(c) /\ (query \in CacheKey => c \in evicted[query])

ToldSettled == \A p \in Page : \A c \in view[p].told : Settled(c, QueryOf(view[p].kind))

EventSettled(p, c) == call[c].kind \notin TellsEarly => Settled(c, QueryOf(view[p].kind))

EventsSettled ==
  \A p \in Page : \A n \in DOMAIN inbox[p] :
    \A c \in Change : c = inbox[p][n].change => EventSettled(p, c)

\* What is settled stays so, and is written in full.
LEMMA SettledStays ==
  ASSUME CacheTypeOK, StoreStep, NEW c \in Change, NEW query, Settled(c, query)
  PROVE  Settled(c, query)'
<1>1. PastEviction(c) /\ Begun(c)
  BY DEF Settled, PastEviction
<1>2. PastEviction(c)'
  BY <1>1, StoreNeverBack, GoesOn
<1>3. query \in CacheKey => c \in evicted'[query]
  BY EvictedGrows DEF Settled
<1> QED  BY <1>2, <1>3 DEF Settled

\* A settled change writes nothing more, so what is written of it stays the same.
LEMMA SettledIsWritten ==
  ASSUME CacheTypeOK, StoreStep, NEW c \in Change, NEW query, Settled(c, query)
  PROVE  WritesOf(c)' = WritesOf(c)
<1>1. ASSUME NEW d \in Change, SaveWrite(d) PROVE d # c
  <2> SUFFICES ASSUME PastEviction(d) PROVE FALSE
    BY DEF Settled
  <2>1. SavesFirst(Steps(d)) /\ call[d].at \in 1..Len(Steps(d))
    BY <1>1, StepInPlan DEF SaveWrite, AtStep
  <2>2. Steps(d)[call[d].at].op = "save"
    BY <1>1 DEF SaveWrite, AtStep, NextStep
  <2>3. \A m \in 1..call[d].at : Steps(d)[m].op # "evict"
    BY <2>1, <2>2 DEF SavesFirst
  <2> QED  BY <2>3 DEF PastEviction
<1>2. ASSUME NEW d \in Change, SaveWrite(d) PROVE WritesOf(c)' = WritesOf(c)
  BY <1>1, <1>2 DEF SaveWrite, WritesOf
<1>3. (\E d \in Change : SaveWrite(d)) \/ UNCHANGED stored
  BY DEF StoreStep, AskList, LoseSocket, CacheNext, HandlerStep, ReaderStep, Begin, Evict,
         LogEvent, EmitEvent, Ask, Lookup, Read, Fill, Answer, Expire, LoseRedis, RegainRedis,
         Crash, cacheVars
<1> QED  BY <1>2, <1>3 DEF WritesOf

\* A handler that emits has evicted what the page that hears it shows.
LEMMA TellerIsSettled ==
  ASSUME CacheTypeOK, EvictionsKept, NEW c \in Change, AtStep(c, "emit"),
         call[c].kind \notin TellsEarly, NEW p \in Page,
         Reaches(p, NextStep(c).event, NextStep(c).this)
  PROVE  Settled(c, QueryOf(view[p].kind))
<1>1. call[c].kind \in DOMAIN Plan \ TellsEarly
  BY KindAssumption DEF CacheTypeOK, Position, AtStep, Running, Begun
<1>2. TellsLast(Steps(c))
  BY <1>1, PlansTellLast DEF Steps
<1>3. /\ SavesFirst(Steps(c)) /\ call[c].at \in 1..Len(Steps(c))
      /\ Steps(c)[call[c].at].op = "emit" /\ Begun(c)
  BY StepInPlan DEF AtStep, NextStep, Running
<1>4. PICK e \in 1..Len(Steps(c)) : EvictsThenTells(Steps(c), e)
  BY <1>2, <1>3 DEF TellsLast
<1>5. /\ e < call[c].at /\ Steps(c)[e].op = "evict"
      /\ "overview" \in Steps(c)[e].keys
      /\ NextStep(c).this => "detail" \in Steps(c)[e].keys
  BY <1>3, <1>4 DEF EvictsThenTells, NextStep
<1>6. PastEviction(c)
  <2>1. Len(Steps(c)) \in Nat
    BY <1>3 DEF SavesFirst
  <2>2. e \in 1..call[c].at /\ e <= Len(Steps(c))
    BY <1>3, <1>5, <2>1
  <2> QED  BY <1>3, <1>5, <2>2 DEF PastEviction
<1>7. \A key \in CacheKey : key \in Steps(c)[e].keys => c \in evicted[key]
  BY <1>3, <1>5 DEF EvictionsKept
<1>8. ASSUME QueryOf(view[p].kind) \in CacheKey PROVE QueryOf(view[p].kind) \in Steps(c)[e].keys
  <2>1. QueryOf(view[p].kind) = view[p].kind
    BY <1>8 DEF QueryOf, CacheKey
  <2>2. CASE view[p].kind = "detail"
    BY <1>5, <2>1, <2>2 DEF Reaches
  <2>3. CASE view[p].kind = "overview"
    BY <1>5, <2>1, <2>3
  <2> QED  BY <1>8, <2>1, <2>2, <2>3 DEF CacheKey
<1> QED  BY <1>6, <1>7, <1>8 DEF Settled

\* The answer to a request of the detail page comes after the handler is done.
LEMMA AnswererIsSettled ==
  ASSUME LiveType, EvictionsKept, NEW c \in Change, ReceiveReply(c),
         call[c].kind \notin TellsEarly
  PROVE  Settled(c, "detail")
<1>1. call[c].kind \in MadeOnDetail \ TellsEarly /\ Begun(c)
  BY DEF LiveType, Authors, ReceiveReply
<1>2. call[c].kind \in DOMAIN Plan
  BY <1>1, OwnChangesEvict
<1>3. PICK e \in 1..Len(Steps(c)) : EvictsDetail(Steps(c), e)
  BY <1>1, OwnChangesEvict DEF Steps
<1>4. Steps(c)[e].op = "evict" /\ Steps(c)[e].keys = {"detail", "overview"}
  BY <1>3 DEF EvictsDetail
<1>5. call[c].at > Len(Steps(c)) /\ call[c].at \in Nat /\ Len(Steps(c)) \in Nat
  <2>1. Len(Steps(c)) \in Nat
    BY <1>2, PlansSaveFirst DEF Steps, SavesFirst
  <2> QED  BY <2>1 DEF ReceiveReply, Over, LiveType, CacheTypeOK, Position
<1>6. e \in 1..call[c].at /\ e <= Len(Steps(c)) /\ e < call[c].at
  BY <1>5
<1>7. "detail" \in CacheKey
  BY DEF CacheKey
<1>8. c \in evicted["detail"]
  BY <1>1, <1>4, <1>6, <1>7 DEF EvictionsKept
<1> QED  BY <1>1, <1>4, <1>6, <1>8 DEF Settled, PastEviction

\* No event is sent before its change is settled for the page that hears it.
LEMMA EventsSettledNext ==
  ASSUME LiveType, EvictionsKept, EventsSettled, [LiveNext]_liveVars
  PROVE  EventsSettled'
<1> SUFFICES ASSUME NEW p \in Page, NEW n \in DOMAIN inbox'[p], NEW c \in Change,
                    c = inbox'[p][n].change, call'[c].kind \notin TellsEarly
             PROVE  Settled(c, QueryOf(view[p].kind))'
  BY DEF EventsSettled, EventSettled
<1>1. CacheTypeOK /\ StoreStep
  BY LiveStepInStore DEF LiveType
<1>2. ASSUME IsOpen(p), Settled(c, QueryOf(view[p].kind))
      PROVE  Settled(c, QueryOf(view[p].kind))'
  <2>1. PICK query : query = QueryOf(view[p].kind)
    OBVIOUS
  <2>2. Settled(c, query)'
    BY <1>1, <1>2, <2>1, SettledStays
  <2>3. query = QueryOf(view'[p].kind)
    BY <1>2, <2>1, PageStays
  <2> QED  BY <2>2, <2>3 DEF Settled
<1>3. ASSUME NEW k \in DOMAIN inbox[p], inbox'[p][n] = inbox[p][k]
      PROVE  Settled(c, QueryOf(view[p].kind))'
  <2>1. inbox[p] # <<>>
    BY DEF LiveType, Shapes
  <2>2. c = inbox[p][k].change
    BY <1>3
  <2>3. Begun(c) /\ IsOpen(p)
    BY <2>1, <2>2 DEF LiveType, EventsBegun, ClosedHearNothing
  <2>4. call[c].kind \notin TellsEarly
    BY <1>1, <2>3, StoreNeverBack
  <2>5. Settled(c, QueryOf(view[p].kind))
    BY <2>2, <2>4 DEF EventsSettled, EventSettled
  <2> QED  BY <1>2, <2>3, <2>5
<1>4. ASSUME NEW d \in Change, LiveEmit(d), p \in room,
             Reaches(p, NextStep(d).event, NextStep(d).this),
             inbox'[p][n] = [change |-> d, event |-> NextStep(d).event]
      PROVE  Settled(c, QueryOf(view[p].kind))'
  <2>1. AtStep(d, "emit") /\ Begun(d) /\ c = d
    BY <1>4 DEF LiveEmit, EmitEvent, AtStep, Running
  <2>2. call[c].kind \notin TellsEarly
    BY <1>1, <2>1, StoreNeverBack
  <2>3. Settled(c, QueryOf(view[p].kind))
    BY <1>1, <1>4, <2>1, <2>2, TellerIsSettled
  <2>4. IsOpen(p)
    BY <1>4 DEF LiveType, RoomsOpen
  <2> QED  BY <1>2, <2>3, <2>4
<1> QED  BY <1>3, <1>4, InboxFrom

\* A page knows of a change from its event or from the answer, and both come late.
LEMMA ToldSettledNext ==
  ASSUME LiveType, EvictionsKept, EventsSettled, ToldSettled, [LiveNext]_liveVars
  PROVE  ToldSettled'
<1> SUFFICES ASSUME NEW p \in Page, NEW c \in view'[p].told
             PROVE  Settled(c, QueryOf(view[p].kind))'
  BY DEF ToldSettled
<1>1. CacheTypeOK /\ StoreStep
  BY LiveStepInStore DEF LiveType
<1>2. c \in Change
  BY ShapesNext DEF Shapes, PageView
<1>3. ASSUME IsOpen(p), Settled(c, QueryOf(view[p].kind))
      PROVE  Settled(c, QueryOf(view[p].kind))'
  <2>1. PICK query : query = QueryOf(view[p].kind)
    OBVIOUS
  <2>2. Settled(c, query)'
    BY <1>1, <1>2, <1>3, <2>1, SettledStays
  <2>3. query = QueryOf(view'[p].kind)
    BY <1>3, <2>1, PageStays
  <2> QED  BY <2>2, <2>3 DEF Settled
<1>4. CASE c \in view[p].told
  <2>1. IsOpen(p)
    BY <1>4 DEF LiveType, ClosedHearNothing
  <2> QED  BY <1>3, <1>4, <2>1 DEF ToldSettled
<1>5. CASE c \notin view[p].told
  <2>1. ASSUME HandleEvent(p) PROVE Settled(c, QueryOf(view[p].kind))'
    <3>1. inbox[p] # <<>> /\ inbox[p] \in Seq(Message)
      BY <2>1 DEF HandleEvent, LiveType, Shapes
    <3>2. 1 \in DOMAIN inbox[p] /\ Head(inbox[p]) = inbox[p][1]
      BY <3>1
    <3>3. c = inbox[p][1].change /\ call[c].kind \notin TellsEarly
      BY <1>5, <2>1, <3>2, EventView DEF LiveType
    <3>4. Settled(c, QueryOf(view[p].kind))
      BY <1>2, <3>2, <3>3 DEF EventsSettled, EventSettled
    <3>5. IsOpen(p)
      BY <3>1 DEF LiveType, ClosedHearNothing
    <3> QED  BY <1>3, <3>4, <3>5
  <2>2. ASSUME NEW d \in Change, ReceiveReply(d), author[d] = p
        PROVE  Settled(c, QueryOf(view[p].kind))'
    <3>1. c = d /\ call[d].kind \notin TellsEarly
      BY <1>5, <2>2, ReplyView DEF LiveType
    <3>2. view[p].kind = "detail" /\ QueryOf(view[p].kind) = "detail"
      BY <2>2 DEF LiveType, Authors, ReceiveReply, QueryOf, CacheKey
    <3>3. Settled(c, "detail")
      BY <2>2, <3>1, AnswererIsSettled
    <3> QED  BY <1>3, <3>2, <3>3, PageAssumption DEF IsOpen
  <2>3. ASSUME NEW q \in Page, HandleEvent(q), q # p PROVE FALSE
    BY <1>5, <2>3, EventView DEF LiveType
  <2>4. ASSUME NEW d \in Change, ReceiveReply(d), author[d] # p PROVE FALSE
    BY <1>5, <2>4, ReplyView DEF LiveType
  <2>5. ASSUME NEW q \in Page, NEW kind \in PageKind, Open(q, kind) PROVE FALSE
    BY <1>5, <2>5, OpenView DEF LiveType
  <2>6. ASSUME NEW r \in Reader, Receive(r) PROVE FALSE
    BY <1>5, <2>6, ReceiveView DEF LiveType
  <2> QED  BY <1>5, <2>1, <2>2, <2>3, <2>4, <2>5, <2>6, ViewSteps
<1> QED  BY <1>4, <1>5

-----------------------------------------------------------------------------
(* Answers.  AnswersAreFresh is not inductive: what an answer shows depends *)
(* on what was settled when the page asked, and on what the read has still  *)
(* to read.                                                                 *)

\* What a request knows of is settled, and the parts already read show it.
FreshFor(r, c) ==
  /\ Settled(c, reader[r].query)
  /\ reader[r].step = "reading" =>
       \/ c \in reader[r].raced
       \/ \A w \in WritesOf(c) : w[2] \in reader[r].unread \/ w \in reader[r].shows
  /\ reader[r].step = "answered" =>
       c \in reader[r].raced \/ WritesOf(c) \subseteq reader[r].shows

RequestsFresh == \A r \in Reader : \A c \in fetch[r].after : FreshFor(r, c)

\* An answer of a request that is fresh shows what the request knew of.
LEMMA FreshImplied == Fetches /\ RequestsFresh => AnswersAreFresh
  BY DEF RequestsFresh, FreshFor, AnswersAreFresh

\* A read that is not touched, but perhaps raced, stays as fresh as it was.
LEMMA FreshStays ==
  ASSUME CacheTypeOK, StoreStep, NEW r \in Reader, NEW c \in Change, FreshFor(r, c),
         reader'[r].step = reader[r].step, reader'[r].query = reader[r].query,
         reader'[r].unread = reader[r].unread, reader'[r].shows = reader[r].shows,
         reader[r].raced \subseteq reader'[r].raced
  PROVE  FreshFor(r, c)'
<1>1. PICK query : query = reader[r].query
  OBVIOUS
<1>2. Settled(c, query)
  BY <1>1 DEF FreshFor
<1>3. Settled(c, query)' /\ WritesOf(c)' = WritesOf(c)
  BY <1>2, SettledStays, SettledIsWritten
<1>4. Settled(c, reader[r].query)'
  BY <1>1, <1>3 DEF Settled, PastEviction, Begun, Steps
<1> QED  BY <1>3, <1>4 DEF FreshFor

\* A lookup that finds an entry finds the settled change in it, or knows why not.
LEMMA LookupFresh ==
  ASSUME CacheTypeOK, EvictionSticks, StoreStep, NEW r \in Reader, Lookup(r), NEW c \in Change,
         FreshFor(r, c)
  PROVE  FreshFor(r, c)'
<1> DEFINE query == reader[r].query
           entry == cache[Home][query]
           old   == IF online THEN missed[query] ELSE {}
<1>1. reader \in [Reader -> Reading] /\ reader[r] \in Reading /\ UNCHANGED <<stored, call, evicted>>
  BY DEF CacheTypeOK, Lookup
<1>2. Settled(c, query) /\ WritesOf(c)' = WritesOf(c)
  BY <1>1 DEF FreshFor, WritesOf
<1>3. CASE query \in CacheKey /\ entry # None
  <2>1. reader' = [reader EXCEPT ![r] = [@ EXCEPT !.step = "answered",
                     !.shows = entry.shows, !.raced = entry.raced \cup old]]
    BY <1>3 DEF Lookup
  <2>2. reader'[r] = [reader[r] EXCEPT !.step = "answered", !.shows = entry.shows,
                                       !.raced = entry.raced \cup old]
    BY <1>1, <2>1
  <2>3. /\ reader'[r].query = query /\ reader'[r].step = "answered"
        /\ reader'[r].shows = entry.shows /\ reader'[r].raced = entry.raced \cup old
    BY <1>1, <2>2 DEF Reading
  <2>4. Home \in Store /\ (Home = "redis" => online)
    BY DEF Home, Store
  <2>5. c \in evicted[query]
    BY <1>2, <1>3 DEF Settled
  <2>6. \/ WritesOf(c) \subseteq entry.shows
        \/ c \in entry.raced
        \/ Home = "redis" /\ c \in missed[query]
    BY <1>3, <2>4, <2>5 DEF EvictionSticks
  <2>7. c \in reader'[r].raced \/ WritesOf(c) \subseteq reader'[r].shows
    BY <2>3, <2>4, <2>6
  <2>8. Settled(c, reader[r].query)'
    BY <1>1, <1>2, <2>3 DEF Settled, PastEviction, Begun, Steps
  <2> QED  BY <1>2, <2>3, <2>7, <2>8 DEF FreshFor
<1>4. CASE ~(query \in CacheKey /\ entry # None)
  <2>1. reader' = [reader EXCEPT ![r] = [@ EXCEPT !.step = "reading", !.unread = Part]]
    BY <1>4 DEF Lookup
  <2>2. /\ reader'[r].query = query /\ reader'[r].step = "reading"
        /\ reader'[r].unread = Part
    BY <1>1, <2>1 DEF Reading
  <2>3. \A w \in WritesOf(c) : w[2] \in Part
    BY DEF CacheTypeOK, Write, WritesOf
  <2>4. Settled(c, reader[r].query)'
    BY <1>1, <1>2, <2>2 DEF Settled, PastEviction, Begun, Steps
  <2> QED  BY <1>2, <2>2, <2>3, <2>4 DEF FreshFor
<1> QED  BY <1>3, <1>4

\* A read shows what it has read, and an answer what was read in full.
LEMMA ReadFresh ==
  ASSUME CacheTypeOK, StoreStep, NEW r \in Reader, NEW part \in Part, Read(r, part),
         NEW c \in Change, FreshFor(r, c)
  PROVE  FreshFor(r, c)'
<1>1. /\ reader \in [Reader -> Reading] /\ reader[r] \in Reading
      /\ UNCHANGED <<stored, call, evicted>> /\ reader[r].step = "reading"
  BY DEF CacheTypeOK, Read
<1>2. /\ reader'[r].query = reader[r].query /\ reader'[r].step = reader[r].step
      /\ reader'[r].unread = reader[r].unread \ {part}
      /\ reader'[r].shows = reader[r].shows \cup {w \in stored : w[2] = part}
      /\ reader'[r].raced = reader[r].raced
  BY <1>1 DEF Read, Reading
<1>3. WritesOf(c)' = WritesOf(c) /\ WritesOf(c) \subseteq stored
  BY <1>1 DEF WritesOf
<1>4. Settled(c, reader[r].query)'
  BY <1>1, <1>2 DEF FreshFor, Settled, PastEviction, Begun, Steps
<1>5. \/ c \in reader[r].raced
      \/ \A w \in WritesOf(c) : w[2] \in reader[r].unread \/ w \in reader[r].shows
  BY <1>1 DEF FreshFor
<1>6. \/ c \in reader'[r].raced
      \/ \A w \in WritesOf(c) : w[2] \in reader'[r].unread \/ w \in reader'[r].shows
  BY <1>2, <1>3, <1>5
<1> QED  BY <1>1, <1>2, <1>3, <1>4, <1>6 DEF FreshFor

\* A read that has read all parts answers with the settled changes.
LEMMA FillFresh ==
  ASSUME CacheTypeOK, NEW r \in Reader, Fill(r), NEW c \in Change, FreshFor(r, c)
  PROVE  FreshFor(r, c)'
<1>1. /\ reader \in [Reader -> Reading] /\ reader[r] \in Reading
      /\ UNCHANGED <<stored, call, evicted>>
      /\ reader[r].step = "reading" /\ reader[r].unread = {}
  BY DEF CacheTypeOK, Fill
<1>2. /\ reader'[r].query = reader[r].query /\ reader'[r].step = "answered"
      /\ reader'[r].shows = reader[r].shows /\ reader'[r].raced = reader[r].raced
  BY <1>1 DEF Fill, Reading
<1>3. WritesOf(c)' = WritesOf(c)
  BY <1>1 DEF WritesOf
<1>4. Settled(c, reader[r].query)'
  BY <1>1, <1>2 DEF FreshFor, Settled, PastEviction, Begun, Steps
<1>5. c \in reader[r].raced \/ WritesOf(c) \subseteq reader[r].shows
  BY <1>1 DEF FreshFor
<1> QED  BY <1>2, <1>3, <1>4, <1>5 DEF FreshFor

\* Every step keeps every request fresh.
LEMMA RequestsFreshNext ==
  ASSUME LiveType, EvictionSticks, ToldSettled', RequestsFresh, [LiveNext]_liveVars
  PROVE  RequestsFresh'
<1> SUFFICES ASSUME NEW r \in Reader, NEW c \in fetch'[r].after
             PROVE  FreshFor(r, c)'
  BY DEF RequestsFresh
<1>1. /\ CacheTypeOK /\ StoreStep
      /\ reader \in [Reader -> Reading] /\ fetch \in [Reader -> Asked \cup {NoFetch}]
  BY LiveStepInStore DEF LiveType, CacheTypeOK, Fetches
<1>2. NoFetch.after = {} /\ Asked = [page : Page, full : BOOLEAN, after : SUBSET Change]
  BY DEF NoFetch, Asked
<1>3. ASSUME fetch'[r] = fetch[r] PROVE c \in Change /\ FreshFor(r, c)
  <2>1. fetch[r].after \subseteq Change
    BY <1>1, <1>2
  <2> QED  BY <1>3, <2>1 DEF RequestsFresh
<1>4. ASSUME fetch'[r] = fetch[r], reader'[r] = reader[r] PROVE FreshFor(r, c)'
  BY <1>1, <1>3, <1>4, FreshStays
<1>5. ASSUME PageAsks PROVE FreshFor(r, c)'
  <2>1. PICK s \in Reader, p \in Page, full \in BOOLEAN, told \in SUBSET Change :
               Asks(s, p, full, told)
    BY <1>5 DEF PageAsks
  <2>2. /\ fetch' = [fetch EXCEPT ![s] = [page |-> p, full |-> full, after |-> told]]
        /\ Ask(s, QueryOf(view'[p].kind)) /\ told \subseteq view'[p].told
    BY <2>1 DEF Asks, Request
  <2>3. CASE r # s
    BY <1>1, <1>4, <2>2, <2>3 DEF Ask
  <2>4. CASE r = s
    <3>1. c \in view'[p].told
      BY <1>1, <2>2, <2>4
    <3>2. Settled(c, QueryOf(view[p].kind))'
      BY <3>1 DEF ToldSettled
    <3>3. reader'[r].step = "lookup" /\ reader'[r].query = QueryOf(view'[p].kind)
      BY <1>1, <2>2, <2>4 DEF Ask, Idle
    <3>4. Settled(c, reader[r].query)'
      BY <3>2, <3>3 DEF Settled
    <3> QED  BY <3>3, <3>4 DEF FreshFor
  <2> QED  BY <2>3, <2>4
<1>6. ASSUME NEW s \in Reader, Receive(s) PROVE FreshFor(r, c)'
  <2>1. fetch' = [fetch EXCEPT ![s] = NoFetch] /\ reader' = [reader EXCEPT ![s] = Idle]
    BY <1>6 DEF Receive, Answer
  <2>2. CASE r # s
    BY <1>1, <1>4, <2>1, <2>2
  <2>3. CASE r = s
    BY <1>1, <1>2, <2>1, <2>3
  <2> QED  BY <2>2, <2>3
<1>7. ASSUME NEW s \in Reader, LiveReader(s) PROVE FreshFor(r, c)'
  <2>1. ReaderStep(s) /\ fetch' = fetch
    BY <1>7 DEF LiveReader, clientVars
  <2>2. CASE r # s
    <3>1. reader'[r] = reader[r]
      BY <1>1, <2>1, <2>2 DEF ReaderStep, Lookup, Read, Fill
    <3> QED  BY <1>4, <2>1, <3>1
  <2>3. CASE r = s
    <3>1. c \in Change /\ FreshFor(r, c)
      BY <1>3, <2>1
    <3>2. CASE Lookup(r)
      BY <1>1, <3>1, <3>2, LookupFresh
    <3>3. CASE \E part \in Part : Read(r, part)
      BY <1>1, <3>1, <3>3, ReadFresh
    <3>4. CASE Fill(r)
      BY <1>1, <3>1, <3>4, FillFresh
    <3> QED  BY <2>1, <2>3, <3>2, <3>3, <3>4 DEF ReaderStep
  <2> QED  BY <2>2, <2>3
<1>8. ASSUME NEW d \in Change, LiveHandler(d) PROVE FreshFor(r, c)'
  <2>1. HandlerStep(d) /\ fetch' = fetch
    BY <1>8 DEF LiveHandler, clientVars
  <2>2. CASE SaveWrite(d) \/ LogEvent(d)
    BY <1>4, <2>1, <2>2 DEF SaveWrite, LogEvent
  <2>3. ASSUME NEW key \in CacheKey, Evict(d, key) PROVE FreshFor(r, c)'
    <3>1. reader'[r] = IF reader[r].step = "reading" /\ reader[r].query = key
                       THEN [reader[r] EXCEPT !.raced = @ \cup {d}] ELSE reader[r]
      BY <2>3 DEF Evict
    <3>2. /\ reader'[r].step = reader[r].step /\ reader'[r].query = reader[r].query
          /\ reader'[r].unread = reader[r].unread /\ reader'[r].shows = reader[r].shows
          /\ reader[r].raced \subseteq reader'[r].raced
      BY <1>1, <3>1 DEF Reading
    <3> QED  BY <1>1, <1>3, <2>1, <3>2, FreshStays
  <2> QED  BY <2>1, <2>2, <2>3 DEF HandlerStep
<1>9. CASE LiveCrash
  BY <1>2, <1>9 DEF LiveCrash
<1>10. CASE UNCHANGED <<reader, fetch>>
  BY <1>4, <1>10
<1> QED  BY <1>5, <1>6, <1>7, <1>8, <1>9, <1>10, RequestSteps

LiveInv ==
  /\ LiveType /\ CacheInv /\ EvictionsKept
  /\ EventsSettled /\ ToldSettled /\ RequestsFresh

\* The invariant holds at first.
LEMMA LiveInvInit == LiveInit => LiveInv
<1> SUFFICES ASSUME LiveInit PROVE LiveInv
  OBVIOUS
<1>1. CacheInit
  BY DEF LiveInit
<1>2. DOMAIN <<>> = {}
  OBVIOUS
<1>3. EventsSettled /\ ToldSettled /\ RequestsFresh
  BY <1>2 DEF LiveInit, EventsSettled, ToldSettled, RequestsFresh, Closed, NoFetch
<1> QED  BY <1>1, <1>3, LiveTypeInit, CacheInvInit, EvictionsKeptInit DEF LiveInv

\* Every step preserves the invariant.
LEMMA LiveInvNext == LiveInv /\ [LiveNext]_liveVars => LiveInv'
<1> SUFFICES ASSUME LiveInv, [LiveNext]_liveVars PROVE LiveInv'
  OBVIOUS
<1>1. StoreStep /\ CacheTypeOK
  BY LiveStepInStore DEF LiveInv, LiveType
<1>2. LiveType'
  BY LiveTypeNext DEF LiveInv
<1>3. CacheInv' /\ EvictionsKept'
  BY <1>1, StoreInvNext, EvictionsKeptNext DEF LiveInv
<1>4. EventsSettled' /\ ToldSettled'
  BY EventsSettledNext, ToldSettledNext DEF LiveInv
<1>5. RequestsFresh'
  BY <1>4, RequestsFreshNext DEF LiveInv, CacheInv
<1> QED  BY <1>2, <1>3, <1>4, <1>5 DEF LiveInv

\* A page that asks because it was told of a change, by an event or by the
\* answer to its own request, gets an answer that shows all of the change,
\* whatever else is under way, for any number of tabs, changes, requests and
\* faults: every handler outside TellsEarly saves, then evicts, then tells
\* (all plans), both stores hold nothing that was evicted but a raced fill or a
\* copy that could not be reached, and a read begun after the event sees every
\* save before it.
THEOREM FreshAnswers == LiveSpec => []AnswersAreFresh
<1>1. LiveInv => AnswersAreFresh
  BY FreshImplied DEF LiveInv, LiveType
<1> QED  BY <1>1, LiveInvInit, LiveInvNext, PTL DEF LiveSpec
=============================================================================
