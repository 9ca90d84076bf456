------------------------------ MODULE LiveView ------------------------------
(***************************************************************************)
(* The pages of the web client over DetailCache: the gateway's rooms, the  *)
(* socket of each browser tab, and the pages that patch or refetch what    *)
(* they show.  Events travel in order on one socket; answers of GET and    *)
(* POST requests travel on their own and arrive in any order.              *)
(*                                                                         *)
(* A page is one tab with one page open; what it shows is a set of writes. *)
(***************************************************************************)
EXTENDS DetailCache

CONSTANTS
  Page,      \* browser tabs
  PageKind   \* the kinds of pages users open

ASSUME PageAssumption ==
  /\ PageKind \subseteq {"detail", "overview", "queue", "alerts"}
  /\ None \notin Page \cup {"detail", "overview", "queue", "alerts"}

VARIABLES
  link,     \* the socket of a tab: "new" until its first connection
  leaving,  \* the pages whose leave message is on its way
  joining,  \* the pages whose join message is on its way, behind it
  room,     \* the pages the gateway has in the room of their kind
  inbox,    \* events on their way to each page
  view,     \* what is open in each tab, and what it shows
  author,   \* the page whose user made a change, or None
  fetch,    \* for each reader the page that asked, and why
  replied,  \* the changes whose author has the answer
  watched   \* history: <<c, p>>, c began with p in its room and nothing else
            \* going on, and nothing else has happened since

clientVars == <<link, leaving, joining, room, inbox, view, author, fetch, replied, watched>>
liveVars == <<cacheVars, clientVars>>

Closed == [kind |-> None, loaded |-> FALSE, shows |-> {}, told |-> {}]
NoFetch == [page |-> None, full |-> FALSE, after |-> {}]

IsOpen(p) == view[p].kind # None

\* The query behind a page.
QueryOf(kind) == IF kind \in CacheKey THEN kind ELSE "list"

-----------------------------------------------------------------------------
(* The gateway: which events go to which room, and which a page listens to. *)

DashboardEvents == {"incident:created", "incident:updated", "incident:status_changed",
                    "incident:severity_changed", "incident:assigned", "alert:associated"}

\* Mistake: incident events go to the dashboard room alone.
toDashboardOnly(p, event, this) ==
  view[p].kind # "detail" /\ event \in DashboardEvents

\* The emit helpers: the incident's room hears everything about it but its
\* creation, the dashboard room the events named above.
Reaches(p, event, this) ==
  IF view[p].kind = "detail" THEN this /\ event # "incident:created"
  ELSE event \in DashboardEvents

Hears(p) ==
  CASE view[p].kind = "overview" -> DashboardEvents \* and ai:*, never sent there
    [] view[p].kind = "queue"    -> DashboardEvents \ {"alert:associated"}
    [] view[p].kind = "alerts"   -> {"alert:associated", "incident:created"}

\* The part of the detail page that the payload of an event brings up to date.
PartOf(event) ==
  IF event \in DashboardEvents \ {"alert:associated"} THEN "incident" ELSE "lists"

\* onAIEvent loads the whole detail again for these.
ReloadEvents == {"ai:completed", "ai:action_executed", "ai:action_rejected"}

\* Kinds whose events tell of what they have not evicted, or never will.
TellsEarly == {"escalate", "correlate", "approve", "investigate", "failJob"}

\* The kinds whose request the detail page sends; update stands for relate and
\* unrelate too.
MadeOnDetail == {"investigate", "approve", "reject", "status", "severity", "assign", "comment",
                 "newTask", "task", "noTask", "update", "merge"}

-----------------------------------------------------------------------------
(* Requests of a page. *)

Free == {r \in Reader : reader[r].step = "idle"}

\* The GET behind a page: the whole answer, or the audit entries alone
\* (refreshAudit).  told are the changes the page knows of when it asks.
Request(r, p, kind, full, told) ==
  /\ Ask(r, QueryOf(kind))
  /\ fetch' = [fetch EXCEPT ![r] = [page |-> p, full |-> full, after |-> told]]

NoRequest == UNCHANGED <<cacheVars, fetch>>

\* Something happens beside the change that is watched.
Disturb == watched' = {}

Open(p, kind) ==
  /\ ~IsOpen(p)
  /\ view' = [view EXCEPT ![p].kind = kind]
  \* The pages but the detail join as they open, if the socket is connected.
  /\ joining' = IF kind # "detail" /\ link[p] = "up"
                THEN joining \cup {p} ELSE joining
  /\ \E r \in Free : Request(r, p, kind, TRUE, {})
  /\ Disturb
  /\ UNCHANGED <<link, leaving, room, inbox, author, replied>>

\* The answer arrives.  The detail page joins when its incident is first known,
\* if the socket is connected then; its effect does not run again.
Receive(r) ==
  LET p == fetch[r].page
      first == ~view[p].loaded IN
  /\ Answer(r)
  /\ fetch' = [fetch EXCEPT ![r] = NoFetch]
  /\ IF fetch[r].full
     THEN /\ view' = [view EXCEPT ![p].loaded = TRUE, ![p].shows = reader[r].shows]
          /\ joining' = IF first /\ view[p].kind = "detail" /\ link[p] = "up"
                        THEN joining \cup {p} ELSE joining
     ELSE UNCHANGED <<view, joining>>
  /\ UNCHANGED <<link, leaving, room, inbox, author, replied, watched>>

\* A user of the queue or the alerts changes a filter: the page leaves its room,
\* joins it again and loads.  Users wait until the gateway has had the messages
\* of the last change of a filter, which bounds what is on its way.
Refilter(p) ==
  /\ view[p].loaded
  /\ view[p].kind \in {"queue", "alerts"}
  /\ p \notin joining
  /\ IF link[p] = "up"
     THEN leaving' = leaving \cup {p} /\ joining' = joining \cup {p}
     ELSE UNCHANGED <<leaving, joining>>
  /\ \E r \in Free : Request(r, p, view[p].kind, TRUE, view[p].told)
  /\ Disturb
  /\ UNCHANGED <<link, room, inbox, view, author, replied>>

-----------------------------------------------------------------------------
(* The socket. *)

\* Mistake: a page does not load again when its socket is back.
ConnectSilently(p) ==
  /\ link[p] # "up"
  /\ link' = [link EXCEPT ![p] = "up"]
  /\ NoRequest
  /\ UNCHANGED <<leaving, joining, room, inbox, view, author, replied, watched>>

\* The first connection changes nothing on a page; a later one raises the
\* epoch, and every page loads again.  Neither joins a room.
Connect(p) ==
  /\ link[p] # "up"
  /\ link' = [link EXCEPT ![p] = "up"]
  /\ IF link[p] = "down" /\ IsOpen(p)
     THEN /\ \E r \in Free : Request(r, p, view[p].kind, TRUE, view[p].told)
          /\ Disturb
     ELSE NoRequest /\ UNCHANGED watched
  /\ UNCHANGED <<leaving, joining, room, inbox, view, author, replied>>

\* Mistake: a closed socket stays in its room.
StaleRoom(p) == room

\* socket.io takes a closed socket out of its rooms.
RoomWithout(p) == room \ {p}

\* With the connection go the membership and what was on its way; one of the
\* MaxFaults faults.
Drop(p) ==
  /\ link[p] = "up"
  /\ faults < MaxFaults
  /\ faults' = faults + 1
  /\ link' = [link EXCEPT ![p] = "down"]
  /\ leaving' = leaving \ {p}
  /\ joining' = joining \ {p}
  /\ room' = RoomWithout(p)
  /\ inbox' = [inbox EXCEPT ![p] = <<>>]
  /\ Disturb
  /\ UNCHANGED <<stored, call, online, cache, reader, evicted, missed>>
  /\ UNCHANGED <<view, author, fetch, replied>>

\* handleLeaveDashboard: until the join is handled the page hears nothing.
Leave(p) ==
  /\ p \in leaving
  /\ leaving' = leaving \ {p}
  /\ room' = RoomWithout(p)
  /\ UNCHANGED <<cacheVars, link, joining, inbox, view, author, fetch, replied, watched>>

\* handleJoinIncident, handleJoinDashboard.
Join(p) ==
  /\ p \in joining \ leaving
  /\ joining' = joining \ {p}
  /\ room' = room \cup {p}
  /\ UNCHANGED <<cacheVars, link, leaving, inbox, view, author, fetch, replied, watched>>

-----------------------------------------------------------------------------
(* Changes and their events. *)

Quiet == /\ Free = Reader
         /\ online
         /\ \A c \in Change : ~Running(c)
         /\ leaving = {} /\ \A p \in Page : inbox[p] = <<>>

\* A call is made on a detail page that is loaded, or by somebody else.
LiveBegin(c, kind, p) ==
  /\ p # None => view[p].loaded /\ view[p].kind = "detail" /\ kind \in MadeOnDetail
  /\ Begin(c, kind)
  /\ author' = [author EXCEPT ![c] = p]
  /\ watched' = IF Quiet THEN {c} \X room ELSE {}
  /\ UNCHANGED <<link, leaving, joining, room, inbox, view, fetch, replied>>

LiveEmit(c) ==
  LET step == NextStep(c)
      message == [change |-> c, event |-> step.event] IN
  /\ EmitEvent(c)
  /\ inbox' = [p \in Page |-> IF p \in room /\ Reaches(p, step.event, step.this)
                              THEN Append(inbox[p], message) ELSE inbox[p]]
  /\ UNCHANGED <<link, leaving, joining, room, view, author, fetch, replied, watched>>

LiveHandler(c) == HandlerStep(c) /\ UNCHANGED clientVars

\* A page handles the next event: the detail page patches what it shows (adds
\* an item to a list) and refreshes its audit entries, or loads again; the
\* others load again.
HandleEvent(p) ==
  LET m == Head(inbox[p])
      w == <<m.change, PartOf(m.event)>>
      told == view[p].told \cup
              (IF call[m.change].kind \in TellsEarly THEN {} ELSE {m.change}) IN
  /\ inbox[p] # <<>>
  /\ inbox' = [inbox EXCEPT ![p] = Tail(@)]
  /\ IF view[p].kind = "detail"
     THEN /\ view' = [(IF m.event \in ReloadEvents THEN view
                       ELSE [view EXCEPT ![p].shows = @ \cup {w}])
                      EXCEPT ![p].told = told]
          /\ IF m.event \in {"ai:queued", "ai:failed"} THEN NoRequest
             ELSE \E r \in Free : Request(r, p, "detail", m.event \in ReloadEvents, told)
     ELSE /\ view' = [view EXCEPT ![p].told = told]
          /\ IF m.event \in Hears(p)
             THEN \E r \in Free : Request(r, p, view[p].kind, TRUE, told)
             ELSE NoRequest
  /\ UNCHANGED <<link, leaving, joining, room, author, replied, watched>>

\* The author's own POST is answered: a review, a merge and a change of links
\* load the page again; anything else is patched (a new comment or task is
\* appended), and the audit entries are refreshed, but after an investigate call.
ReloadingKinds == {"approve", "reject", "update", "merge"}

ReceiveReply(c) ==
  LET p == author[c]
      kind == call[c].kind
      told == view[p].told \cup (IF kind \in TellsEarly THEN {} ELSE {c}) IN
  /\ p # None
  /\ Over(c) /\ ~call[c].failed
  /\ c \notin replied
  /\ replied' = replied \cup {c}
  /\ view' = [(IF kind \in ReloadingKinds THEN view
               ELSE [view EXCEPT ![p].shows = @ \cup WritesOf(c)])
              EXCEPT ![p].told = told]
  /\ IF kind = "investigate" THEN NoRequest
     ELSE \E r \in Free : Request(r, p, "detail", kind \in ReloadingKinds, told)
  /\ UNCHANGED <<link, leaving, joining, room, inbox, author, watched>>

-----------------------------------------------------------------------------
LiveInit ==
  /\ CacheInit
  /\ link = [p \in Page |-> "new"]
  /\ leaving = {} /\ joining = {}
  /\ room = {}
  /\ inbox = [p \in Page |-> <<>>]
  /\ view = [p \in Page |-> Closed]
  /\ author = [c \in Change |-> None]
  /\ fetch = [r \in Reader |-> NoFetch]
  /\ replied = {}
  /\ watched = {}

LiveReader(r) == ReaderStep(r) /\ UNCHANGED clientVars

LiveExpire(s, key) == Expire(s, key) /\ UNCHANGED clientVars

LiveRedis ==
  /\ LoseRedis \/ RegainRedis
  /\ Disturb
  /\ UNCHANGED <<link, leaving, joining, room, inbox, view, author, fetch, replied>>

\* The process dies: requests fail, and every socket drops.
LiveCrash ==
  /\ Crash
  /\ link' = [p \in Page |-> IF link[p] = "up" THEN "down" ELSE link[p]]
  /\ leaving' = {} /\ joining' = {}
  /\ room' = {}
  /\ inbox' = [p \in Page |-> <<>>]
  /\ fetch' = [r \in Reader |-> NoFetch]
  /\ Disturb
  /\ UNCHANGED <<view, author, replied>>

PageStep(p) == Connect(p) \/ Leave(p) \/ Join(p) \/ HandleEvent(p)

LiveNext ==
  \/ \E c \in Change : \/ \E kind \in Kind, p \in Page \cup {None} : LiveBegin(c, kind, p)
                       \/ LiveHandler(c) \/ LiveEmit(c) \/ ReceiveReply(c)
  \/ \E r \in Reader : LiveReader(r) \/ Receive(r)
  \/ \E p \in Page : \/ \E kind \in PageKind : Open(p, kind)
                     \/ PageStep(p) \/ Drop(p) \/ Refilter(p)
  \/ \E s \in Store, key \in CacheKey : LiveExpire(s, key)
  \/ LiveRedis
  \/ LiveCrash

LiveSpec == LiveInit /\ [][LiveNext]_liveVars

\* The back end goes on with what it has begun, sockets connect again, and the
\* browser handles what arrives.  Nobody has to open a page or make a change.
LiveFairness ==
  /\ \A c \in Change : WF_liveVars(LiveHandler(c) \/ LiveEmit(c)) /\ WF_liveVars(ReceiveReply(c))
  /\ \A r \in Reader : WF_liveVars(LiveReader(r) \/ Receive(r))
  /\ \A p \in Page : /\ WF_liveVars(Connect(p)) /\ WF_liveVars(HandleEvent(p))
                      /\ WF_liveVars(Leave(p)) /\ WF_liveVars(Join(p))

FairLiveSpec == LiveSpec /\ LiveFairness

-----------------------------------------------------------------------------
(* Properties. *)

\* Type correctness of the pages and their sockets.
LiveTypeOK ==
  /\ CacheTypeOK
  /\ link \in [Page -> {"new", "up", "down"}]
  /\ leaving \subseteq joining /\ joining \subseteq Page /\ room \subseteq Page
  /\ \A p \in joining \cup room : link[p] = "up" /\ IsOpen(p)
  /\ \A p \in Page : \A n \in DOMAIN inbox[p] :
       /\ inbox[p][n].change \in Change
       /\ Begun(inbox[p][n].change)
  /\ view \in [Page -> [kind : PageKind \cup {None}, loaded : BOOLEAN, shows : SUBSET Write,
                        told : SUBSET Change]]
  /\ \A r \in Reader : (reader[r].step = "idle") <=> (fetch[r] = NoFetch)
  /\ author \in [Change -> Page \cup {None}]
  /\ replied \subseteq Change
  /\ watched \subseteq Change \X Page

\* A page that asks because of an event, or because its own request was
\* answered, gets an answer that shows that change, through both caches and
\* whatever else is under way: the handlers evict before they tell.  Excepted
\* are the kinds that tell early (TellsEarly), a fill that raced the eviction,
\* and an entry of Redis that an eviction could not reach.
AnswersAreFresh ==
  \A r \in Reader : reader[r].step = "answered" =>
    \A c \in fetch[r].after :
      WritesOf(c) \subseteq reader[r].shows \/ c \in reader[r].raced

\* What happened while a socket was down is not lost: a page that is open on a
\* closed socket when a change is over, evictions and all, shows that change in
\* the end, without its events and whatever else fails meanwhile: the reconnect
\* raises the epoch, the page loads again, and the caches have been evicted.
\* Excepted is an answer of a fill that raced the eviction, or of an entry of
\* Redis that the eviction could not reach.
PagesCatchUp ==
  \A c \in Change, p \in Page :
    /\ IsOpen(p) /\ link[p] = "down"
    /\ Over(c)
    /\ QueryOf(view[p].kind) \in CacheKey => c \in evicted[QueryOf(view[p].kind)]
    ~> \/ WritesOf(c) \subseteq view[p].shows
       \/ \E r \in Reader : fetch[r].page = p /\ c \in reader[r].raced

\* Whether a page shows what all events of a change say that are about its
\* incident, or that it listens to.
ShownOn(p, c) ==
  LET emits == {n \in DOMAIN Steps(c) : Steps(c)[n].op = "emit"} IN
  IF view[p].kind = "detail"
  THEN \A n \in emits : Steps(c)[n].this => <<c, PartOf(Steps(c)[n].event)>> \in view[p].shows
  ELSE (\E n \in emits : Steps(c)[n].event \in Hears(p)) => WritesOf(c) \subseteq view[p].shows

\* A change that begins while a page is in its room and nothing else is going
\* on, and that nothing disturbs, is shown there in the end without a reload by
\* the user.
QuietChangeIsShown ==
  \A c \in Change, p \in Page :
    <<c, p>> \in watched ~>
      \/ <<c, p>> \notin watched
      \/ call[c].failed
      \/ call[c].kind \in TellsEarly
      \/ ShownOn(p, c)

\* "Subscribed to by the operations overview and incident queue": a page that is
\* loaded while its socket is connected gets into its room.
PagesJoin ==
  \A p \in Page : (view[p].loaded /\ link[p] = "up") ~> (p \in room \/ link[p] # "up")
=============================================================================
