-------------------------- MODULE DirectoryProofs --------------------------
(***************************************************************************)
(* Proofs about Directory, for any number of accounts, teams, browsers and *)
(* calls: types, that a save undoes nothing another admin decided, that an *)
(* edit replaces the responsibilities it has read, and that who joins a    *)
(* team, or is made the lead of one that is there, was eligible during the *)
(* call.                                                                   *)
(***************************************************************************)
EXTENDS Directory, TLAPS

CallField     == {"step", "kind", "id", "body", "loaded"}
UnderwayStep  == {"load", "check", "save", "remove", "find", "add"}

\* What the call about a team, or its form, may give.
TeamBody(b) ==
  \/ DOMAIN b = {"lead", "services"} /\ b.lead \in User \cup {None} /\ b.services \in Service
  \/ DOMAIN b = {"archived"} /\ b.archived \in BOOLEAN

UserBody(b) ==
  /\ DOMAIN b = {"role", "team", "active"}
  /\ b.role \in Role /\ b.team \in Team \cup {None} /\ b.active \in BOOLEAN

MemberBody(b) ==
  /\ DOMAIN b = {"add", "remove"}
  /\ b.add \in DOMAIN users \cup {None} /\ b.remove \in DOMAIN users \cup {None}

\* What a call names is there, and what it gives is of its kind.
BodyInv(c) ==
  /\ c.kind = "team"     => c.id \in DOMAIN teams /\ TeamBody(c.body)
  /\ c.kind = "user"     => c.id \in DOMAIN users /\ UserBody(c.body)
  /\ c.kind = "password" => /\ c.id \in DOMAIN users
                            /\ DOMAIN c.body = {"secret"} /\ c.body.secret \in Desk
  /\ c.kind = "members"  => c.id \in DOMAIN teams /\ MemberBody(c.body)
  /\ c.kind = "newUser"  => /\ c.id \in User /\ DOMAIN c.body = {"role", "team"}
                            /\ c.body.role \in Role /\ c.body.team \in Team \cup {None}
  /\ c.kind = "newTeam"  => /\ c.id \in Team /\ DOMAIN c.body = {"lead"}
                            /\ c.body.lead \in User \cup {None}

\* The copy an edit has loaded is a version the team had; as long as that is
\* the version it has, its responsibilities are those of the copy.
CopyInv(c) ==
  /\ c.kind = "team" =>
       /\ c.loaded \in TeamDoc
       /\ c.loaded.ver <= teams[c.id].ver
       /\ c.loaded.ver = teams[c.id].ver => c.loaded.services = teams[c.id].services
  /\ c.kind \in {"user", "password"} => c.loaded \in Account

\* Which steps a call takes, and what it holds there.
StepInv(c) ==
  /\ c.step \in {"idle", "form", "compare", "sign"} \cup UnderwayStep
  /\ c.step = "compare" => c.loaded \in Account
  /\ c.step = "form" => c.kind \in {"team", "user"} /\ "archived" \notin DOMAIN c.body
  /\ c.step \in {"form"} \cup UnderwayStep => BodyInv(c)
  /\ c.step \in UnderwayStep =>
       c.kind \in {"team", "user", "password", "members", "newUser", "newTeam"}
  /\ c.step \in {"check", "save"} => c.kind # "members" /\ CopyInv(c)
  /\ c.step \in {"remove", "find", "add"} => c.kind = "members"
  /\ c.step \in {"find", "add"} => c.body.add # None
  /\ c.step = "check" => \/ c.kind = "team" /\ "lead" \in DOMAIN c.body /\ c.body.lead # None
                         \/ c.kind \in {"user", "newUser"} /\ c.body.team # None

\* What a call has seen to be open or active since it began.
SeenInv(d) ==
  /\ At(d, "team", "save") /\ "lead" \in DOMAIN desk[d].body /\ desk[d].body.lead # None =>
       desk[d].body.lead \in allowed[d]
  /\ desk[d].step = "save" /\ desk[d].kind \in {"user", "newUser"} /\ desk[d].body.team # None =>
       desk[d].body.team \in allowed[d]
  /\ desk[d].step \in {"remove", "find", "add"} => desk[d].id \in allowed[d]
  /\ desk[d].step = "add" => desk[d].body.add \in allowed[d]

DeskInv(d) == DOMAIN desk[d] = CallField /\ StepInv(desk[d]) /\ SeenInv(d)

\* The collections hold documents of their schemas.
DocsInv ==
  /\ DOMAIN users \subseteq User /\ \A u \in DOMAIN users : users[u] \in Account
  /\ DOMAIN teams \subseteq Team /\ \A t \in DOMAIN teams : teams[t] \in TeamDoc

SessionInv ==
  /\ token \in [Desk -> SUBSET Tokens]
  /\ badge \in [Desk -> Role \cup {None}]
  /\ calls \in 0..MaxCalls
  /\ allowed \in [Desk -> SUBSET (User \cup Team)]

DirectoryInv ==
  /\ DocsInv
  /\ SessionInv
  /\ DOMAIN desk = Desk
  /\ \A d \in Desk : DeskInv(d)

-----------------------------------------------------------------------------
(* What lasts. *)

\* No document is lost, and responsibilities change with the version.
Later ==
  /\ DOMAIN users \subseteq DOMAIN users'
  /\ DOMAIN teams \subseteq DOMAIN teams'
  /\ \A t \in DOMAIN teams :
       /\ teams[t].ver <= teams'[t].ver
       /\ teams[t].ver = teams'[t].ver => teams[t].services = teams'[t].services

\* Only desk d moves.
Alone(d) ==
  /\ DOMAIN desk' = Desk
  /\ \A q \in Desk \ {d} : desk'[q] = desk[q]

\* The sessions and the count of calls keep their types.
SessionsTyped ==
  /\ token' \in [Desk -> SUBSET Tokens]
  /\ badge' \in [Desk -> Role \cup {None}]
  /\ calls' \in 0..MaxCalls

\* A step that leaves the collections alone loses nothing of them.
LEMMA LaterSame ==
  ASSUME DocsInv, UNCHANGED <<users, teams>>
  PROVE  Later /\ DocsInv'
<1>1. \A t \in DOMAIN teams : teams[t].ver \in Nat
  BY DEF DocsInv, TeamDoc
<1> QED  BY <1>1 DEF Later, DocsInv

\* What a call names stays there: no document is ever removed.
LEMMA BodyStays ==
  ASSUME Later, NEW c, BodyInv(c)
  PROVE  BodyInv(c)'
BY DEF Later, BodyInv, TeamBody, UserBody, MemberBody

\* A loaded copy stays a version the team had, whoever saves in between.
LEMMA CopyStays ==
  ASSUME DocsInv, DocsInv', Later, NEW c, CopyInv(c), c.kind = "team" => c.id \in DOMAIN teams
  PROVE  CopyInv(c)'
<1>1. ASSUME c.kind = "team"
      PROVE  /\ c.loaded \in TeamDoc
             /\ c.loaded.ver <= teams'[c.id].ver
             /\ c.loaded.ver = teams'[c.id].ver => c.loaded.services = teams'[c.id].services
  <2>1. /\ c.loaded.ver \in Nat /\ c.loaded.ver <= teams[c.id].ver
        /\ c.loaded.ver = teams[c.id].ver => c.loaded.services = teams[c.id].services
        /\ c.loaded \in TeamDoc
    BY <1>1 DEF CopyInv, TeamDoc
  <2>2. /\ teams[c.id].ver <= teams'[c.id].ver
        /\ teams[c.id].ver = teams'[c.id].ver => teams[c.id].services = teams'[c.id].services
        /\ teams[c.id] \in TeamDoc /\ teams'[c.id] \in TeamDoc
    BY <1>1 DEF Later, DocsInv
  <2>3. teams[c.id].ver \in Nat /\ teams'[c.id].ver \in Nat
    BY <2>2 DEF TeamDoc
  <2> QED  BY <2>1, <2>2, <2>3
<1> QED  BY <1>1 DEF CopyInv

\* A call that does not move stays as it is.
LEMMA StepStays ==
  ASSUME DocsInv, DocsInv', Later, NEW c, StepInv(c)
  PROVE  StepInv(c)'
<1>1. c.step \in {"form"} \cup UnderwayStep => BodyInv(c)'
  BY BodyStays DEF StepInv
<1>2. c.step \in {"check", "save"} => CopyInv(c)'
  <2>1. c.step \in {"check", "save"} => CopyInv(c) /\ BodyInv(c)
    BY DEF StepInv, UnderwayStep
  <2> QED  BY <2>1, CopyStays DEF BodyInv
<1> QED  BY <1>1, <1>2 DEF StepInv

\* What a call has seen is remembered while it is under way, and what it names
\* is remembered when it is open or active.
LEMMA Remembers ==
  ASSUME Watch, NEW d \in Desk, Underway(d)'
  PROVE  /\ allowed[d] \subseteq allowed'[d]
         /\ IsOpen(desk[d].id)' => desk'[d].id \in allowed'[d]
         /\ \A f \in {"lead", "team", "add"} \cap DOMAIN desk'[d].body :
              (IsOpen(desk[d].body[f]) \/ IsActive(desk[d].body[f]))' =>
                desk'[d].body[f] \in allowed'[d]
<1>1. allowed'[d] = Sound(d)' \cup allowed[d]
  BY DEF Watch
<1> QED  BY <1>1 DEF Sound

\* Only accounts and teams are remembered.
LEMMA AllowedTyped ==
  ASSUME Watch, DocsInv', SessionInv
  PROVE  allowed' \in [Desk -> SUBSET (User \cup Team)]
<1>1. ASSUME NEW d \in Desk PROVE Sound(d)' \subseteq User \cup Team
  BY DEF Sound, IsOpen, IsActive, DocsInv
<1> QED  BY <1>1 DEF Watch, SessionInv

\* A call that does not move has seen what it has seen.
LEMMA SeenStays ==
  ASSUME Watch, NEW d \in Desk, DeskInv(d), desk'[d] = desk[d]
  PROVE  SeenInv(d)'
<1>1. CASE Underway(d)
  <2>1. allowed[d] \subseteq allowed'[d]
    BY <1>1, Remembers DEF Underway
  <2> QED  BY <2>1 DEF DeskInv, SeenInv, At
<1>2. CASE ~Underway(d)
  BY <1>2 DEF Underway, SeenInv, At
<1> QED  BY <1>1, <1>2

\* The desk that moves has only itself to answer for.
LEMMA MovesSound ==
  ASSUME DirectoryInv, Watch, NEW d \in Desk, Alone(d), Later, DocsInv', SessionsTyped,
         DeskInv(d)'
  PROVE  DirectoryInv'
<1>1. SessionInv'
  BY AllowedTyped DEF SessionInv, SessionsTyped, DirectoryInv
<1>2. ASSUME NEW q \in Desk, q # d PROVE DeskInv(q)'
  <2>1. desk'[q] = desk[q] /\ DeskInv(q)
    BY <1>2 DEF Alone, DirectoryInv
  <2>2. PICK c : c = desk[q]
    OBVIOUS
  <2>3. StepInv(c)'
    BY <2>1, <2>2, StepStays DEF DeskInv, DirectoryInv
  <2>4. StepInv(desk[q])'
    BY <2>1, <2>2, <2>3
  <2>5. SeenInv(q)'
    BY <2>1, SeenStays
  <2> QED  BY <2>1, <2>4, <2>5 DEF DeskInv
<1> QED  BY <1>1, <1>2 DEF DirectoryInv, Alone

-----------------------------------------------------------------------------
(* How a desk moves. *)

\* A call that goes to another step keeps what it holds.
LEMMA StepMoves ==
  ASSUME DirectoryInv, NEW d \in Desk, NEW s, Step(d, s)
  PROVE  /\ Alone(d) /\ DOMAIN desk'[d] = CallField
         /\ desk'[d].step = s /\ desk'[d].kind = desk[d].kind /\ desk'[d].id = desk[d].id
         /\ desk'[d].body = desk[d].body /\ desk'[d].loaded = desk[d].loaded
BY DEF DirectoryInv, DeskInv, Step, Alone, CallField

\* A call that loads a document keeps what it was told.
LEMMA HoldMoves ==
  ASSUME DirectoryInv, NEW d \in Desk, NEW s, NEW loaded, Hold(d, s, loaded)
  PROVE  /\ Alone(d) /\ DOMAIN desk'[d] = CallField
         /\ desk'[d].step = s /\ desk'[d].kind = desk[d].kind /\ desk'[d].id = desk[d].id
         /\ desk'[d].body = desk[d].body /\ desk'[d].loaded = loaded
BY DEF DirectoryInv, DeskInv, Hold, Alone, CallField

\* A call that ends leaves its desk idle.
LEMMA EndMoves ==
  ASSUME DirectoryInv, NEW d \in Desk, EndCall(d)
  PROVE  Alone(d) /\ desk'[d] = Idle /\ DeskInv(d)' /\ desk'[d].step = "idle"
<1>1. Alone(d) /\ desk'[d] = Idle
  BY DEF DirectoryInv, EndCall, Alone
<1>2. DOMAIN Idle = CallField /\ Idle.step = "idle"
  BY DEF Idle, CallField
<1> QED  BY <1>1, <1>2 DEF DeskInv, StepInv, SeenInv, At, UnderwayStep

\* A step that leaves the sessions alone keeps their types.
LEMMA SessionsRest ==
  ASSUME DirectoryInv, UNCHANGED <<token, badge, calls>>
  PROVE  SessionsTyped
BY DEF DirectoryInv, SessionInv, SessionsTyped

\* A call that ends.
LEMMA EndStep ==
  ASSUME DirectoryInv, Watch, NEW d \in Desk, EndCall(d), Later, DocsInv', SessionsTyped
  PROVE  DirectoryInv'
BY EndMoves, MovesSound

-----------------------------------------------------------------------------
(* Sessions and the page. *)

\* The account of a login is loaded.
LEMMA LoginStep ==
  ASSUME DirectoryInv, Watch, NEW d \in Desk, Login(d)
  PROVE  DirectoryInv'
<1>1. Later /\ DocsInv' /\ SessionsTyped
  BY LaterSame, SessionsRest DEF Login, DirectoryInv
<1>2. PICK account : account = users[Owner[d]]
  OBVIOUS
<1>3. account \in Account
  BY <1>2 DEF Login, DirectoryInv, DocsInv
<1>4. /\ Alone(d) /\ DOMAIN desk'[d] = CallField
      /\ desk'[d].step = "compare" /\ desk'[d].kind = "login" /\ desk'[d].loaded = account
  BY <1>2 DEF Login, DirectoryInv, DeskInv, Alone, CallField
<1>5. DeskInv(d)'
  BY <1>3, <1>4 DEF DeskInv, StepInv, SeenInv, At, UnderwayStep
<1> QED  BY <1>1, <1>4, <1>5, MovesSound

\* The login succeeds or fails.
LEMMA ComparedStep ==
  ASSUME DirectoryInv, Watch, NEW d \in Desk, Compared(d)
  PROVE  DirectoryInv'
<1>1. Later /\ DocsInv'
  BY LaterSame DEF Compared, DirectoryInv
<1>2. desk[d].loaded.role \in Role
  BY DEF Compared, At, DirectoryInv, DeskInv, StepInv, Account
<1>3. SessionsTyped
  BY <1>2 DEF Compared, SessionsTyped, DirectoryInv, SessionInv
<1> QED  BY <1>1, <1>3, EndStep DEF Compared

\* The account of a renewal is loaded, and is active.
LEMMA RefreshStep ==
  ASSUME DirectoryInv, Watch, NEW d \in Desk, refreshToken(d)
  PROVE  DirectoryInv'
<1>1. Later /\ DocsInv' /\ SessionsTyped
  BY LaterSame, SessionsRest DEF refreshToken, DirectoryInv
<1>2. /\ Alone(d) /\ DOMAIN desk'[d] = CallField
      /\ desk'[d].step = "sign" /\ desk'[d].kind = "renew"
  BY DEF refreshToken, DirectoryInv, DeskInv, Alone, CallField
<1>3. DeskInv(d)'
  BY <1>2 DEF DeskInv, StepInv, SeenInv, At, UnderwayStep
<1> QED  BY <1>1, <1>2, <1>3, MovesSound

\* A desk that does not move.
LEMMA RestStep ==
  ASSUME DirectoryInv, Watch, NEW d \in Desk, UNCHANGED <<users, teams, desk>>, SessionsTyped
  PROVE  DirectoryInv'
<1>1. Later /\ DocsInv'
  BY LaterSame DEF DirectoryInv
<1>2. Alone(d)
  BY DEF Alone, DirectoryInv
<1>3. PICK c : c = desk[d]
  OBVIOUS
<1>4. DeskInv(d)
  BY DEF DirectoryInv
<1>5. StepInv(c)'
  BY <1>1, <1>3, <1>4, StepStays DEF DeskInv, DirectoryInv
<1>6. StepInv(desk[d])'
  BY <1>3, <1>5
<1>7. DeskInv(d)'
  BY <1>4, <1>6, SeenStays DEF DeskInv
<1> QED  BY <1>1, <1>2, <1>7, MovesSound

\* Logins, renewals, expiry and logouts.
LEMMA SessionStep ==
  ASSUME DirectoryInv, Watch, NEW d \in Desk, Session(d)
  PROVE  DirectoryInv'
<1>1. CASE Refreshed(d)
  <2>1. SessionsTyped
    BY <1>1 DEF Refreshed, SessionsTyped, DirectoryInv, SessionInv
  <2>2. Later /\ DocsInv'
    BY <1>1, LaterSame DEF Refreshed, DirectoryInv
  <2> QED  BY <1>1, <2>1, <2>2, EndStep DEF Refreshed
<1>2. ASSUME NEW kind \in Tokens, RunsOut(d, kind) PROVE DirectoryInv'
  <2>1. SessionsTyped
    BY <1>2 DEF RunsOut, SessionsTyped, DirectoryInv, SessionInv
  <2> QED  BY <1>2, <2>1, RestStep DEF RunsOut
<1>3. CASE Logout(d)
  <2>1. SessionsTyped
    BY <1>3 DEF Logout, SessionsTyped, DirectoryInv, SessionInv
  <2> QED  BY <1>3, <2>1, RestStep DEF Logout
<1> QED  BY <1>1, <1>2, <1>3, LoginStep, ComparedStep, RefreshStep DEF Session

\* A form that opens.
LEMMA FormStep ==
  ASSUME DirectoryInv, Watch, NEW d \in Desk, NEW kind \in {"team", "user"}, NEW id, NEW body,
         desk' = [desk EXCEPT ![d] = [Idle EXCEPT !.step = "form", !.kind = kind, !.id = id,
                                                  !.body = body]],
         UNCHANGED <<users, teams, token, badge, calls>>,
         BodyInv([kind |-> kind, id |-> id, body |-> body]),
         "archived" \notin DOMAIN body
  PROVE  DirectoryInv'
<1>1. Later /\ DocsInv' /\ SessionsTyped
  BY LaterSame, SessionsRest DEF DirectoryInv
<1>2. /\ Alone(d) /\ DOMAIN desk'[d] = CallField
      /\ desk'[d].step = "form" /\ desk'[d].kind = kind /\ desk'[d].id = id
      /\ desk'[d].body = body
  BY DEF DirectoryInv, Alone, Idle, CallField
<1>3. BodyInv(desk[d])'
  BY <1>2 DEF BodyInv, TeamBody, UserBody, MemberBody
<1>4. DeskInv(d)'
  BY <1>2, <1>3 DEF DeskInv, StepInv, SeenInv, At, UnderwayStep
<1> QED  BY <1>1, <1>2, <1>4, MovesSound

\* The form of a team opens with its fields as they are.
LEMMA openEditTeamStep ==
  ASSUME DirectoryInv, Watch, NEW d \in Desk, NEW t \in Team, openEditTeam(d, t)
  PROVE  DirectoryInv'
<1>1. PICK b : b = [lead |-> teams[t].lead, services |-> teams[t].services]
  OBVIOUS
<1>2. t \in DOMAIN teams /\ teams[t] \in TeamDoc
  BY DEF openEditTeam, IsOpen, DirectoryInv, DocsInv
<1>3. TeamBody(b) /\ "archived" \notin DOMAIN b
  BY <1>1, <1>2 DEF TeamBody, TeamDoc
<1>4. BodyInv([kind |-> "team", id |-> t, body |-> b])
  BY <1>2, <1>3 DEF BodyInv
<1> QED  BY <1>1, <1>3, <1>4, FormStep DEF openEditTeam

\* The form of an account opens with its fields as they are.
LEMMA openEditUserStep ==
  ASSUME DirectoryInv, Watch, NEW d \in Desk, NEW u \in User, openEditUser(d, u)
  PROVE  DirectoryInv'
<1>1. PICK b : b = [role |-> users[u].role, team |-> users[u].team, active |-> users[u].active]
  OBVIOUS
<1>2. u \in DOMAIN users /\ users[u] \in Account
  BY DEF openEditUser, DirectoryInv, DocsInv
<1>3. UserBody(b) /\ "archived" \notin DOMAIN b
  BY <1>1, <1>2 DEF UserBody, Account
<1>4. BodyInv([kind |-> "user", id |-> u, body |-> b])
  BY <1>2, <1>3 DEF BodyInv
<1> QED  BY <1>1, <1>3, <1>4, FormStep DEF openEditUser

\* A call that begins.
LEMMA BeginStep ==
  ASSUME DirectoryInv, Watch, NEW d \in Desk, NEW kind, NEW id, NEW body,
         Begin(d, kind, id, body),
         kind \in {"team", "user", "password", "members", "newUser", "newTeam"},
         BodyInv([kind |-> kind, id |-> id, body |-> body])
  PROVE  DirectoryInv'
<1>1. Later /\ DocsInv'
  BY LaterSame DEF DirectoryInv, Begin
<1>2. SessionsTyped
  BY CallsAssumption DEF DirectoryInv, SessionInv, SessionsTyped, Begin
<1>3. /\ Alone(d) /\ DOMAIN desk'[d] = CallField
      /\ desk'[d].step = "load" /\ desk'[d].kind = kind /\ desk'[d].id = id
      /\ desk'[d].body = body
  BY DEF Begin, DirectoryInv, Alone, Idle, CallField
<1>4. BodyInv(desk[d])'
  BY <1>3 DEF BodyInv, TeamBody, UserBody, MemberBody, Begin
<1>5. DeskInv(d)'
  BY <1>3, <1>4 DEF DeskInv, StepInv, SeenInv, At, UnderwayStep
<1> QED  BY <1>1, <1>2, <1>3, <1>5, MovesSound

\* A form is sent with one field changed, of its kind.
LEMMA SubmitFormStep ==
  ASSUME DirectoryInv, Watch, NEW d \in Desk, SubmitForm(d)
  PROVE  DirectoryInv'
<1>1. PICK kind, id, b : kind = desk[d].kind /\ id = desk[d].id /\ b = desk[d].body
  OBVIOUS
<1>2. PICK field \in DOMAIN b : \E value \in ValuesOf(field) :
        Begin(d, kind, id, [b EXCEPT ![field] = value])
  BY <1>1 DEF SubmitForm
<1>3. PICK value \in ValuesOf(field) : Begin(d, kind, id, [b EXCEPT ![field] = value])
  BY <1>2
<1>4. /\ kind \in {"team", "user"} /\ "archived" \notin DOMAIN b
      /\ kind = "team" => id \in DOMAIN teams /\ TeamBody(b)
      /\ kind = "user" => id \in DOMAIN users /\ UserBody(b)
  BY <1>1 DEF SubmitForm, DirectoryInv, DeskInv, StepInv, BodyInv
<1>5. PICK c : c = [b EXCEPT ![field] = value]
  OBVIOUS
<1>6. CASE kind = "team"
  <2>1. /\ DOMAIN b = {"lead", "services"} /\ b.lead \in User \cup {None}
        /\ b.services \in Service
    BY <1>4, <1>6 DEF TeamBody
  <2>2. CASE field = "lead"
    <3>1. value \in User \cup {None}
      BY <2>2 DEF ValuesOf
    <3>2. TeamBody(c)
      BY <1>5, <2>1, <2>2, <3>1 DEF TeamBody
    <3> QED  BY <1>3, <1>4, <1>5, <1>6, <3>2, BeginStep DEF BodyInv
  <2>3. CASE field = "services"
    <3>1. value \in Service
      BY <2>3 DEF ValuesOf
    <3>2. TeamBody(c)
      BY <1>5, <2>1, <2>3, <3>1 DEF TeamBody
    <3> QED  BY <1>3, <1>4, <1>5, <1>6, <3>2, BeginStep DEF BodyInv
  <2> QED  BY <2>1, <2>2, <2>3
<1>7. CASE kind = "user"
  <2>1. /\ DOMAIN b = {"role", "team", "active"} /\ b.role \in Role
        /\ b.team \in Team \cup {None} /\ b.active \in BOOLEAN
    BY <1>4, <1>7 DEF UserBody
  <2>2. /\ field = "role" => value \in Role
        /\ field = "team" => value \in Team \cup {None}
        /\ field = "active" => value \in BOOLEAN
    BY DEF ValuesOf
  <2>3. UserBody(c)
    BY <1>5, <2>1, <2>2 DEF UserBody
  <2> QED  BY <1>3, <1>4, <1>5, <1>7, <2>3, BeginStep DEF BodyInv
<1> QED  BY <1>4, <1>6, <1>7

\* Everything the page does before a handler runs.
LEMMA PageStep ==
  ASSUME DirectoryInv, Watch, NEW d \in Desk, Page(d)
  PROVE  DirectoryInv'
<1>1. CASE closeForm(d)
  <2>1. Later /\ DocsInv' /\ SessionsTyped
    BY <1>1, LaterSame, SessionsRest DEF closeForm, DirectoryInv
  <2> QED  BY <1>1, <2>1, EndStep DEF closeForm
<1>2. ASSUME NEW t \in Team, ArchiveTeam(d, t) \/ RestoreTeam(d, t) PROVE DirectoryInv'
  <2>1. PICK b : /\ b \in {[archived |-> TRUE], [archived |-> FALSE]}
                 /\ Begin(d, "team", t, b)
    BY <1>2 DEF ArchiveTeam, RestoreTeam, Press
  <2>2. t \in DOMAIN teams
    BY <1>2 DEF ArchiveTeam, RestoreTeam, IsOpen
  <2>3. DOMAIN b = {"archived"} /\ b.archived \in BOOLEAN
    <3>1. CASE b = [archived |-> TRUE]
      BY <3>1
    <3>2. CASE b = [archived |-> FALSE]
      BY <3>2
    <3> QED  BY <2>1, <3>1, <3>2
  <2>4. BodyInv([kind |-> "team", id |-> t, body |-> b])
    BY <2>2, <2>3 DEF BodyInv, TeamBody
  <2> QED  BY <2>1, <2>4, BeginStep
<1>3. ASSUME NEW t \in Team, NEW add \in User \cup {None}, NEW remove \in User \cup {None},
             ChangeMembers(d, t, add, remove)
      PROVE  DirectoryInv'
  <2>1. PICK b : b = [add |-> add, remove |-> remove]
    OBVIOUS
  <2>2. BodyInv([kind |-> "members", id |-> t, body |-> b])
    BY <1>3, <2>1 DEF BodyInv, MemberBody, ChangeMembers
  <2> QED  BY <1>3, <2>1, <2>2, BeginStep DEF ChangeMembers, Press
<1>4. ASSUME NEW t \in Team, NEW lead \in User \cup {None}, NewTeam(d, t, lead)
      PROVE  DirectoryInv'
  <2>1. PICK b : b = [lead |-> lead]
    OBVIOUS
  <2>2. BodyInv([kind |-> "newTeam", id |-> t, body |-> b])
    BY <2>1 DEF BodyInv
  <2> QED  BY <1>4, <2>1, <2>2, BeginStep DEF NewTeam, Press
<1>5. ASSUME NEW u \in User, ResetPassword(d, u) PROVE DirectoryInv'
  <2>1. PICK b : b = [secret |-> d]
    OBVIOUS
  <2>2. BodyInv([kind |-> "password", id |-> u, body |-> b])
    BY <1>5, <2>1 DEF BodyInv, ResetPassword
  <2> QED  BY <1>5, <2>1, <2>2, BeginStep DEF ResetPassword, Press
<1>6. ASSUME NEW u \in User, NEW role \in Role, NEW t \in Team \cup {None}, NewUser(d, u, role, t)
      PROVE  DirectoryInv'
  <2>1. PICK b : b = [role |-> role, team |-> t]
    OBVIOUS
  <2>2. BodyInv([kind |-> "newUser", id |-> u, body |-> b])
    BY <2>1 DEF BodyInv
  <2> QED  BY <1>6, <2>1, <2>2, BeginStep DEF NewUser, Press
<1> QED  BY <1>1, <1>2, <1>3, <1>4, <1>5, <1>6, SubmitFormStep, openEditTeamStep, openEditUserStep
         DEF Page

-----------------------------------------------------------------------------
(* The handlers. *)

\* What a save does to the stored document, field by field.
LEMMA SavesDo ==
  ASSUME NEW id, NEW loaded, NEW wanted, NEW stored, NEW c, c = Saves(id, loaded, wanted)
  PROVE  /\ c.doc = id
         /\ DOMAIN Applied(stored, c) = DOMAIN stored
         /\ Applied(stored, c) = [f \in DOMAIN stored |-> Applied(stored, c)[f]]
         /\ \A f \in DOMAIN stored :
              /\ f \in DOMAIN wanted /\ wanted[f] # loaded[f] =>
                   Applied(stored, c)[f] = wanted[f]
              /\ ~(f \in DOMAIN wanted /\ wanted[f] # loaded[f]) =>
                   Applied(stored, c)[f] =
                     IF f = "ver" /\ c.where # AnyVersion THEN stored.ver + 1 ELSE stored[f]
         /\ c.where = IF "services" \in DOMAIN wanted /\ wanted.services # loaded.services
                      THEN loaded.ver ELSE AnyVersion
<1>1. /\ c.doc = id
      /\ c.where = IF "services" \in DOMAIN wanted /\ wanted.services # loaded.services
                      THEN loaded.ver ELSE AnyVersion
      /\ c.set = [f \in Dirty(loaded, wanted) |-> wanted[f]]
  BY DEF Saves, SaveCommand, Dirty
<1> QED  BY <1>1 DEF Applied, Dirty

\* The fields a save of a team gives.
LEMMA WantedTeam ==
  ASSUME DirectoryInv, NEW d \in Desk, At(d, "team", "save"),
         NEW w, w = Wanted(d), NEW b, b = desk[d].body, NEW l, l = desk[d].loaded
  PROVE  /\ w \in TeamDoc /\ l \in TeamDoc /\ w.ver = l.ver
         /\ w.services # l.services => "services" \in DOMAIN b
         /\ w.archived # l.archived => "archived" \in DOMAIN b
         /\ w.lead # l.lead => \/ "archived" \in DOMAIN b /\ w.lead = None
                               \/ "lead" \in DOMAIN b /\ w.lead = b.lead
<1>1. l \in TeamDoc /\ TeamBody(b)
  BY DEF DirectoryInv, DeskInv, StepInv, CopyInv, BodyInv, At, UnderwayStep
<1>2. PICK copy : copy = [f \in DOMAIN l |-> IF f \in DOMAIN b THEN b[f] ELSE l[f]]
  OBVIOUS
<1>3. w = IF "archived" \in DOMAIN b /\ b.archived THEN [copy EXCEPT !.lead = None] ELSE copy
  BY <1>2 DEF Wanted
<1>4. DOMAIN l = {"archived", "lead", "services", "ver"}
  BY <1>1 DEF TeamDoc
<1>5. CASE DOMAIN b = {"lead", "services"} /\ b.lead \in User \cup {None} /\ b.services \in Service
  <2>1. w = copy
    BY <1>3, <1>5
  <2>2. /\ copy.lead = b.lead /\ copy.services = b.services
        /\ copy.archived = l.archived /\ copy.ver = l.ver
    BY <1>2, <1>4, <1>5
  <2>3. copy \in TeamDoc
    BY <1>1, <1>2, <1>4, <1>5, <2>2 DEF TeamDoc
  <2> QED  BY <1>1, <1>5, <2>1, <2>2, <2>3
<1>6. CASE DOMAIN b = {"archived"} /\ b.archived \in BOOLEAN
  <2>1. /\ copy.lead = l.lead /\ copy.services = l.services
        /\ copy.archived = b.archived /\ copy.ver = l.ver
    BY <1>2, <1>4, <1>6
  <2>2. copy \in TeamDoc
    BY <1>1, <1>2, <1>4, <1>6, <2>1 DEF TeamDoc
  <2>3. /\ DOMAIN w = {"archived", "lead", "services", "ver"}
        /\ w.archived = copy.archived /\ w.services = copy.services /\ w.ver = copy.ver
        /\ w.lead \in {copy.lead, None}
    BY <1>2, <1>3, <1>4
  <2>4. w \in TeamDoc
    <3>1. CASE w = copy
      BY <2>2, <3>1
    <3>2. CASE w = [copy EXCEPT !.lead = None]
      BY <2>2, <3>2 DEF TeamDoc
    <3> QED  BY <1>3, <3>1, <3>2
  <2> QED  BY <1>1, <1>6, <2>1, <2>3, <2>4
<1> QED  BY <1>1, <1>5, <1>6 DEF TeamBody

\* What the save of a team changes: what its call speaks of, responsibilities
\* only of the version it has read, and a lead it has seen to be active.
LEMMA SaveTeamDoes ==
  ASSUME DirectoryInv, NEW d \in Desk, SaveTeam(d)
  PROVE  /\ desk[d].id \in DOMAIN teams /\ DOMAIN teams' = DOMAIN teams
         /\ \A t \in DOMAIN teams \ {desk[d].id} : teams'[t] = teams[t]
         /\ LET s == teams[desk[d].id]  n == teams'[desk[d].id]  l == desk[d].loaded IN
              /\ n \in TeamDoc
              /\ s.ver <= n.ver
              /\ s.ver = n.ver => s.services = n.services
              /\ n.services # s.services =>
                   "services" \in DOMAIN desk[d].body /\ l.services = s.services
              /\ n.archived # s.archived => "archived" \in DOMAIN desk[d].body
              /\ n.lead # s.lead => \/ "archived" \in DOMAIN desk[d].body /\ n.lead = None
                                    \/ "lead" \in DOMAIN desk[d].body /\ n.lead = desk[d].body.lead
<1>1. PICK t, l, w, b, c, s : /\ t = desk[d].id /\ l = desk[d].loaded /\ w = Wanted(d)
                              /\ b = desk[d].body /\ c = Saves(t, l, w) /\ s = teams[t]
  OBVIOUS
<1>2. /\ t \in DOMAIN teams /\ s \in TeamDoc /\ l.ver <= s.ver
      /\ l.ver = s.ver => l.services = s.services
  BY <1>1 DEF SaveTeam, At, DirectoryInv, DocsInv, DeskInv, StepInv, BodyInv, CopyInv, UnderwayStep
<1>3. /\ w \in TeamDoc /\ l \in TeamDoc /\ w.ver = l.ver
      /\ w.services # l.services => "services" \in DOMAIN b
      /\ w.archived # l.archived => "archived" \in DOMAIN b
      /\ w.lead # l.lead => \/ "archived" \in DOMAIN b /\ w.lead = None
                            \/ "lead" \in DOMAIN b /\ w.lead = b.lead
  BY <1>1, WantedTeam DEF SaveTeam
<1>4. PICK n : n = Applied(s, c)
  OBVIOUS
<1>5. /\ c.doc = t /\ DOMAIN n = DOMAIN s
      /\ \A f \in DOMAIN s :
              /\ f \in DOMAIN w /\ w[f] # l[f] => n[f] = w[f]
              /\ ~(f \in DOMAIN w /\ w[f] # l[f]) =>
                   n[f] = IF f = "ver" /\ c.where # AnyVersion THEN s.ver + 1 ELSE s[f]
      /\ c.where = IF "services" \in DOMAIN w /\ w.services # l.services
                      THEN l.ver ELSE AnyVersion
  BY <1>1, <1>4, SavesDo
<1>6. /\ DOMAIN s = {"archived", "lead", "services", "ver"} /\ DOMAIN w = DOMAIN s
      /\ s.ver \in Nat /\ l.ver \in Nat
  BY <1>2, <1>3 DEF TeamDoc
<1>7. /\ n.archived = IF w.archived # l.archived THEN w.archived ELSE s.archived
      /\ n.lead     = IF w.lead # l.lead THEN w.lead ELSE s.lead
      /\ n.services = IF w.services # l.services THEN w.services ELSE s.services
      /\ n.ver      = IF w.services # l.services THEN s.ver + 1 ELSE s.ver
  <2>1. /\ "archived" \in DOMAIN s /\ "lead" \in DOMAIN s /\ "services" \in DOMAIN s
        /\ "ver" \in DOMAIN s
    BY <1>6
  <2>2. c.where = IF w.services # l.services THEN l.ver ELSE AnyVersion
    BY <1>5, <1>6
  <2>3. l.ver # AnyVersion
    BY <1>6 DEF AnyVersion
  <2> QED  BY <1>3, <1>5, <1>6, <2>1, <2>2, <2>3
<1>8. n \in TeamDoc
  <2>1. n = [f \in {"archived", "lead", "services", "ver"} |-> n[f]]
    BY <1>1, <1>4, <1>6, SavesDo
  <2>2. /\ n.archived \in BOOLEAN /\ n.lead \in User \cup {None}
        /\ n.services \in Service /\ n.ver \in Nat
    BY <1>2, <1>3, <1>6, <1>7 DEF TeamDoc
  <2> QED  BY <2>1, <2>2 DEF TeamDoc
<1>9. teams' = IF Accepts(s, c) THEN [teams EXCEPT ![t] = n] ELSE teams
  BY <1>1, <1>4, <1>5 DEF SaveTeam
<1>10. CASE ~Accepts(s, c)
  BY <1>1, <1>2, <1>6, <1>9, <1>10
<1>11. CASE Accepts(s, c)
  <2>1. w.services # l.services => l.ver = s.ver
    BY <1>5, <1>6, <1>11 DEF Accepts, AnyVersion
  <2>2. /\ DOMAIN teams' = DOMAIN teams /\ teams'[t] = n
        /\ \A u \in DOMAIN teams \ {t} : teams'[u] = teams[u]
    BY <1>2, <1>9, <1>11
  <2>3. s.ver <= n.ver /\ (s.ver = n.ver => s.services = n.services)
    BY <1>6, <1>7
  <2>4. n.services # s.services => "services" \in DOMAIN b /\ l.services = s.services
    BY <1>2, <1>3, <1>7, <2>1
  <2> QED  BY <1>1, <1>2, <1>3, <1>7, <1>8, <2>2, <2>3, <2>4
<1> QED  BY <1>10, <1>11

\* A team is saved, or the save refused.
LEMMA SaveTeamStep ==
  ASSUME DirectoryInv, Watch, NEW d \in Desk, SaveTeam(d)
  PROVE  DirectoryInv'
<1>1. PICK t : t = desk[d].id
  OBVIOUS
<1>2. /\ t \in DOMAIN teams /\ DOMAIN teams' = DOMAIN teams
      /\ \A u \in DOMAIN teams \ {t} : teams'[u] = teams[u]
      /\ teams'[t] \in TeamDoc /\ teams[t].ver <= teams'[t].ver
      /\ teams[t].ver = teams'[t].ver => teams[t].services = teams'[t].services
  BY <1>1, SaveTeamDoes
<1>3. UNCHANGED users /\ SessionsTyped
  BY SessionsRest DEF SaveTeam
<1>4. DocsInv'
  BY <1>2, <1>3 DEF DirectoryInv, DocsInv
<1>5. \A u \in DOMAIN teams : teams[u].ver \in Nat
  BY DEF DirectoryInv, DocsInv, TeamDoc
<1>6. Later
  BY <1>2, <1>3, <1>5 DEF Later
<1> QED  BY <1>3, <1>4, <1>6, EndStep DEF SaveTeam

\* The fields a save of an account gives.
LEMMA WantedUser ==
  ASSUME DirectoryInv, NEW d \in Desk, At(d, "user", "save") \/ At(d, "password", "save"),
         NEW w, w = Wanted(d), NEW b, b = desk[d].body, NEW l, l = desk[d].loaded
  PROVE  /\ w \in Account /\ l \in Account
         /\ \A f \in DOMAIN w : w[f] # l[f] => f \in DOMAIN b /\ w[f] = b[f]
<1>1. /\ l \in Account
      /\ \/ UserBody(b)
         \/ DOMAIN b = {"secret"} /\ b.secret \in Desk
  BY DEF DirectoryInv, DeskInv, StepInv, CopyInv, BodyInv, At, UnderwayStep
<1>2. "archived" \notin DOMAIN b
  BY <1>1 DEF UserBody
<1>3. w = [f \in DOMAIN l |-> IF f \in DOMAIN b THEN b[f] ELSE l[f]]
  BY <1>2 DEF Wanted
<1>4. DOMAIN l = {"active", "role", "team", "secret"}
  BY <1>1 DEF Account
<1>5. \A f \in DOMAIN w : w[f] # l[f] => f \in DOMAIN b /\ w[f] = b[f]
  BY <1>3
<1>6. CASE UserBody(b)
  <2>1. /\ w.active = b.active /\ w.role = b.role /\ w.team = b.team /\ w.secret = l.secret
    BY <1>3, <1>4, <1>6 DEF UserBody
  <2>2. /\ w.active \in BOOLEAN /\ w.role \in Role /\ w.team \in Team \cup {None}
        /\ w.secret \in Desk \cup {None}
    BY <1>1, <1>6, <2>1 DEF UserBody, Account
  <2>3. w \in Account
    BY <1>3, <1>4, <2>2 DEF Account
  <2> QED  BY <1>1, <1>5, <2>3
<1>7. CASE DOMAIN b = {"secret"} /\ b.secret \in Desk
  <2>1. /\ w.active = l.active /\ w.role = l.role /\ w.team = l.team /\ w.secret = b.secret
    BY <1>3, <1>4, <1>7
  <2>2. /\ w.active \in BOOLEAN /\ w.role \in Role /\ w.team \in Team \cup {None}
        /\ w.secret \in Desk \cup {None}
    BY <1>1, <1>7, <2>1 DEF Account
  <2>3. w \in Account
    BY <1>3, <1>4, <2>2 DEF Account
  <2> QED  BY <1>1, <1>5, <2>3
<1> QED  BY <1>1, <1>6, <1>7

\* What the save of an account changes: the fields its call gives, to the
\* values it gives.
LEMMA SaveUserDoes ==
  ASSUME DirectoryInv, NEW d \in Desk, SaveUser(d)
  PROVE  /\ desk[d].id \in DOMAIN users /\ DOMAIN users' = DOMAIN users
         /\ \A u \in DOMAIN users \ {desk[d].id} : users'[u] = users[u]
         /\ users'[desk[d].id] \in Account
         /\ \A f \in DOMAIN users[desk[d].id] :
              users'[desk[d].id][f] # users[desk[d].id][f] =>
                f \in DOMAIN desk[d].body /\ users'[desk[d].id][f] = desk[d].body[f]
<1>1. PICK u, l, w, b, c, s : /\ u = desk[d].id /\ l = desk[d].loaded /\ w = Wanted(d)
                              /\ b = desk[d].body /\ c = Saves(u, l, w) /\ s = users[u]
  OBVIOUS
<1>2. u \in DOMAIN users /\ s \in Account
  BY <1>1 DEF SaveUser, At, DirectoryInv, DocsInv, DeskInv, StepInv, BodyInv, UnderwayStep
<1>3. /\ w \in Account /\ l \in Account
      /\ \A f \in DOMAIN w : w[f] # l[f] => f \in DOMAIN b /\ w[f] = b[f]
  BY <1>1, WantedUser DEF SaveUser
<1>4. PICK n : n = Applied(s, c)
  OBVIOUS
<1>5. /\ c.doc = u /\ n = [f \in DOMAIN s |-> n[f]]
      /\ \A f \in DOMAIN s :
              /\ f \in DOMAIN w /\ w[f] # l[f] => n[f] = w[f]
              /\ ~(f \in DOMAIN w /\ w[f] # l[f]) =>
                   n[f] = IF f = "ver" /\ c.where # AnyVersion THEN s.ver + 1 ELSE s[f]
  BY <1>1, <1>4, SavesDo
<1>6. DOMAIN s = {"active", "role", "team", "secret"} /\ DOMAIN w = DOMAIN s
  BY <1>2, <1>3 DEF Account
<1>7. \A f \in DOMAIN s : (n[f] = w[f] /\ w[f] # l[f]) \/ n[f] = s[f]
  BY <1>5, <1>6
<1>8. n \in Account
  <2>1. /\ n.active \in {w.active, s.active} /\ n.role \in {w.role, s.role}
        /\ n.team \in {w.team, s.team} /\ n.secret \in {w.secret, s.secret}
    BY <1>6, <1>7
  <2>2. /\ n.active \in BOOLEAN /\ n.role \in Role /\ n.team \in Team \cup {None}
        /\ n.secret \in Desk \cup {None}
    BY <1>2, <1>3, <2>1 DEF Account
  <2> QED  BY <1>5, <1>6, <2>2 DEF Account
<1>9. users' = [users EXCEPT ![u] = n]
  BY <1>1, <1>4, <1>5 DEF SaveUser
<1>10. \A f \in DOMAIN s : n[f] # s[f] => f \in DOMAIN b /\ n[f] = b[f]
  BY <1>3, <1>6, <1>7
<1>11. users'[u] = n
  BY <1>2, <1>9
<1> QED  BY <1>1, <1>2, <1>8, <1>9, <1>10, <1>11

\* A call that ends, and leaves the accounts alone but for their fields.
LEMMA UsersChange ==
  ASSUME DirectoryInv, UNCHANGED <<teams, token, badge, calls>>,
         DOMAIN users \subseteq DOMAIN users', DOMAIN users' \subseteq User,
         \A u \in DOMAIN users' : users'[u] \in Account
  PROVE  Later /\ DocsInv' /\ SessionsTyped
<1>1. DocsInv'
  BY DEF DirectoryInv, DocsInv
<1>2. \A u \in DOMAIN teams : teams[u].ver \in Nat
  BY DEF DirectoryInv, DocsInv, TeamDoc
<1> QED  BY <1>1, <1>2, SessionsRest DEF Later

\* An account is saved.
LEMMA SaveUserStep ==
  ASSUME DirectoryInv, Watch, NEW d \in Desk, SaveUser(d)
  PROVE  DirectoryInv'
<1>1. DOMAIN users' = DOMAIN users /\ \A u \in DOMAIN users' : users'[u] \in Account
  BY SaveUserDoes DEF DirectoryInv, DocsInv
<1>2. Later /\ DocsInv' /\ SessionsTyped
  BY <1>1, UsersChange DEF SaveUser, DirectoryInv, DocsInv
<1> QED  BY <1>2, EndStep DEF SaveUser

\* An account is created, unless it was meanwhile.
LEMMA InsertUserStep ==
  ASSUME DirectoryInv, Watch, NEW d \in Desk, InsertUser(d)
  PROVE  DirectoryInv'
<1>1. PICK id, b, doc : /\ id = desk[d].id /\ b = desk[d].body
                        /\ doc = [active |-> TRUE, role |-> b.role, team |-> b.team,
                                  secret |-> None]
  OBVIOUS
<1>2. id \in User /\ b.role \in Role /\ b.team \in Team \cup {None}
  BY <1>1 DEF InsertUser, At, DirectoryInv, DeskInv, StepInv, BodyInv, UnderwayStep
<1>3. doc \in Account
  BY <1>1, <1>2 DEF Account
<1>4. /\ DOMAIN users \subseteq DOMAIN users' /\ DOMAIN users' \subseteq User
      /\ \A u \in DOMAIN users' : users'[u] \in Account
  BY <1>1, <1>2, <1>3 DEF InsertUser, Store, DirectoryInv, DocsInv
<1>5. Later /\ DocsInv' /\ SessionsTyped
  BY <1>4, UsersChange DEF InsertUser
<1> QED  BY <1>5, EndStep DEF InsertUser

\* A team is created, unless it was meanwhile.
LEMMA InsertTeamStep ==
  ASSUME DirectoryInv, Watch, NEW d \in Desk, InsertTeam(d)
  PROVE  DirectoryInv'
<1>1. PICK id, b, s, doc : /\ id = desk[d].id /\ b = desk[d].body /\ s = CHOOSE x \in Service : TRUE
                           /\ doc = [archived |-> FALSE, lead |-> b.lead, services |-> s, ver |-> 0]
  OBVIOUS
<1>2. id \in Team /\ b.lead \in User \cup {None} /\ s \in Service
  BY <1>1, ServiceAssumption
     DEF InsertTeam, At, DirectoryInv, DeskInv, StepInv, BodyInv, UnderwayStep
<1>3. doc \in TeamDoc
  BY <1>1, <1>2 DEF TeamDoc
<1>4. /\ DOMAIN teams \subseteq DOMAIN teams' /\ DOMAIN teams' \subseteq Team
      /\ \A t \in DOMAIN teams' : teams'[t] \in TeamDoc
      /\ \A t \in DOMAIN teams : teams'[t] = teams[t]
  BY <1>1, <1>2, <1>3 DEF InsertTeam, Store, DirectoryInv, DocsInv
<1>5. UNCHANGED users /\ SessionsTyped
  BY SessionsRest DEF InsertTeam
<1>6. DocsInv'
  BY <1>4, <1>5 DEF DirectoryInv, DocsInv
<1>7. \A t \in DOMAIN teams : teams[t].ver \in Nat
  BY DEF DirectoryInv, DocsInv, TeamDoc
<1>8. Later
  BY <1>4, <1>5, <1>7 DEF Later
<1> QED  BY <1>5, <1>6, <1>8, EndStep DEF InsertTeam

\* An account whose team changes is an account.
LEMMA TeamOfUser ==
  ASSUME DirectoryInv, NEW u \in DOMAIN users, NEW t \in Team \cup {None},
         users' = [users EXCEPT ![u].team = t]
  PROVE  /\ DOMAIN users' = DOMAIN users
         /\ \A v \in DOMAIN users : users'[v] \in Account
         /\ \A v \in DOMAIN users \ {u} : users'[v] = users[v]
         /\ users'[u].team = t
         /\ \A f \in DOMAIN users[u] : f # "team" => users'[u][f] = users[u][f]
<1>1. PICK s, n : s = users[u] /\ n = [s EXCEPT !.team = t]
  OBVIOUS
<1>2. s \in Account
  BY <1>1 DEF DirectoryInv, DocsInv
<1>3. n \in Account /\ n.team = t /\ \A f \in DOMAIN s : f # "team" => n[f] = s[f]
  BY <1>1, <1>2 DEF Account
<1>4. users' = [users EXCEPT ![u] = n]
  BY <1>1
<1> QED  BY <1>1, <1>3, <1>4 DEF DirectoryInv, DocsInv

\* A call of a handler that goes on, with what it has loaded.
LEMMA GoesOnStep ==
  ASSUME DirectoryInv, Watch, NEW d \in Desk, Alone(d), Later, DocsInv', SessionsTyped,
         DOMAIN desk'[d] = CallField, Underway(d), desk'[d].step \in UnderwayStep,
         desk'[d].kind = desk[d].kind, desk'[d].id = desk[d].id, desk'[d].body = desk[d].body,
         LET c == desk'[d] IN
           /\ c.step \in {"check", "save"} => c.kind # "members" /\ CopyInv(desk[d])'
           /\ c.step \in {"remove", "find", "add"} => c.kind = "members"
           /\ c.step \in {"find", "add"} => c.body.add # None
           /\ c.step = "check" =>
                \/ c.kind = "team" /\ "lead" \in DOMAIN c.body /\ c.body.lead # None
                \/ c.kind \in {"user", "newUser"} /\ c.body.team # None,
         SeenInv(d)'
  PROVE  DirectoryInv'
<1>1. StepInv(desk[d]) /\ desk[d].step \in UnderwayStep
  BY DEF DirectoryInv, DeskInv, StepInv, Underway
<1>2. PICK c : c = desk[d]
  OBVIOUS
<1>3. BodyInv(c)'
  BY <1>1, <1>2, BodyStays DEF StepInv
<1>4. BodyInv(desk[d])'
  BY <1>2, <1>3 DEF BodyInv, TeamBody, UserBody, MemberBody
<1>5. StepInv(desk[d])'
  BY <1>1, <1>4 DEF StepInv, UnderwayStep
<1>6. DeskInv(d)'
  BY <1>5 DEF DeskInv
<1> QED  BY <1>6, MovesSound

\* The document of the call is loaded, or the call refused.
LEMMA LoadStep ==
  ASSUME DirectoryInv, Watch, NEW d \in Desk, Load(d)
  PROVE  DirectoryInv'
<1>1. PICK c : c = desk[d]
  OBVIOUS
<1>2. /\ Later /\ DocsInv' /\ SessionsTyped
      /\ UNCHANGED <<users, teams>>
  BY LaterSame, SessionsRest DEF Load, DirectoryInv
<1>3. /\ c.step = "load" /\ StepInv(c) /\ Underway(d) /\ BodyInv(c)
      /\ c.kind \in {"team", "user", "password", "members", "newUser", "newTeam"}
  BY <1>1 DEF Load, DirectoryInv, DeskInv, StepInv, Underway, UnderwayStep
<1>4. CASE c.kind = "team"
  <2>1. PICK doc : doc = teams[c.id]
    OBVIOUS
  <2>2. PICK s \in {"check", "save"} :
          /\ Hold(d, s, doc)
          /\ s = "check" => "lead" \in DOMAIN c.body /\ c.body.lead # None
          /\ s = "save" => ~("lead" \in DOMAIN c.body /\ c.body.lead # None)
    BY <1>1, <1>4, <2>1 DEF Load
  <2>3. /\ Alone(d) /\ DOMAIN desk'[d] = CallField
        /\ desk'[d].step = s /\ desk'[d].kind = c.kind /\ desk'[d].id = c.id
        /\ desk'[d].body = c.body /\ desk'[d].loaded = doc
    BY <1>1, <2>2, HoldMoves
  <2>4. doc \in TeamDoc /\ doc.ver \in Nat
    BY <1>3, <1>4, <2>1 DEF BodyInv, DirectoryInv, DocsInv, TeamDoc
  <2>5. CopyInv(desk[d])'
    BY <1>2, <1>4, <2>1, <2>3, <2>4 DEF CopyInv
  <2>6. SeenInv(d)'
    BY <1>4, <2>2, <2>3 DEF SeenInv, At
  <2>7. s \in UnderwayStep
    BY DEF UnderwayStep
  <2> QED  BY <1>1, <1>2, <1>3, <1>4, <2>2, <2>3, <2>5, <2>6, <2>7, GoesOnStep
<1>5. CASE c.kind \in {"user", "password"}
  <2>1. PICK doc : doc = users[c.id]
    OBVIOUS
  <2>2. PICK s \in {"check", "save"} :
          /\ Hold(d, s, doc)
          /\ s = "check" => "team" \in DOMAIN c.body /\ c.body.team # None
          /\ s = "save" => ~("team" \in DOMAIN c.body /\ c.body.team # None)
    BY <1>1, <1>5, <2>1 DEF Load
  <2>3. /\ Alone(d) /\ DOMAIN desk'[d] = CallField
        /\ desk'[d].step = s /\ desk'[d].kind = c.kind /\ desk'[d].id = c.id
        /\ desk'[d].body = c.body /\ desk'[d].loaded = doc
    BY <1>1, <2>2, HoldMoves
  <2>4. doc \in Account
    BY <1>3, <1>5, <2>1 DEF BodyInv, DirectoryInv, DocsInv
  <2>5. CopyInv(desk[d])'
    BY <1>5, <2>3, <2>4 DEF CopyInv
  <2>6. SeenInv(d)' /\ (s = "check" => c.kind = "user")
    BY <1>3, <1>5, <2>2, <2>3 DEF SeenInv, At, BodyInv, UserBody
  <2>7. s \in UnderwayStep
    BY DEF UnderwayStep
  <2> QED  BY <1>1, <1>2, <1>3, <1>5, <2>2, <2>3, <2>5, <2>6, <2>7, GoesOnStep
<1>6. CASE EndCall(d)
  BY <1>2, <1>6, EndStep
<1>7. CASE c.kind = "members" /\ IsOpen(c.id)
  <2>1. Step(d, "remove")
    BY <1>1, <1>7 DEF Load
  <2>2. /\ Alone(d) /\ DOMAIN desk'[d] = CallField
        /\ desk'[d].step = "remove" /\ desk'[d].kind = c.kind /\ desk'[d].id = c.id
        /\ desk'[d].body = c.body
    BY <1>1, <2>1, StepMoves
  <2>3. Underway(d)' /\ IsOpen(desk[d].id)'
    BY <1>2, <1>7, <2>2 DEF Underway, IsOpen
  <2>4. desk'[d].id \in allowed'[d]
    BY <2>3, Remembers
  <2>5. SeenInv(d)' /\ "remove" \in UnderwayStep
    BY <2>2, <2>4 DEF SeenInv, At, UnderwayStep
  <2> QED  BY <1>1, <1>2, <1>3, <1>7, <2>2, <2>5, GoesOnStep
<1>8. ASSUME c.kind \in {"newUser", "newTeam"}, NEW s \in {"check", "save"}, Step(d, s),
             c.kind = "newTeam" => s = "save",
             c.kind = "newUser" => (s = "check" <=> c.body.team # None)
      PROVE  DirectoryInv'
  <2>1. /\ Alone(d) /\ DOMAIN desk'[d] = CallField
        /\ desk'[d].step = s /\ desk'[d].kind = c.kind /\ desk'[d].id = c.id
        /\ desk'[d].body = c.body
    BY <1>1, <1>8, StepMoves
  <2>2. CopyInv(desk[d])' /\ SeenInv(d)' /\ s \in UnderwayStep
    BY <1>8, <2>1 DEF CopyInv, SeenInv, At, UnderwayStep
  <2> QED  BY <1>1, <1>2, <1>3, <1>8, <2>1, <2>2, GoesOnStep
<1>9. CASE c.kind = "newUser" /\ ~EndCall(d)
  <2>1. "team" \in DOMAIN c.body
    BY <1>3, <1>9 DEF BodyInv
  <2>2. Step(d, IF c.body.team # None THEN "check" ELSE "save")
    BY <1>1, <1>9, <2>1 DEF Load
  <2> QED  BY <1>8, <1>9, <2>2
<1>10. CASE c.kind = "newTeam"
  <2>1. Step(d, "save")
    BY <1>1, <1>10 DEF Load
  <2> QED  BY <1>8, <1>10, <2>1
<1>11. CASE c.kind = "members" /\ ~IsOpen(c.id)
  <2>1. EndCall(d)
    BY <1>1, <1>11 DEF Load
  <2> QED  BY <1>6, <2>1
<1> QED  BY <1>3, <1>4, <1>5, <1>6, <1>7, <1>9, <1>10, <1>11

\* The lead or the team that the call names is looked up.
LEMMA CheckStep ==
  ASSUME DirectoryInv, Watch, NEW d \in Desk, Check(d)
  PROVE  DirectoryInv'
<1>1. PICK c : c = desk[d]
  OBVIOUS
<1>2. /\ Later /\ DocsInv' /\ SessionsTyped
      /\ UNCHANGED <<users, teams>>
  BY LaterSame, SessionsRest DEF Check, DirectoryInv
<1>3. /\ c.step = "check" /\ StepInv(c) /\ Underway(d) /\ BodyInv(c) /\ CopyInv(c)
      /\ \/ c.kind = "team" /\ "lead" \in DOMAIN c.body /\ c.body.lead # None
         \/ c.kind \in {"user", "newUser"} /\ c.body.team # None
  BY <1>1 DEF Check, DirectoryInv, DeskInv, StepInv, Underway, UnderwayStep
<1>4. CASE ~Nameable(d)
  <2>1. EndCall(d)
    BY <1>4 DEF Check
  <2> QED  BY <1>2, <2>1, EndStep
<1>5. CASE Nameable(d)
  <2>1. Step(d, "save")
    BY <1>5 DEF Check
  <2>2. /\ Alone(d) /\ DOMAIN desk'[d] = CallField
        /\ desk'[d].step = "save" /\ desk'[d].kind = c.kind /\ desk'[d].id = c.id
        /\ desk'[d].body = c.body /\ desk'[d].loaded = c.loaded
    BY <1>1, <2>1, StepMoves
  <2>3. CopyInv(desk[d])'
    BY <1>2, <1>3, <2>2 DEF CopyInv
  <2>4. Underway(d)'
    BY <2>2 DEF Underway
  <2>5. CASE c.kind = "team"
    <3>1. IsActive(desk[d].body.lead)'
      BY <1>1, <1>2, <1>5, <2>2, <2>5 DEF Nameable, IsActive
    <3>2. desk'[d].body.lead \in allowed'[d]
      BY <1>3, <2>2, <2>4, <2>5, <3>1, Remembers
    <3>3. SeenInv(d)'
      BY <2>2, <2>5, <3>2 DEF SeenInv, At
    <3> QED  BY <1>1, <1>2, <1>3, <2>2, <2>3, <2>5, <3>3, GoesOnStep DEF UnderwayStep
  <2>6. CASE c.kind \in {"user", "newUser"}
    <3>1. IsOpen(desk[d].body.team)'
      BY <1>1, <1>2, <1>5, <2>2, <2>6 DEF Nameable, IsOpen
    <3>2. "team" \in DOMAIN c.body
      BY <1>3, <2>6 DEF BodyInv, UserBody
    <3>3. desk'[d].body.team \in allowed'[d]
      BY <2>2, <2>4, <3>1, <3>2, Remembers
    <3>4. SeenInv(d)'
      BY <2>2, <2>6, <3>3 DEF SeenInv, At
    <3> QED  BY <1>1, <1>2, <1>3, <2>2, <2>3, <2>6, <3>4, GoesOnStep DEF UnderwayStep
  <2> QED  BY <1>3, <2>5, <2>6
<1> QED  BY <1>4, <1>5

\* A member is removed, if it still belongs to the team.
LEMMA RemoveMembersStep ==
  ASSUME DirectoryInv, Watch, NEW d \in Desk, RemoveMembers(d)
  PROVE  DirectoryInv'
<1>1. PICK c, u : c = desk[d] /\ u = c.body.remove
  OBVIOUS
<1>2. /\ c.step = "remove" /\ c.kind = "members" /\ BodyInv(c) /\ Underway(d)
      /\ DOMAIN c.body = {"add", "remove"} /\ u \in DOMAIN users \cup {None}
      /\ c.id \in allowed[d]
  BY <1>1 DEF RemoveMembers, At, DirectoryInv, DeskInv, StepInv, BodyInv, MemberBody, Underway,
              SeenInv, UnderwayStep
<1>3. /\ DOMAIN users' = DOMAIN users
      /\ \A v \in DOMAIN users' : users'[v] \in Account
  <2>1. CASE UNCHANGED users
    BY <2>1 DEF DirectoryInv, DocsInv
  <2>2. CASE u # None /\ users' = [users EXCEPT ![u].team = None]
    BY <1>2, <2>2, TeamOfUser
  <2> QED  BY <1>1, <2>1, <2>2 DEF RemoveMembers
<1>4. Later /\ DocsInv' /\ SessionsTyped
  BY <1>3, UsersChange DEF RemoveMembers, DirectoryInv, DocsInv
<1>5. CASE EndCall(d)
  BY <1>4, <1>5, EndStep
<1>6. CASE c.body.add # None /\ Step(d, "find")
  <2>1. /\ Alone(d) /\ DOMAIN desk'[d] = CallField
        /\ desk'[d].step = "find" /\ desk'[d].kind = c.kind /\ desk'[d].id = c.id
        /\ desk'[d].body = c.body
    BY <1>1, <1>6, StepMoves
  <2>2. c.id \in allowed'[d]
    BY <1>2, <2>1, Remembers DEF Underway
  <2>3. SeenInv(d)'
    BY <2>1, <2>2 DEF SeenInv, At
  <2> QED  BY <1>1, <1>2, <1>4, <1>6, <2>1, <2>3, GoesOnStep DEF UnderwayStep
<1> QED  BY <1>1, <1>5, <1>6 DEF RemoveMembers

\* The account to add is looked up.
LEMMA FindMembersStep ==
  ASSUME DirectoryInv, Watch, NEW d \in Desk, FindMembers(d)
  PROVE  DirectoryInv'
<1>1. PICK c : c = desk[d]
  OBVIOUS
<1>2. /\ c.step = "find" /\ c.kind = "members" /\ BodyInv(c) /\ Underway(d)
      /\ DOMAIN c.body = {"add", "remove"} /\ c.body.add # None
      /\ c.id \in allowed[d]
  BY <1>1 DEF FindMembers, At, DirectoryInv, DeskInv, StepInv, BodyInv, MemberBody, Underway,
              SeenInv, UnderwayStep
<1>3. /\ Later /\ DocsInv' /\ SessionsTyped
      /\ UNCHANGED <<users, teams>>
  BY LaterSame, SessionsRest DEF FindMembers, DirectoryInv
<1>4. CASE EndCall(d)
  BY <1>3, <1>4, EndStep
<1>5. CASE IsActive(c.body.add) /\ Step(d, "add")
  <2>1. /\ Alone(d) /\ DOMAIN desk'[d] = CallField
        /\ desk'[d].step = "add" /\ desk'[d].kind = c.kind /\ desk'[d].id = c.id
        /\ desk'[d].body = c.body
    BY <1>1, <1>5, StepMoves
  <2>2. Underway(d)' /\ IsActive(desk[d].body.add)'
    BY <1>3, <1>5, <2>1 DEF Underway, IsActive
  <2>3. c.id \in allowed'[d] /\ c.body.add \in allowed'[d]
    BY <1>2, <2>1, <2>2, Remembers
  <2>4. SeenInv(d)'
    BY <2>1, <2>3 DEF SeenInv, At
  <2> QED  BY <1>1, <1>2, <1>3, <2>1, <2>4, GoesOnStep DEF UnderwayStep
<1> QED  BY <1>1, <1>4, <1>5 DEF FindMembers

\* The account moves to the team.
LEMMA AddMembersStep ==
  ASSUME DirectoryInv, Watch, NEW d \in Desk, AddMembers(d)
  PROVE  DirectoryInv'
<1>1. PICK c, u : c = desk[d] /\ u = c.body.add
  OBVIOUS
<1>2. u \in DOMAIN users /\ c.id \in DOMAIN teams
  BY <1>1 DEF AddMembers, At, DirectoryInv, DeskInv, StepInv, BodyInv, MemberBody, UnderwayStep
<1>3. c.id \in Team \cup {None}
  BY <1>2 DEF DirectoryInv, DocsInv
<1>4. /\ DOMAIN users' = DOMAIN users
      /\ \A v \in DOMAIN users' : users'[v] \in Account
  BY <1>1, <1>2, <1>3, TeamOfUser DEF AddMembers
<1>5. Later /\ DocsInv' /\ SessionsTyped
  BY <1>4, UsersChange DEF AddMembers, DirectoryInv, DocsInv
<1> QED  BY <1>5, EndStep DEF AddMembers

\* Every step of a handler keeps the invariant.
LEMMA HandlerStep ==
  ASSUME DirectoryInv, Watch, NEW d \in Desk, Handler(d)
  PROVE  DirectoryInv'
BY LoadStep, CheckStep, SaveTeamStep, SaveUserStep, InsertUserStep, InsertTeamStep,
   RemoveMembersStep, FindMembersStep, AddMembersStep DEF Handler

-----------------------------------------------------------------------------
\* The invariant holds of the first accounts and teams.
LEMMA InvInit == Init => DirectoryInv
<1> SUFFICES ASSUME Init PROVE DirectoryInv
  OBVIOUS
<1>1. DocsInv
  BY FirstAssumption DEF Init, DocsInv
<1>2. SessionInv
  BY CallsAssumption DEF Init, SessionInv
<1>3. DOMAIN Idle = CallField /\ Idle.step = "idle"
  BY DEF Idle, CallField
<1>4. ASSUME NEW d \in Desk PROVE DeskInv(d)
  BY <1>3 DEF Init, DeskInv, StepInv, SeenInv, At, UnderwayStep
<1> QED  BY <1>1, <1>2, <1>4 DEF DirectoryInv, Init

\* Every step keeps the invariant.
LEMMA InvNext ==
  ASSUME DirectoryInv, [Next]_vars
  PROVE  DirectoryInv'
<1>1. CASE UNCHANGED vars
  BY <1>1 DEF vars, DirectoryInv, DocsInv, SessionInv, DeskInv, StepInv, SeenInv, At, BodyInv,
              CopyInv, MemberBody
<1>2. CASE Next
  BY <1>2, SessionStep, PageStep, HandlerStep DEF Next
<1> QED  BY <1>1, <1>2

-----------------------------------------------------------------------------
(* Who changes what. *)

\* A desk that is not concerned does not move.
LEMMA OthersRest ==
  ASSUME DirectoryInv, NEW e \in Desk, Session(e) \/ Page(e) \/ Handler(e), NEW d \in Desk \ {e}
  PROVE  desk'[d] = desk[d]
<1>0. DOMAIN desk = Desk
  BY DEF DirectoryInv
<1>1. CASE Session(e)
  BY <1>0, <1>1 DEF Session, Login, Compared, refreshToken, Refreshed, Logout, RunsOut, EndCall
<1>2. ASSUME NEW kind, NEW id, NEW body, Begin(e, kind, id, body) PROVE desk'[d] = desk[d]
  BY <1>0, <1>2 DEF Begin
<1>3. CASE Page(e)
  <2>1. CASE SubmitForm(e)
    BY <1>2, <2>1 DEF SubmitForm
  <2>2. CASE closeForm(e)
    BY <1>0, <2>2 DEF closeForm, EndCall
  <2>3. ASSUME NEW t \in Team, openEditTeam(e, t) PROVE desk'[d] = desk[d]
    BY <1>0, <2>3 DEF openEditTeam
  <2>4. ASSUME NEW u \in User, openEditUser(e, u) PROVE desk'[d] = desk[d]
    BY <1>0, <2>4 DEF openEditUser
  <2> QED  BY <1>2, <1>3, <2>1, <2>2, <2>3, <2>4
           DEF Page, ArchiveTeam, RestoreTeam, ChangeMembers, NewTeam, ResetPassword, NewUser, Press
<1>4. ASSUME NEW s, Step(e, s) PROVE desk'[d] = desk[d]
  BY <1>0, <1>4 DEF Step
<1>5. ASSUME NEW s, NEW l, Hold(e, s, l) PROVE desk'[d] = desk[d]
  BY <1>0, <1>5 DEF Hold
<1>6. CASE EndCall(e)
  BY <1>0, <1>6 DEF EndCall
<1>7. CASE Load(e)
  <2>1. desk[e].kind \in {"team", "user", "password", "members", "newUser", "newTeam"}
    BY <1>7 DEF Load, DirectoryInv, DeskInv, StepInv, UnderwayStep
  <2>2. EndCall(e) \/ (\E s : Step(e, s)) \/ (\E s, l : Hold(e, s, l))
    BY <1>7, <2>1 DEF Load
  <2> QED  BY <1>4, <1>5, <1>6, <2>2
<1>8. CASE Check(e)
  BY <1>4, <1>6, <1>8 DEF Check
<1>9. CASE SaveTeam(e) \/ SaveUser(e) \/ InsertUser(e) \/ InsertTeam(e) \/ AddMembers(e)
  BY <1>6, <1>9 DEF SaveTeam, SaveUser, InsertUser, InsertTeam, AddMembers
<1>10. CASE RemoveMembers(e) \/ FindMembers(e)
  BY <1>4, <1>6, <1>10 DEF RemoveMembers, FindMembers
<1> QED  BY <1>1, <1>3, <1>7, <1>8, <1>9, <1>10 DEF Handler

\* Sessions and pages leave the collections alone.
LEMMA PageLeavesDocs ==
  ASSUME NEW e \in Desk, Session(e) \/ Page(e)
  PROVE  UNCHANGED <<users, teams>>
<1>1. CASE Session(e)
  BY <1>1 DEF Session, Login, Compared, refreshToken, Refreshed, Logout, RunsOut
<1>2. ASSUME NEW kind, NEW id, NEW body, Begin(e, kind, id, body) PROVE UNCHANGED <<users, teams>>
  BY <1>2 DEF Begin
<1>3. CASE Page(e)
  <2>1. CASE SubmitForm(e)
    BY <1>2, <2>1 DEF SubmitForm
  <2>2. CASE closeForm(e)
    BY <2>2 DEF closeForm
  <2>3. ASSUME NEW t \in Team, openEditTeam(e, t) PROVE UNCHANGED <<users, teams>>
    BY <2>3 DEF openEditTeam
  <2>4. ASSUME NEW u \in User, openEditUser(e, u) PROVE UNCHANGED <<users, teams>>
    BY <2>4 DEF openEditUser
  <2> QED  BY <1>2, <1>3, <2>1, <2>2, <2>3, <2>4
           DEF Page, ArchiveTeam, RestoreTeam, ChangeMembers, NewTeam, ResetPassword, NewUser, Press
<1> QED  BY <1>1, <1>3

\* A session or a page moves no call that is under way.
LEMMA PageLeavesCalls ==
  ASSUME NEW e \in Desk, Session(e) \/ Page(e), Underway(e)
  PROVE  desk'[e] = desk[e]
<1>1. desk[e] # Idle
  BY DEF Underway, Idle
<1>2. CASE Session(e)
  <2>1. ~Login(e) /\ ~Compared(e) /\ ~refreshToken(e) /\ ~Refreshed(e)
    BY <1>1 DEF Login, Compared, refreshToken, Refreshed, At, Underway
  <2>2. UNCHANGED desk
    BY <1>2, <2>1 DEF Session, Logout, RunsOut
  <2> QED  BY <2>2
<1>3. ~Page(e)
  <2>1. ~SubmitForm(e) /\ ~closeForm(e)
    BY DEF SubmitForm, closeForm, Underway
  <2>2. \A kind, id, body : ~Press(e, kind, id, body)
    BY <1>1 DEF Press
  <2>3. \A x : ~openEditTeam(e, x) /\ ~openEditUser(e, x)
    BY <1>1 DEF openEditTeam, openEditUser
  <2> QED  BY <2>1, <2>2, <2>3 DEF Page, ArchiveTeam, RestoreTeam, ChangeMembers, NewTeam,
                                   ResetPassword, NewUser
<1> QED  BY <1>2, <1>3

\* So a call goes on in a step of its own handler.
LEMMA ActsInHandler ==
  ASSUME DirectoryInv, Next, NEW d \in Desk, Acts(d)
  PROVE  Handler(d)
<1>1. PICK e \in Desk : Session(e) \/ Page(e) \/ Handler(e)
  BY DEF Next
<1>2. e = d
  BY <1>1, OthersRest DEF Acts
<1> QED  BY <1>1, <1>2, PageLeavesCalls DEF Acts

\* The handlers that change accounts, those that change teams.
LEMMA HandlerWrites ==
  ASSUME NEW d \in Desk, Handler(d)
  PROVE  /\ SaveUser(d) \/ InsertUser(d) \/ RemoveMembers(d) \/ AddMembers(d) \/ UNCHANGED users
         /\ SaveTeam(d) \/ InsertTeam(d) \/ UNCHANGED teams
BY DEF Handler, Load, Check, SaveTeam, SaveUser, InsertUser, InsertTeam, RemoveMembers,
       FindMembers, AddMembers

\* A handler that saves ends its call, or goes on to another step of it.
LEMMA WriterActs ==
  ASSUME DirectoryInv, NEW d \in Desk,
         \/ SaveUser(d) \/ InsertUser(d) \/ RemoveMembers(d) \/ AddMembers(d)
         \/ SaveTeam(d) \/ InsertTeam(d)
  PROVE  Acts(d)
<1>1. desk[d].step \in {"save", "remove", "add"} /\ Underway(d)
  BY DEF SaveUser, InsertUser, RemoveMembers, AddMembers, SaveTeam, InsertTeam, At, Underway
<1>2. EndCall(d) \/ Step(d, "find")
  BY DEF SaveUser, InsertUser, RemoveMembers, AddMembers, SaveTeam, InsertTeam
<1>3. desk'[d].step \in {"idle", "find"}
  BY <1>2, EndMoves, StepMoves
<1> QED  BY <1>1, <1>3 DEF Acts

\* What adding and removing members changes.
LEMMA MembersDo ==
  ASSUME DirectoryInv, NEW d \in Desk, RemoveMembers(d) \/ AddMembers(d), NEW u \in DOMAIN users
  PROVE  /\ desk[d].kind = "members" /\ DOMAIN users' = DOMAIN users
         /\ \A f \in DOMAIN users[u] : f # "team" => users'[u][f] = users[u][f]
         /\ RemoveMembers(d) => \/ users'[u].team = users[u].team
                                \/ users'[u].team = None /\ users[u].team = desk[d].id
         /\ AddMembers(d) => \/ users'[u].team = users[u].team
                             \/ users'[u].team = desk[d].id /\ u = desk[d].body.add
<1>1. PICK c : c = desk[d]
  OBVIOUS
<1>2. /\ c.kind = "members" /\ c.id \in Team
      /\ c.body.add \in DOMAIN users \cup {None} /\ c.body.remove \in DOMAIN users \cup {None}
  BY <1>1 DEF RemoveMembers, AddMembers, At, DirectoryInv, DocsInv, DeskInv, StepInv, BodyInv,
              MemberBody, UnderwayStep
<1>3. CASE RemoveMembers(d)
  <2>0. ~AddMembers(d)
    BY <1>3 DEF RemoveMembers, AddMembers, At
  <2>1. CASE UNCHANGED users
    BY <1>1, <1>2, <2>0, <2>1
  <2>2. PICK v : v = c.body.remove
    OBVIOUS
  <2>3. CASE /\ v # None /\ users[v].team = c.id
             /\ users' = [users EXCEPT ![v].team = None]
    <3>1. /\ DOMAIN users' = DOMAIN users
          /\ \A w \in DOMAIN users \ {v} : users'[w] = users[w]
          /\ users'[v].team = None
          /\ \A f \in DOMAIN users[v] : f # "team" => users'[v][f] = users[v][f]
      BY <1>2, <2>2, <2>3, TeamOfUser
    <3> QED  BY <1>1, <1>2, <2>0, <2>3, <3>1
  <2> QED  BY <1>1, <1>3, <2>1, <2>2, <2>3 DEF RemoveMembers
<1>4. CASE AddMembers(d)
  <2>0. ~RemoveMembers(d)
    BY <1>4 DEF RemoveMembers, AddMembers, At
  <2>2. PICK v : v = c.body.add
    OBVIOUS
  <2>3. v # None /\ users' = [users EXCEPT ![v].team = c.id]
    BY <1>1, <1>4, <2>2 DEF AddMembers, At, DirectoryInv, DeskInv, StepInv, UnderwayStep
  <2>4. /\ DOMAIN users' = DOMAIN users
        /\ \A w \in DOMAIN users \ {v} : users'[w] = users[w]
        /\ users'[v].team = c.id
        /\ \A f \in DOMAIN users[v] : f # "team" => users'[v][f] = users[v][f]
    BY <1>2, <2>2, <2>3, TeamOfUser
  <2> QED  BY <1>1, <1>2, <2>0, <2>2, <2>4
<1> QED  BY <1>3, <1>4

-----------------------------------------------------------------------------
\* The invariant holds in every state, whatever calls overlap.
LEMMA Inductive == Spec => []DirectoryInv
<1> QED  BY InvInit, InvNext, PTL DEF Spec

\* Collections, sessions and calls are well formed, and an edit saves to a
\* document that is there.
THEOREM TypeCorrect == Spec => []TypeOK
<1>1. DirectoryInv => TypeOK
  <2> SUFFICES ASSUME DirectoryInv PROVE TypeOK
    OBVIOUS
  <2>1. ASSUME NEW d \in Desk
        PROVE  /\ At(d, "team", "save") => desk[d].id \in DOMAIN teams
               /\ At(d, "user", "save") => desk[d].id \in DOMAIN users
               /\ desk[d].step = "check" => {"lead", "team"} \cap DOMAIN desk[d].body # {}
    <3>1. PICK c : c = desk[d]
      OBVIOUS
    <3>2. StepInv(c)
      BY <3>1 DEF DirectoryInv, DeskInv
    <3>3. c.step \in UnderwayStep => BodyInv(c)
      BY <3>2 DEF StepInv
    <3>4. c.step = "save" /\ c.kind = "team" => c.id \in DOMAIN teams
      BY <3>3 DEF BodyInv, UnderwayStep
    <3>5. c.step = "save" /\ c.kind = "user" => c.id \in DOMAIN users
      BY <3>3 DEF BodyInv, UnderwayStep
    <3>6. c.step = "check" => "lead" \in DOMAIN c.body \/ "team" \in DOMAIN c.body
      BY <3>2, <3>3 DEF StepInv, BodyInv, UserBody, UnderwayStep
    <3> QED  BY <3>1, <3>4, <3>5, <3>6 DEF At
  <2> QED  BY <2>1 DEF DirectoryInv, DocsInv, SessionInv, TypeOK
<1> QED  BY Inductive, <1>1, PTL

\* What one admin decides is undone only by a call that speaks of it, whatever
\* copies the calls under way have loaded.
THEOREM NothingUndone == Spec => NothingElseUndone
<1>1. ASSUME DirectoryInv, [Next]_vars, NEW d \in Desk, Acts(d)
      PROVE  /\ \A u \in DOMAIN users :
                  /\ \A f \in DOMAIN users[u] : users'[u][f] # users[u][f] => f \in NamedBy(d)
                  /\ desk[d].kind = "members" /\ users'[u].team = None =>
                       users[u].team \in {None, desk[d].id}
             /\ \A t \in DOMAIN teams : \A f \in DOMAIN teams[t] :
                  teams'[t][f] # teams[t][f] => f \in NamedBy(d)
  <2>1. Handler(d)
    BY <1>1, ActsInHandler DEF Acts, vars
  <2>2. ASSUME NEW u \in DOMAIN users
        PROVE  /\ \A f \in DOMAIN users[u] : users'[u][f] # users[u][f] => f \in NamedBy(d)
               /\ desk[d].kind = "members" /\ users'[u].team = None =>
                    users[u].team \in {None, desk[d].id}
    <3>1. CASE SaveUser(d)
      <4>1. desk[d].kind # "members"
        BY <3>1 DEF SaveUser, At
      <4> QED  BY <1>1, <3>1, <4>1, SaveUserDoes DEF NamedBy
    <3>2. CASE InsertUser(d)
      BY <3>2 DEF InsertUser, Store, At
    <3>3. CASE RemoveMembers(d) \/ AddMembers(d)
      <4>1. desk[d].kind = "members" => "team" \in NamedBy(d)
        BY DEF NamedBy
      <4>2. AddMembers(d) => desk[d].id # None
        BY <1>1, NoneAssumption DEF AddMembers, At, DirectoryInv, DocsInv, DeskInv, StepInv, BodyInv,
                                    UnderwayStep
      <4> QED  BY <1>1, <3>3, <4>1, <4>2, MembersDo
    <3>4. CASE UNCHANGED users
      BY <3>4
    <3> QED  BY <2>1, <3>1, <3>2, <3>3, <3>4, HandlerWrites
  <2>3. ASSUME NEW t \in DOMAIN teams, NEW f \in DOMAIN teams[t], teams'[t][f] # teams[t][f]
        PROVE  f \in NamedBy(d)
    <3>1. CASE SaveTeam(d)
      <4>1. t = desk[d].id
        BY <1>1, <2>3, <3>1, SaveTeamDoes
      <4>2. f \in {"archived", "lead", "services", "ver"}
        BY <1>1, <2>3 DEF DirectoryInv, DocsInv, TeamDoc
      <4>3. /\ f = "services" => "services" \in DOMAIN desk[d].body
            /\ f = "archived" => "archived" \in DOMAIN desk[d].body
            /\ f = "lead" => "archived" \in DOMAIN desk[d].body \/ "lead" \in DOMAIN desk[d].body
        BY <1>1, <2>3, <3>1, <4>1, SaveTeamDoes
      <4> QED  BY <4>2, <4>3 DEF NamedBy
    <3>2. CASE InsertTeam(d)
      BY <2>3, <3>2 DEF InsertTeam, Store
    <3> QED  BY <2>1, <2>3, <3>1, <3>2, HandlerWrites
  <2> QED  BY <2>2, <2>3
<1>2. DirectoryInv /\ [Next]_vars =>
        [\A d \in Desk : Acts(d) =>
           /\ \A u \in DOMAIN users :
                /\ \A f \in DOMAIN users[u] : users'[u][f] # users[u][f] => f \in NamedBy(d)
                /\ desk[d].kind = "members" /\ users'[u].team = None =>
                     users[u].team \in {None, desk[d].id}
           /\ \A t \in DOMAIN teams : \A f \in DOMAIN teams[t] :
                teams'[t][f] # teams[t][f] => f \in NamedBy(d)]_vars
  BY <1>1
<1> QED  BY Inductive, <1>2, PTL DEF Spec, NothingElseUndone

\* An edit replaces the responsibilities it has read, never those another edit
\* saved in between.
THEOREM EditsReplaceWhatTheyRead == Spec => ReplacesWhatItRead
<1>1. ASSUME DirectoryInv, [Next]_vars, NEW d \in Desk, Acts(d),
             NEW t \in DOMAIN teams, teams'[t].services # teams[t].services
      PROVE  desk[d].loaded.services = teams[t].services
  <2>1. Handler(d)
    BY <1>1, ActsInHandler DEF Acts, vars
  <2>2. CASE SaveTeam(d)
    <3>1. t = desk[d].id
      BY <1>1, <2>2, SaveTeamDoes
    <3> QED  BY <1>1, <2>2, <3>1, SaveTeamDoes
  <2>3. CASE InsertTeam(d)
    BY <1>1, <2>3 DEF InsertTeam, Store
  <2> QED  BY <1>1, <2>1, <2>2, <2>3, HandlerWrites
<1>2. DirectoryInv /\ [Next]_vars =>
        [\A d \in Desk : Acts(d) =>
           \A t \in DOMAIN teams : teams'[t].services # teams[t].services =>
             desk[d].loaded.services = teams[t].services]_vars
  BY <1>1
<1> QED  BY Inductive, <1>2, PTL DEF Spec, ReplacesWhatItRead

\* Who joins a team joins one that was open during the call, and who is made the
\* lead of a team that is there already was active during the call that says so.
\* Of the lead of a new team, which create does not look up, nothing is said.
THEOREM NamesSound == Spec => NamesAreSound
<1>1. ASSUME DirectoryInv, [Next]_vars, NEW u \in DOMAIN users', users'[u].team # None,
             u \in DOMAIN users => users'[u].team # users[u].team
      PROVE  \E d \in Desk : /\ Acts(d)
                             /\ users'[u].team \in allowed[d]
                             /\ desk[d].kind = "members" => u \in allowed[d]
  <2>1. users' # users
    BY <1>1
  <2>2. PICK d \in Desk : Handler(d)
    BY <1>1, <2>1, PageLeavesDocs DEF Next, vars
  <2>3. CASE SaveUser(d)
    <3>1. /\ desk[d].id = u /\ u \in DOMAIN users /\ users'[u] \in Account
      BY <1>1, <2>3, SaveUserDoes
    <3>2. users[u] \in Account
      BY <1>1, <3>1 DEF DirectoryInv, DocsInv
    <3>3. "team" \in DOMAIN users[u]
      BY <3>2 DEF Account
    <3>4. "team" \in DOMAIN desk[d].body /\ users'[u].team = desk[d].body.team
      BY <1>1, <2>3, <3>1, <3>3, SaveUserDoes
    <3>5. desk[d].kind = "user" /\ desk[d].step = "save"
      <4>1. desk[d].kind \in {"user", "password"} /\ desk[d].step = "save"
        BY <2>3 DEF SaveUser, At
      <4>2. BodyInv(desk[d])
        BY <1>1, <4>1 DEF DirectoryInv, DeskInv, StepInv, UnderwayStep
      <4> QED  BY <3>4, <4>1, <4>2 DEF BodyInv
    <3>6. users'[u].team \in allowed[d]
      BY <1>1, <3>4, <3>5 DEF DirectoryInv, DeskInv, SeenInv
    <3> QED  BY <1>1, <2>3, <3>5, <3>6, WriterActs
  <2>4. CASE InsertUser(d)
    <3>1. u \notin DOMAIN users /\ u = desk[d].id /\ users'[u].team = desk[d].body.team
      BY <1>1, <2>4 DEF InsertUser, Store
    <3>2. desk[d].kind = "newUser" /\ desk[d].step = "save"
      BY <2>4 DEF InsertUser, At
    <3>3. users'[u].team \in allowed[d]
      BY <1>1, <3>1, <3>2 DEF DirectoryInv, DeskInv, SeenInv
    <3> QED  BY <1>1, <2>4, <3>2, <3>3, WriterActs
  <2>5. CASE RemoveMembers(d) \/ AddMembers(d)
    <3>1. /\ u \in DOMAIN users /\ AddMembers(d)
          /\ users'[u].team = desk[d].id /\ u = desk[d].body.add
      <4>1. \A v \in DOMAIN users : DOMAIN users' = DOMAIN users
        BY <1>1, <2>5, MembersDo
      <4>2. u \in DOMAIN users
        BY <1>1, <2>5, <4>1 DEF RemoveMembers, AddMembers
      <4> QED  BY <1>1, <2>5, <4>2, MembersDo
    <3>2. desk[d].id \in allowed[d] /\ desk[d].body.add \in allowed[d]
      BY <1>1, <3>1 DEF AddMembers, At, DirectoryInv, DeskInv, SeenInv
    <3> QED  BY <1>1, <3>1, <3>2, WriterActs
  <2> QED  BY <2>1, <2>2, <2>3, <2>4, <2>5, HandlerWrites
<1>2. ASSUME DirectoryInv, [Next]_vars, NEW t \in DOMAIN teams,
             teams'[t].lead \notin {None, teams[t].lead}
      PROVE  \E d \in Desk : Acts(d) /\ teams'[t].lead \in allowed[d]
  <2>1. teams' # teams
    BY <1>2
  <2>2. PICK d \in Desk : Handler(d)
    BY <1>2, <2>1, PageLeavesDocs DEF Next, vars
  <2>3. CASE SaveTeam(d)
    <3>1. t = desk[d].id
      BY <1>2, <2>3, SaveTeamDoes
    <3>2. "lead" \in DOMAIN desk[d].body /\ teams'[t].lead = desk[d].body.lead
      BY <1>2, <2>3, <3>1, SaveTeamDoes
    <3>3. At(d, "team", "save")
      BY <2>3 DEF SaveTeam
    <3>4. teams'[t].lead \in allowed[d]
      BY <1>2, <3>2, <3>3 DEF DirectoryInv, DeskInv, SeenInv
    <3> QED  BY <1>2, <2>3, <3>4, WriterActs
  <2>4. CASE InsertTeam(d)
    BY <1>2, <2>4 DEF InsertTeam, Store
  <2> QED  BY <2>1, <2>2, <2>3, <2>4, HandlerWrites
<1>3. DirectoryInv /\ [Next]_vars =>
        [/\ \A u \in DOMAIN users' :
              users'[u].team # None /\ (u \in DOMAIN users => users'[u].team # users[u].team) =>
                \E d \in Desk : /\ Acts(d)
                                /\ users'[u].team \in allowed[d]
                                /\ desk[d].kind = "members" => u \in allowed[d]
         /\ \A t \in DOMAIN teams :
              teams'[t].lead \notin {None, teams[t].lead} =>
                \E d \in Desk : Acts(d) /\ teams'[t].lead \in allowed[d]]_vars
  BY <1>1, <1>2
<1> QED  BY Inductive, <1>3, PTL DEF Spec, NamesAreSound
=============================================================================
