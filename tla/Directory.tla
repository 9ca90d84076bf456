----------------------------- MODULE Directory -----------------------------
(***************************************************************************)
(* Teams, users and sessions: TeamsService, UsersService, AuthService with *)
(* the guards of the controllers, and the Teams & Users page that admins   *)
(* use.  A desk is one browser; its owner logs in there, and has one call  *)
(* under way at a time.                                                    *)
(*                                                                         *)
(* A handler runs undivided between two awaits.  The body of a call is a   *)
(* function from the fields it gives; a form gives every field it shows,   *)
(* as they were when it was opened, but for what the admin changed.        *)
(***************************************************************************)
EXTENDS Mongoose, FiniteSets

CONSTANTS
  User,        \* accounts, by their unique email
  Team,        \* teams, by their unique name
  Desk,        \* browsers
  Owner,       \* Owner[d]: who logs in at desk d
  Service,     \* the lists of responsibilities a team may be given
  FirstUsers,  \* the accounts at the start: a function from part of User
  FirstTeams,  \* the teams at the start: a function from part of Team
  MaxCalls,    \* bound on the calls that change something
  None         \* null

Role    == {"ADMIN", "OPERATOR"}
Account == [active : BOOLEAN, role : Role, team : Team \cup {None}, secret : Desk \cup {None}]
TeamDoc == [archived : BOOLEAN, lead : User \cup {None}, services : Service, ver : Nat]

ASSUME OwnerAssumption == Owner \in [Desk -> User]
ASSUME CallsAssumption == MaxCalls \in Nat
ASSUME NoneAssumption  == None \notin User \cup Team
ASSUME ServiceAssumption == Service # {}
ASSUME FirstAssumption ==
  /\ DOMAIN FirstUsers \subseteq User /\ \A u \in DOMAIN FirstUsers : FirstUsers[u] \in Account
  /\ DOMAIN FirstTeams \subseteq Team /\ \A t \in DOMAIN FirstTeams : FirstTeams[t] \in TeamDoc

VARIABLES
  users,   \* the collection: a function from the stored accounts
  teams,   \* the collection: a function from the stored teams
  token,   \* the tokens each desk holds that have not run out
  badge,   \* the role a desk remembers from its login, or None
  desk,    \* the form that is open, or the call that is under way
  calls,   \* calls made so far
  allowed  \* history: the open teams and active accounts among those a call
           \* names, at any time since it began

vars == <<users, teams, token, badge, desk, calls, allowed>>

Nothing == [f \in {} |-> None]
Idle == [step |-> "idle", kind |-> None, id |-> None, body |-> Nothing, loaded |-> Nothing]

IsActive(u) == u \in DOMAIN users /\ users[u].active
IsOpen(t)   == t \in DOMAIN teams /\ ~teams[t].archived

At(d, kind, step) == desk[d].kind = kind /\ desk[d].step = step
Step(d, step) == desk' = [desk EXCEPT ![d].step = step]
EndCall(d)    == desk' = [desk EXCEPT ![d] = Idle]
Hold(d, step, loaded) == desk' = [desk EXCEPT ![d].step = step, ![d].loaded = loaded]

\* Mistake: a new document is stored without its fields.
StoresBlank(f, id, doc) == [i \in DOMAIN f \cup {id} |-> IF i = id THEN Nothing ELSE f[i]]

Store(f, id, doc) == [i \in DOMAIN f \cup {id} |-> IF i = id THEN doc ELSE f[i]]

-----------------------------------------------------------------------------
(* Sessions. *)

Tokens == {"access", "refresh"}

\* login: the account is loaded, then bcrypt compares.
Login(d) ==
  /\ desk[d] = Idle
  /\ Owner[d] \in DOMAIN users
  /\ desk' = [desk EXCEPT ![d].kind = "login", ![d].step = "compare",
                          ![d].loaded = users[Owner[d]]]
  /\ UNCHANGED <<users, teams, token, badge, calls>>

\* A wrong password, an account deactivated when it was loaded, or both tokens;
\* the page keeps the role of the answer.
Compared(d) ==
  /\ At(d, "login", "compare")
  /\ EndCall(d)
  /\ \/ UNCHANGED <<token, badge>>
     \/ /\ desk[d].loaded.active
        /\ token' = [token EXCEPT ![d] = Tokens]
        /\ badge' = [badge EXCEPT ![d] = desk[d].loaded.role]
  /\ UNCHANGED <<users, teams, calls>>

\* Mistake: the account is not looked at again.
RefreshesForAnyone(d) == TRUE

MayRefresh(d) == IsActive(Owner[d])

\* A client of the API trades its refresh token for two new ones: the account
\* that is loaded must be active;
refreshToken(d) ==
  /\ desk[d] = Idle
  /\ "refresh" \in token[d]
  /\ MayRefresh(d)
  /\ desk' = [desk EXCEPT ![d].kind = "renew", ![d].step = "sign"]
  /\ UNCHANGED <<users, teams, token, badge, calls>>

\* then they are signed.
Refreshed(d) ==
  /\ At(d, "renew", "sign")
  /\ EndCall(d)
  /\ token' = [token EXCEPT ![d] = Tokens]
  /\ UNCHANGED <<users, teams, badge, calls>>

\* An access token lives for a day, a refresh token for a week.
RunsOut(d, kind) ==
  /\ kind \in token[d]
  /\ kind = "refresh" => "access" \notin token[d]
  /\ token' = [token EXCEPT ![d] = @ \ {kind}]
  /\ UNCHANGED <<users, teams, badge, desk, calls>>

Logout(d) ==
  /\ desk[d] = Idle
  /\ badge[d] # None
  /\ token' = [token EXCEPT ![d] = {}]
  /\ badge' = [badge EXCEPT ![d] = None]
  /\ UNCHANGED <<users, teams, desk, calls>>

-----------------------------------------------------------------------------
(* The page. *)

\* Admins alone see the controls, by the role the page remembers.
ShowsControls(d) == badge[d] = "ADMIN"

\* JwtStrategy and RolesGuard: the token counts for the account as it is now.
Passes(d) ==
  /\ "access" \in token[d]
  /\ IsActive(Owner[d])
  /\ users[Owner[d]].role = "ADMIN"

\* openEditTeam and openEditUser: the fields of the form as they are now.
openEditTeam(d, t) ==
  /\ desk[d] = Idle /\ ShowsControls(d)
  /\ IsOpen(t)
  /\ desk' = [desk EXCEPT ![d] = [Idle EXCEPT !.step = "form", !.kind = "team", !.id = t,
                !.body = [lead |-> teams[t].lead, services |-> teams[t].services]]]
  /\ UNCHANGED <<users, teams, token, badge, calls>>

openEditUser(d, u) ==
  /\ desk[d] = Idle /\ ShowsControls(d)
  /\ u \in DOMAIN users
  /\ desk' = [desk EXCEPT ![d] = [Idle EXCEPT !.step = "form", !.kind = "user", !.id = u,
                !.body = [role |-> users[u].role, team |-> users[u].team,
                          active |-> users[u].active]]]
  /\ UNCHANGED <<users, teams, token, badge, calls>>

closeForm(d) ==
  /\ desk[d].step = "form"
  /\ EndCall(d)
  /\ UNCHANGED <<users, teams, token, badge, calls>>

\* A call arrives and passes the guards.
Begin(d, kind, id, body) ==
  /\ Passes(d)
  /\ calls < MaxCalls
  /\ calls' = calls + 1
  /\ desk' = [desk EXCEPT ![d] = [Idle EXCEPT !.step = "load", !.kind = kind, !.id = id,
                                              !.body = body]]
  /\ UNCHANGED <<users, teams, token, badge>>

Press(d, kind, id, body) ==
  /\ desk[d] = Idle /\ ShowsControls(d)
  /\ Begin(d, kind, id, body)

ValuesOf(field) ==
  CASE field = "lead"     -> User \cup {None}
    [] field = "services" -> Service
    [] field = "role"     -> Role
    [] field = "team"     -> Team \cup {None}
    [] field = "active"   -> BOOLEAN

\* handleSaveTeam, handleSaveUser: the admin changes one field of the form, or
\* none.
SubmitForm(d) ==
  /\ desk[d].step = "form"
  /\ \E field \in DOMAIN desk[d].body : \E value \in ValuesOf(field) :
       Begin(d, desk[d].kind, desk[d].id, [desk[d].body EXCEPT ![field] = value])

\* handleArchiveTeam and handleRestoreTeam.
ArchiveTeam(d, t) == IsOpen(t) /\ Press(d, "team", t, [archived |-> TRUE])
RestoreTeam(d, t) ==
  t \in DOMAIN teams /\ ~IsOpen(t) /\ Press(d, "team", t, [archived |-> FALSE])

\* handleAddMember, handleRemoveMember; the API also takes both at once.
ChangeMembers(d, t, add, remove) ==
  /\ t \in DOMAIN teams
  /\ {add, remove} \subseteq DOMAIN users \cup {None}
  /\ add # remove
  /\ Press(d, "members", t, [add |-> add, remove |-> remove])

NewUser(d, u, role, team) == Press(d, "newUser", u, [role |-> role, team |-> team])
NewTeam(d, t, lead)       == Press(d, "newTeam", t, [lead |-> lead])
ResetPassword(d, u)       == u \in DOMAIN users /\ Press(d, "password", u, [secret |-> d])

-----------------------------------------------------------------------------
(* The handlers. *)

\* Mistake: every field of the copy is written back.
SavesWhole(id, loaded, wanted) ==
  SetCommand(id, [f \in DOMAIN wanted \ {"ver"} |-> wanted[f]])

\* Mistake: a save demands no version.
SavesUnversioned(id, loaded, wanted) == SaveCommand(id, loaded, wanted, {})

Saves(id, loaded, wanted) == SaveCommand(id, loaded, wanted, {"services"})

\* The loaded copy with the fields of the body; archiving clears the lead.
Wanted(d) ==
  LET body == desk[d].body
      copy == [f \in DOMAIN desk[d].loaded |->
                 IF f \in DOMAIN body THEN body[f] ELSE desk[d].loaded[f]] IN
  IF "archived" \in DOMAIN body /\ body.archived THEN [copy EXCEPT !.lead = None] ELSE copy

\* findById of the call's document, or the query for its unique field; then
\* straight to the save if there is nothing else to look up.
Load(d) ==
  LET call == desk[d]
      asks(field) == field \in DOMAIN call.body /\ call.body[field] # None IN
  /\ call.step = "load"
  /\ CASE call.kind = "team" ->
            Hold(d, IF asks("lead") THEN "check" ELSE "save", teams[call.id])
       [] call.kind \in {"user", "password"} ->
            Hold(d, IF asks("team") THEN "check" ELSE "save", users[call.id])
       [] call.kind = "members" ->
            IF IsOpen(call.id) THEN Step(d, "remove") ELSE EndCall(d)
       [] call.kind = "newUser" ->
            IF call.id \in DOMAIN users THEN EndCall(d)
            ELSE Step(d, IF asks("team") THEN "check" ELSE "save")
       [] call.kind = "newTeam" -> Step(d, "save")
  /\ UNCHANGED <<users, teams, token, badge, calls>>

\* Mistake: a lead or a team is taken as it is given.
NameableAnyway(d) == TRUE

\* The lead must be active; ensureAssignableTeam.
Nameable(d) ==
  IF desk[d].kind = "team" THEN IsActive(desk[d].body.lead) ELSE IsOpen(desk[d].body.team)

Check(d) ==
  /\ desk[d].step = "check"
  /\ IF Nameable(d) THEN Step(d, "save") ELSE EndCall(d)
  /\ UNCHANGED <<users, teams, token, badge, calls>>

SaveTeam(d) ==
  LET c == Saves(desk[d].id, desk[d].loaded, Wanted(d)) IN
  /\ At(d, "team", "save")
  /\ teams' = IF Accepts(teams[c.doc], c)
              THEN [teams EXCEPT ![c.doc] = Applied(@, c)] ELSE teams
  /\ EndCall(d)
  /\ UNCHANGED <<users, token, badge, calls>>

\* updateUser, and resetPassword after the hash.
SaveUser(d) ==
  LET c == Saves(desk[d].id, desk[d].loaded, Wanted(d)) IN
  /\ At(d, "user", "save") \/ At(d, "password", "save")
  /\ users' = [users EXCEPT ![c.doc] = Applied(@, c)]
  /\ EndCall(d)
  /\ UNCHANGED <<teams, token, badge, calls>>

\* The unique indexes refuse a second account of an email, a second team of a
\* name.  The lead of a new team is not looked up.
InsertUser(d) ==
  LET id == desk[d].id IN
  /\ At(d, "newUser", "save")
  /\ users' = IF id \in DOMAIN users THEN users
              ELSE Store(users, id, [active |-> TRUE, role |-> desk[d].body.role,
                                     team |-> desk[d].body.team, secret |-> None])
  /\ EndCall(d)
  /\ UNCHANGED <<teams, token, badge, calls>>

InsertTeam(d) ==
  LET id == desk[d].id IN
  /\ At(d, "newTeam", "save")
  /\ teams' = IF id \in DOMAIN teams THEN teams
              ELSE Store(teams, id, [archived |-> FALSE, lead |-> desk[d].body.lead,
                                     services |-> CHOOSE s \in Service : TRUE, ver |-> 0])
  /\ EndCall(d)
  /\ UNCHANGED <<users, token, badge, calls>>

\* updateMembers: the removals, by a filter that names the team; then the
\* active users among the added ones are looked up, and a missing one refuses
\* the call, whose removals stand; then they move.
RemoveMembers(d) ==
  LET u == desk[d].body.remove IN
  /\ At(d, "members", "remove")
  /\ users' = IF u # None /\ users[u].team = desk[d].id
              THEN [users EXCEPT ![u].team = None] ELSE users
  /\ IF desk[d].body.add = None THEN EndCall(d) ELSE Step(d, "find")
  /\ UNCHANGED <<teams, token, badge, calls>>

FindMembers(d) ==
  /\ At(d, "members", "find")
  /\ IF IsActive(desk[d].body.add) THEN Step(d, "add") ELSE EndCall(d)
  /\ UNCHANGED <<users, teams, token, badge, calls>>

AddMembers(d) ==
  /\ At(d, "members", "add")
  /\ users' = [users EXCEPT ![desk[d].body.add].team = desk[d].id]
  /\ EndCall(d)
  /\ UNCHANGED <<teams, token, badge, calls>>

-----------------------------------------------------------------------------
Init ==
  /\ users = FirstUsers
  /\ teams = FirstTeams
  /\ token = [d \in Desk |-> {}]
  /\ badge = [d \in Desk |-> None]
  /\ desk = [d \in Desk |-> Idle]
  /\ calls = 0
  /\ allowed = [d \in Desk |-> {}]

Session(d) ==
  \/ Login(d) \/ Compared(d) \/ refreshToken(d) \/ Refreshed(d) \/ Logout(d)
  \/ \E kind \in Tokens : RunsOut(d, kind)

Page(d) ==
  \/ SubmitForm(d) \/ closeForm(d)
  \/ \E t \in Team : \/ openEditTeam(d, t) \/ ArchiveTeam(d, t) \/ RestoreTeam(d, t)
                     \/ \E add, remove \in User \cup {None} : ChangeMembers(d, t, add, remove)
                     \/ \E lead \in User \cup {None} : NewTeam(d, t, lead)
  \/ \E u \in User : \/ openEditUser(d, u) \/ ResetPassword(d, u)
                     \/ \E role \in Role, t \in Team \cup {None} : NewUser(d, u, role, t)

Handler(d) ==
  \/ Load(d) \/ Check(d)
  \/ SaveTeam(d) \/ SaveUser(d) \/ InsertUser(d) \/ InsertTeam(d)
  \/ RemoveMembers(d) \/ FindMembers(d) \/ AddMembers(d)

Underway(d) == desk[d].step \notin {"idle", "form", "compare", "sign"}

\* The teams and accounts a call names that it may name now.
Sound(d) ==
  LET body == desk[d].body
      named == {desk[d].id} \cup {body[f] : f \in {"lead", "team", "add"} \cap DOMAIN body} IN
  IF Underway(d) THEN {n \in named : IsOpen(n) \/ IsActive(n)} ELSE {}

Watch == allowed' = [d \in Desk |-> Sound(d)' \cup (IF Underway(d)' THEN allowed[d] ELSE {})]

Next == (\E d \in Desk : Session(d) \/ Page(d) \/ Handler(d)) /\ Watch

Spec == Init /\ [][Next]_vars

\* Tokens run out; nobody has to log in or to call.
Fairness == \A d \in Desk, kind \in Tokens : WF_vars(RunsOut(d, kind) /\ Watch)

FairSpec == Spec /\ Fairness

-----------------------------------------------------------------------------
(* Properties. *)

\* Type correctness of the collections, the sessions and the calls.
TypeOK ==
  /\ DOMAIN users \subseteq User /\ \A u \in DOMAIN users : users[u] \in Account
  /\ DOMAIN teams \subseteq Team /\ \A t \in DOMAIN teams : teams[t] \in TeamDoc
  /\ token \in [Desk -> SUBSET Tokens]
  /\ badge \in [Desk -> Role \cup {None}]
  /\ \A d \in Desk : /\ At(d, "team", "save") => desk[d].id \in DOMAIN teams
                     /\ At(d, "user", "save") => desk[d].id \in DOMAIN users
                     /\ desk[d].step = "check" => {"lead", "team"} \cap DOMAIN desk[d].body # {}
  /\ calls \in 0..MaxCalls
  /\ allowed \in [Desk -> SUBSET (User \cup Team)]

\* Whether a step is one of the call under way at desk d.
Acts(d) == Underway(d) /\ desk'[d] # desk[d]

\* Who joins a team joins one that was open during the call, and is active
\* during it if the call adds members; who is made the lead of a team that is
\* there already was active during the call.  So neither survives longer than
\* one call that was already under way when the team was archived or the account
\* deactivated.  The lead of a new team may be anyone: create stores what it is
\* given.  (ensureAssignableTeam, the lead check of update, updateMembers.)
NamesAreSound ==
  [][/\ \A u \in DOMAIN users' :
          users'[u].team # None /\ (u \in DOMAIN users => users'[u].team # users[u].team) =>
            \E d \in Desk : /\ Acts(d)
                            /\ users'[u].team \in allowed[d]
                            /\ desk[d].kind = "members" => u \in allowed[d]
     /\ \A t \in DOMAIN teams :
          teams'[t].lead \notin {None, teams[t].lead} =>
            \E d \in Desk : Acts(d) /\ teams'[t].lead \in allowed[d]]_vars

\* The fields a call speaks of.
NamedBy(d) ==
  DOMAIN desk[d].body \cup {"ver"}
    \cup (IF desk[d].kind = "members" THEN {"team"} ELSE {})
    \cup (IF "archived" \in DOMAIN desk[d].body THEN {"lead"} ELSE {})

\* What one admin decides is undone only by a call that speaks of it: an
\* archived team is not restored by an edit that was under way, nor a
\* deactivated account revived by a password reset, and who was moved to
\* another team meanwhile is not removed from there.  (The saves of update,
\* updateUser and resetPassword; the filter of updateMembers.)
NothingElseUndone ==
  [][\A d \in Desk : Acts(d) =>
       /\ \A u \in DOMAIN users :
            /\ \A f \in DOMAIN users[u] : users'[u][f] # users[u][f] => f \in NamedBy(d)
            /\ desk[d].kind = "members" /\ users'[u].team = None =>
                 users[u].team \in {None, desk[d].id}
       /\ \A t \in DOMAIN teams : \A f \in DOMAIN teams[t] :
            teams'[t][f] # teams[t][f] => f \in NamedBy(d)]_vars

\* An edit replaces the responsibilities it has read, never those another edit
\* saved in between (the version that Mongoose demands for a changed array).
ReplacesWhatItRead ==
  [][\A d \in Desk : Acts(d) =>
       \A t \in DOMAIN teams : teams'[t].services # teams[t].services =>
         desk[d].loaded.services = teams[t].services]_vars

\* An account that is deactivated for good is without a token in the end,
\* however its logins and renewals met the deactivation.
RevokedRunsOut ==
  \A d \in Desk : <>[](~IsActive(Owner[d])) => <>[](token[d] = {})
=============================================================================
