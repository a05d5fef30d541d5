------------------------------- MODULE Portal -------------------------------
(***************************************************************************)
(* One person at the portal.  They walk from page to page by the links they  *)
(* are shown, then open one of the changes of a page and make it, while the  *)
(* network loses answers, the page refetches in the background and others    *)
(* change the same row.  The row stands for what the change writes; one      *)
(* query that reads it is followed, by the version of the row it shows.      *)
(***************************************************************************)
EXTENDS Screens, Naturals, SequencesExt

CONSTANTS
    First,          \* the pages the person starts from
    MaxVersion,     \* bound on the versions of the row
    MaxIntents,     \* bound on the things the person sets out to do
    MaxPresses      \* bound on the requests they send

-----------------------------------------------------------------------------
(* The pages of the app, by the layout each is rendered in. *)
AuthPages ==
    "/login" :> LoginForm
    @@ "/login/verify" :> VerifyMfaForm
    @@ "/login/setup-mfa" :> SetupMfaFlow
    @@ "/forgot-password" :> ForgotPasswordForm
    @@ "/reset-password" :> ResetPasswordForm
    @@ "/accept-invite" :> AcceptInviteForm

DeskPages ==
    "/" :> HomeScreen
    @@ "/students" :> StudentsScreen
    @@ "/students/:id" :> StudentDetailScreen
    @@ "/students/import" :> StudentImportScreen
    @@ "/admissions" :> ApplicationsScreen
    @@ "/admissions/:id" :> ApplicationDetailScreen
    @@ "/cohorts" :> CohortsScreen
    @@ "/cohorts/:id" :> CohortDetailScreen
    @@ "/setup" :> SetupWizard
    @@ "/users" :> UsersScreen
    @@ "/posts" :> PostsScreen
    @@ "/reports" :> ReportsScreen
    @@ "/audit" :> AuditScreen

BillingPages ==
    "/billing" :> InvoicesScreen
    @@ "/billing/invoices/:id" :> InvoiceDetailScreen
    @@ "/billing/receipts/:id" :> ReceiptScreen
    @@ "/billing/approvals" :> ApprovalsScreen
    @@ "/billing/fees" :> FeesScreen

AcademicsPages ==
    "/academics" :> ProgramsScreen
    @@ "/academics/programs/:id" :> ProgramDetailScreen
    @@ "/academics/years" :> YearsScreen
    @@ "/academics/intakes" :> IntakesScreen
    @@ "/academics/holidays" :> HolidaysScreen
    @@ "/academics/shifts" :> ShiftsScreen
    @@ "/academics/rooms" :> RoomsScreen

SettingsPages ==
    "/settings" :> GeneralScreen
    @@ "/settings/branches" :> BranchesScreen
    @@ "/settings/departments" :> DepartmentsScreen
    @@ "/settings/modules" :> ModulesScreen
    @@ "/settings/lists" :> ListsScreen
    @@ "/settings/custom-fields" :> CustomFieldsScreen
    @@ "/settings/terminology" :> TerminologyScreen
    @@ "/settings/numbering" :> NumberingScreen

Within(layout, pages) == [p \in DOMAIN pages |-> layout \cup pages[p]]

Pages ==
    AuthPages
    @@ Within(StaffShell, DeskPages)
    @@ Within(StaffShell \cup BillingNav, BillingPages)
    @@ Within(StaffShell \cup AcademicsNav, AcademicsPages)
    @@ Within(StaffShell \cup SettingsNav, SettingsPages)

-----------------------------------------------------------------------------
VARIABLES
    page,       \* the page that is open
    holds,      \* the permissions of the person
    on,         \* the modules that are on
    change,     \* the change the person has opened, or Nothing
    query,      \* the mounted query that is followed, or Nothing
    row,        \* version of the row at the server
    view,       \* version the query shows
    fetch,      \* what the refetch in flight has read: a set of one version at most
    form,       \* the form of the change
    presses,    \* requests sent so far
    sent,       \* requests the server has not handled
    waiting,    \* the request whose answer the person waits for, or 0
    answer,     \* that answer, on its way back
    done,       \* per intent, how often its work was done and stands
    stored,     \* what the server answered under each idempotency key
    shown,      \* ghost: the newest version the person was told they made
    overtaken,  \* ghost: an older refetch has replaced what a change had put
    blind       \* ghost: a change replaced values it was not made from

walk == <<page, holds, on>>
client == <<query, view, fetch, form>>
server == <<row, done, stored>>
network == <<presses, sent, waiting, answer>>
ghosts == <<shown, overtaken, blind>>
vars == <<walk, change, client, server, network, ghosts>>

Nothing == [is |-> "nothing"]

(* values: the version its fields were filled from; typed: what the person has       *)
(* entered, by number; key: the key made last, keyedFor: what it was made for.        *)
Closed == [open |-> FALSE, values |-> 0, intent |-> 0, typed |-> 1, key |-> 0, keyedFor |-> 0]

Init ==
    /\ page \in First
    /\ \E roles \in SUBSET DOMAIN SystemRoles : holds = UNION {SystemRoles[r] : r \in roles}
    /\ on \in SUBSET UNION {p.on : p \in UNION {Pages[q] : q \in DOMAIN Pages}}
    /\ change = Nothing /\ query = Nothing
    /\ row = 1 /\ view = 1
    /\ fetch = {}
    /\ form = Closed
    /\ presses = 0 /\ sent = {} /\ waiting = 0 /\ answer = Nothing
    /\ done = [i \in 1..MaxIntents |-> 0]
    /\ stored = {}
    /\ shown = 0 /\ overtaken = FALSE /\ blind = FALSE

-----------------------------------------------------------------------------
(* A page renders what its components' checks let through. *)
Rendered == {p \in Pages[page] : p.can \subseteq holds /\ p.on \subseteq on}

Follow(link) ==
    /\ change = Nothing
    /\ link.is = "link" /\ link.page \in DOMAIN Pages
    /\ page' = link.page
    /\ UNCHANGED <<holds, on, change, client, server, network, ghosts>>

(* The mounted queries that read what a change writes. *)
Watching(c) ==
    {q \in Rendered : q.is = "query" /\ q.key # <<>> /\ q.route.reads \cap c.route.writes # {}}

(* A form is filled from what the page shows.  Who the person is matters no more. *)
OpenForm(c) ==
    /\ change = Nothing
    /\ c.is = "change"
    /\ change' = c
    /\ query' \in IF Watching(c) = {} THEN {Nothing} ELSE Watching(c)
    /\ form' = [Closed EXCEPT !.open = TRUE, !.values = view, !.intent = 1]
    /\ holds' = {} /\ on' = {}
    /\ UNCHANGED <<page, view, fetch, server, network, ghosts>>

Fill(f) ==
    /\ change # Nothing /\ waiting = 0
    /\ form.intent < MaxIntents
    /\ form' = [f EXCEPT !.open = TRUE, !.values = view, !.intent = form.intent + 1]
    /\ UNCHANGED <<walk, change, query, view, fetch, server, network, ghosts>>

(* The person cancels, and opens the form for something else. *)
Reopen == form.open /\ Fill(Closed)

(* They do one more thing once the last is finished, perhaps with the same values: a   *)
(* form that closed starts afresh, one that stays is as the last success left it.      *)
DoAnother ==
    /\ change # Nothing /\ ~form.open /\ change.after # "leaves"
    /\ Fill(IF change.after \in {"resets", "keeps"} THEN form ELSE Closed)

(* They enter other values. *)
Edit ==
    /\ change # Nothing /\ waiting = 0 /\ form.open
    /\ form.intent < MaxIntents
    /\ form' = [form EXCEPT !.intent = @ + 1, !.typed = @ + 1]
    /\ UNCHANGED <<walk, change, query, view, fetch, server, network, ghosts>>

-----------------------------------------------------------------------------
(* Mutant: every press of the button makes a key. *)
KeyPerRequest(f) == presses + 1

(* keyFor: the key made last, while the values are those it was made for. *)
KeyFor(f) == IF f.keyedFor = f.typed THEN f.key ELSE presses + 1

(* Mutant: the newest version the page has, whatever the form shows. *)
IfMatchNow(f) == view

(* ifMatch: the version of the row the form was opened with, or that the page shows. *)
IfMatch(f) == IF change.sends = "snapshot" THEN f.values ELSE view

(* The button is disabled while the answer is awaited. *)
Press ==
    /\ change # Nothing /\ waiting = 0 /\ form.open
    /\ presses < MaxPresses
    /\ presses' = presses + 1 /\ waiting' = presses + 1
    /\ sent' = sent \cup {[id |-> presses + 1, intent |-> form.intent, values |-> form.values,
                           version |-> IfMatch(form), key |-> KeyFor(form)]}
    /\ form' = [form EXCEPT !.key = KeyFor(form), !.keyedFor = form.typed]
    /\ UNCHANGED <<walk, change, query, view, fetch, server, answer, ghosts>>

(* The connection fails; the request may still get through. *)
GiveUp ==
    /\ waiting # 0
    /\ waiting' = 0 /\ answer' = Nothing
    /\ UNCHANGED <<walk, change, client, server, presses, sent, ghosts>>

-----------------------------------------------------------------------------
(* The server. *)
Keyed == change.sends = "key" \/ change.route.key = "required"
Replayed(r) == {s \in stored : Keyed /\ s.key = r.key}
Refused(r) ==
    \/ change.route.version /\ r.version # row
    \/ change.route.again = "refused" /\ \E i \in DOMAIN done : done[i] > 0

Reply(r, message) ==
    /\ sent' = sent \ {r}
    /\ answer' = IF waiting = r.id THEN message ELSE answer
    /\ UNCHANGED <<walk, change, client, presses, waiting, shown, overtaken>>

Replay(r) ==
    \E s \in Replayed(r) :
        /\ Reply(r, [is |-> "success", intent |-> r.intent, version |-> s.version])
        /\ UNCHANGED <<server, blind>>

Refuse(r) ==
    /\ Replayed(r) = {} /\ Refused(r)
    /\ Reply(r, [is |-> "failure"])
    /\ UNCHANGED <<server, blind>>

Work(r) ==
    /\ Replayed(r) = {} /\ ~Refused(r)
    /\ row < MaxVersion
    /\ row' = row + 1
    /\ done' = [done EXCEPT ![r.intent] =
                   IF change.route.again \in {"same", "replaced"} THEN 1 ELSE @ + 1]
    /\ stored' = IF Keyed THEN stored \cup {[key |-> r.key, version |-> row + 1]} ELSE stored
    /\ blind' = (blind \/ r.values # row)
    /\ Reply(r, [is |-> "success", intent |-> r.intent, version |-> row + 1])

OthersChange ==
    /\ change # Nothing
    /\ row < MaxVersion
    /\ row' = row + 1
    /\ UNCHANGED <<walk, change, client, done, stored, network, ghosts>>

-----------------------------------------------------------------------------
(* Back at the page. *)

(* key={row.version}: a form of this kind starts over when the row it shows changes. *)
Remount(version) ==
    IF change.sends = "remounted" /\ version # view THEN [form EXCEPT !.open = FALSE] ELSE form

Invalidates(c, q) == \E k \in c.invalidated : IsPrefix(k, q.key)

Invalidated == Invalidates(change, query)
Put == query.key \in change.put

(* Mutant: a refetch already under way is taken for the one that was asked for. *)
RefetchedUnlessUnderWay ==
    IF query # Nothing /\ Invalidated /\ fetch = {} THEN {row} ELSE fetch

(* invalidateQueries cancels a refetch that is under way and starts another. *)
Refetched == IF query # Nothing /\ Invalidated THEN {row} ELSE fetch

(* onSuccess: the answer is put into the cache, queries are refetched, an older refetch *)
(* of these is dropped, and the form is done; its key is reset with it, but for a form  *)
(* that keeps it.                                                                       *)
Succeed ==
    /\ answer.is = "success"
    /\ view' = IF query # Nothing /\ Put THEN answer.version ELSE view
    /\ fetch' = Refetched
    /\ form' = IF change.after = "keeps" THEN [form EXCEPT !.open = FALSE]
               ELSE [form EXCEPT !.open = FALSE, !.key = 0, !.keyedFor = 0]
    /\ query' = IF change.after = "leaves" THEN Nothing ELSE query
    /\ waiting' = 0 /\ answer' = Nothing
    /\ shown' = answer.version
    /\ UNCHANGED <<walk, change, server, presses, sent, overtaken, blind>>

Fail ==
    /\ answer.is = "failure"
    /\ waiting' = 0 /\ answer' = Nothing
    /\ UNCHANGED <<walk, change, client, server, presses, sent, ghosts>>

(* A refetch: the window gets the focus, or the data are older than staleTime. *)
Refetch ==
    /\ query # Nothing /\ fetch = {}
    /\ fetch' = {row}
    /\ UNCHANGED <<walk, change, query, view, form, server, network, ghosts>>

Arrive(version) ==
    /\ version \in fetch
    /\ view' = version /\ fetch' = {}
    /\ form' = Remount(version)
    /\ overtaken' = (overtaken \/ (version < shown /\ shown <= view))
    /\ UNCHANGED <<walk, change, query, server, network, shown, blind>>

Next ==
    \/ \E p \in Rendered : Follow(p) \/ OpenForm(p)
    \/ Reopen \/ DoAnother \/ Edit \/ Press \/ GiveUp
    \/ \E r \in sent : Replay(r) \/ Refuse(r) \/ Work(r)
    \/ OthersChange
    \/ Succeed \/ Fail \/ Refetch
    \/ \E version \in fetch : Arrive(version)

Spec == Init /\ [][Next]_vars

-----------------------------------------------------------------------------
(* What the tables have to say for the promises about changes to be kept.  A route with *)
(* If-Match is sent the version that goes with the form's values; a form that starts     *)
(* over is not one that only has its key reset; a form that keeps its key sends it;      *)
(* nothing is sent that would be done twice if it came twice, but by somebody signing    *)
(* in; and every query that reads what a change writes is refetched, put, or left behind *)
(* with its page.                                                                        *)
TablesFit ==
    \A p \in DOMAIN Pages : \A c \in {c \in Pages[p] : c.is = "change"} :
        /\ c.route.version \in BOOLEAN
        /\ c.route.version => c.sends \in {"snapshot", "remounted"}
        /\ c.sends = "remounted" => c.after # "resets"
        /\ c.after = "keeps" => c.sends = "key"
        /\ \/ p \in DOMAIN AuthPages
           \/ c.sends = "key" \/ c.route.version
           \/ c.route.again \in {"same", "replaced", "refused"}
        /\ \A q \in {q \in Pages[p] : q.is = "query"} :
               q.key # <<>> /\ q.route.reads \cap c.route.writes # {} =>
                   Invalidates(c, q) \/ q.key \in c.put \/ c.after = "leaves"

Permitted(route) ==
    /\ route.needs \in {"public", "self"} \cup holds
    /\ route.module \in {""} \cup on

(* "Screens hide what the API would refuse anyway" (use-session.ts): whoever comes to  *)
(* a page by the links they are shown, with any of the system's roles and any modules  *)
(* on, every query, button and link of that page is one the API lets them use and      *)
(* leads to a page, but for the boxes of the start page.                               *)
NoDeadButton ==
    change = Nothing => \A p \in Rendered :
        IF p.is = "link" THEN page = "/" \/ p.page \in DOMAIN Pages ELSE Permitted(p.route)

(* Whatever the network loses, what a person sets out to do is done once at most, and  *)
(* is done when they are told so: a retry with the same values carries the same key,   *)
(* and the next payment of the same amount carries another (lib/idempotency.ts,        *)
(* "retrying the same values ... reuses the key").  A form that keeps its key is the    *)
(* exception: sent again with the values of something done before, it may be given the *)
(* answer to that, and nothing is done (the import screen never calls reset).           *)
OneEffectPerIntent ==
    page \notin DOMAIN AuthPages =>
        /\ \A i \in DOMAIN done : done[i] <= 1
        /\ answer.is = "success" =>
               \/ done[answer.intent] = 1
               \/ change.after = "keeps" /\ \E i \in DOMAIN done : i < answer.intent /\ done[i] = 1

(* Once the page is quiet it shows at least what the person was told they changed,     *)
(* except where a change is only put into the cache and a refetch that had read the    *)
(* row before arrives after it.                                                        *)
OwnChangesShow ==
    query # Nothing =>
        /\ fetch = {} /\ view < shown => overtaken
        /\ overtaken => Put /\ ~Invalidated

(* A change that carries a version never replaces values its form did not show, though *)
(* the page refetches behind the form: the form starts over or keeps its own version   *)
(* (README: "so two admins can't silently overwrite each other").                      *)
NoBlindOverwrite == change # Nothing /\ change.route.version => ~blind

=============================================================================
