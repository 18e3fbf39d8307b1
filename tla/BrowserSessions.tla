--------------------------- MODULE BrowserSessions ---------------------------
(***************************************************************************)
(* Browser sessions of one user (app.browser_sessions): sign-in through an *)
(* OpenID provider with a login state that is consumed once, refresh, the  *)
(* switch of organization, logout, and administrators who change or revoke *)
(* memberships and then revoke the sessions of the organization.  A        *)
(* session is authorized by the organization and role in its row, without  *)
(* a look at the memberships.  The content of refresh tokens is left out;  *)
(* that sessions expire only means that any load of one may fail.          *)
(*                                                                         *)
(* Every SQL statement is one action; the statements of a request and of   *)
(* an administrator interleave.  A call of the provider reads and writes   *)
(* nothing of this state: its outcome belongs to the statement before it.  *)
(***************************************************************************)
EXTENDS Naturals, FiniteSets

CONSTANTS
  Logins,      \* states of logins
  Browser,     \* requests: callbacks, refreshes and switches, numbered by arrival
  Earlier,     \* callbacks that are over and may have left a session
  Orgs,        \* organizations
  DefaultOrg,  \* DefaultOrgID
  Roles,       \* roles of members
  Analyst,     \* RoleAnalyst, the role of the first memberships
  NotMember,   \* no role, no organization, no login
  AutoJoin,    \* autoJoinDefault
  MayRevoke,   \* the database lets the application revoke a single session
  MaxAdmin,    \* bound on changes of memberships by administrators
  MaxFailures  \* bound on failing statements

ASSUME SessionAssumption ==
  /\ Browser \subseteq Nat
  /\ Earlier \subseteq Browser
  /\ DefaultOrg \in Orgs
  /\ Analyst \in Roles
  /\ NotMember \notin Orgs \cup Roles \cup Logins \cup Browser
  /\ AutoJoin \in BOOLEAN
  /\ MayRevoke \in BOOLEAN
  /\ MaxAdmin \in Nat
  /\ MaxFailures \in Nat

VARIABLES
  member,     \* organization_members: the user's role by organization
  pkce,       \* oidc_pkce_states
  session,    \* browser_sessions, by the callback that created the row
  browser,    \* progress of every request
  pending,    \* organizations whose sessions an administrator is to revoke
  admins,     \* changes of memberships so far
  failures,   \* failed statements so far
  tainted,    \* history: sessions written from, or kept despite, old facts
  loggedOut   \* history: sessions their user has logged out of

sessionVars == <<member, pkce, session, browser, pending, admins, failures, tainted, loggedOut>>

NoSession == [status |-> "none"]
SessionRow ==
  {NoSession} \cup
  [status : {"live", "revoked"}, org : Orgs, role : Roles, login : Logins \cup {NotMember}]

IdleBrowser ==
  [step |-> "idle", op |-> "none", login |-> NotMember, sid |-> NotMember,
   org |-> NotMember, role |-> NotMember, stale |-> FALSE]
EndedBrowser == [IdleBrowser EXCEPT !.step = "ended"]
BrowserRequest ==
  [step : {"idle", "group", "resolve", "join", "joined", "read", "issue", "ended"},
   op : {"none", "callback", "refresh", "switch"},
   login : Logins \cup {NotMember},
   sid : Browser \cup {NotMember},   \* the session it refreshes or switches
   org : Orgs \cup {NotMember},      \* preferred, then resolved organization
   role : Roles \cup {NotMember},
   stale : BOOLEAN]                  \* history: what it resolved has changed since

SessionInit ==
  /\ member \in [Orgs -> {Analyst, NotMember}]
  /\ pkce = [l \in Logins |-> "none"]
  /\ \E org \in [Earlier -> {o \in Orgs : member[o] # NotMember} \cup {NotMember}] :
       session = [s \in Browser |->
         IF s \in Earlier /\ org[s] # NotMember
         THEN [status |-> "live", org |-> org[s], role |-> member[org[s]], login |-> NotMember]
         ELSE NoSession]
  /\ browser = [q \in Browser |-> IF q \in Earlier THEN EndedBrowser ELSE IdleBrowser]
  /\ pending = {}
  /\ admins = 0
  /\ failures = 0
  /\ tainted = {}
  /\ loggedOut = {}

-----------------------------------------------------------------------------
(* Rows and requests.                                                      *)

Live(s) == session[s].status = "live"

\* Requests are named in the order of their arrival.
Arrives(q) ==
  browser[q] = IdleBrowser /\ \A p \in Browser : p < q => browser[p] # IdleBrowser

Goes(q, step) == [browser EXCEPT ![q].step = step]
Ends(q) == [browser EXCEPT ![q] = EndedBrowser]
Resolved(q, o, r) ==
  [browser EXCEPT ![q].step = IF browser[q].op = "switch" THEN "read" ELSE "issue",
                  ![q].org = o, ![q].role = r]

\* Requests but q that resolved organization o and have not written it yet
\* notice no change of the membership.
Outdated(b, o, q) ==
  [p \in Browser |-> [b[p] EXCEPT !.stale =
     @ \/ (p # q /\ b[p].step \in {"read", "issue"} /\ b[p].org = o)]]

-----------------------------------------------------------------------------
(* Sign-in: LoginHandler and CallbackHandler.                              *)

Login(l) ==
  /\ pkce[l] = "none"
  /\ pkce' = [pkce EXCEPT ![l] = "saved"]
  /\ UNCHANGED <<member, session, browser, pending, admins, failures, tainted, loggedOut>>

PkceExpires(l) ==
  /\ pkce[l] = "saved"
  /\ pkce' = [pkce EXCEPT ![l] = "gone"]
  /\ UNCHANGED <<member, session, browser, pending, admins, failures, tainted, loggedOut>>

\* Mutant: the state is read and left in place.
ConsumedKept == "saved"

\* DELETE ... RETURNING: the state is gone.
Consumed == "gone"

\* The callback of a login, with an organization preferred by its header.  It
\* ends here if the code exchange fails or its groups map to several
\* organizations; groups that map to one add a membership, without groups the
\* user needs one.
Callback(q, l) ==
  /\ Arrives(q)
  /\ pkce[l] = "saved"
  /\ pkce' = [pkce EXCEPT ![l] = Consumed]
  /\ \/ browser' = Ends(q)
     \/ \E o \in Orgs \cup {NotMember}, step \in {"group", "resolve"} :
          browser' = [browser EXCEPT ![q].step = step, ![q].op = "callback",
                                     ![q].login = l, ![q].org = o]
  /\ UNCHANGED <<member, session, pending, admins, failures, tainted, loggedOut>>

\* ResolveFromGroupClaims upserts the mapped membership, whose error is ignored,
\* and only then compares the preferred organization.  Other sessions keep the
\* role they have.
JoinFromGroups(q) ==
  /\ browser[q].step = "group"
  /\ \E o \in Orgs, r \in Roles :
       LET next == IF browser[q].org \in {o, NotMember} THEN Resolved(q, o, r) ELSE Ends(q)
           kept == {s \in Browser : Live(s) /\ session[s].org = o /\ session[s].role # r}
       IN  \/ /\ member' = [member EXCEPT ![o] = r]
              /\ tainted' = tainted \cup kept
              /\ browser' = Outdated(next, o, q)
              /\ UNCHANGED failures
           \/ /\ failures < MaxFailures
              /\ failures' = failures + 1
              /\ browser' = [next EXCEPT ![q].stale = (next[q].step = "issue")]
              /\ UNCHANGED <<member, tainted>>
  /\ UNCHANGED <<pkce, session, pending, admins, loggedOut>>

-----------------------------------------------------------------------------
(* ResolvePrincipal.                                                       *)

Memberships == {o \in Orgs : member[o] # NotMember}

\* The organizations a request may enter: the preferred one, if it is one of
\* the user's, or all of them.
Chosen(q) ==
  IF browser[q].org # NotMember THEN Memberships \cap {browser[q].org} ELSE Memberships

\* Several memberships and no preference: the user must select.
ResolvePrincipal(q) ==
  /\ browser[q].step = "resolve"
  /\ browser' =
       IF Memberships = {}
       THEN IF AutoJoin THEN Goes(q, "join") ELSE Ends(q)
       ELSE IF \E o \in Orgs : Chosen(q) = {o}
       THEN LET o == CHOOSE o \in Orgs : Chosen(q) = {o} IN Resolved(q, o, member[o])
       ELSE Ends(q)
  /\ UNCHANGED <<member, pkce, session, pending, admins, failures, tainted, loggedOut>>

\* ensureDefaultMembership: insert unless there is one, with the role of the
\* provider's claims or of the session, then read it.
JoinDefault(q) ==
  /\ browser[q].step = "join"
  /\ \E r \in Roles : member' = [member EXCEPT ![DefaultOrg] = IF @ = NotMember THEN r ELSE @]
  /\ browser' = Goes(q, "joined")
  /\ UNCHANGED <<pkce, session, pending, admins, failures, tainted, loggedOut>>

ReadDefault(q) ==
  /\ browser[q].step = "joined"
  /\ browser' =
       IF member[DefaultOrg] # NotMember /\ browser[q].org \in {DefaultOrg, NotMember}
       THEN Resolved(q, DefaultOrg, member[DefaultOrg])
       ELSE Ends(q)
  /\ UNCHANGED <<member, pkce, session, pending, admins, failures, tainted, loggedOut>>

-----------------------------------------------------------------------------
(* Issue: a callback creates a row, refresh and switch update theirs.      *)

Written(q, login) ==
  [status |-> "live", org |-> browser[q].org, role |-> browser[q].role,
   login |-> login]

CreateSession(q) ==
  /\ browser[q].step = "issue"
  /\ browser[q].op = "callback"
  /\ session' = [session EXCEPT ![q] = Written(q, browser[q].login)]
  /\ tainted' = IF browser[q].stale THEN tainted \cup {q} ELSE tainted
  /\ browser' = Ends(q)
  /\ UNCHANGED <<member, pkce, pending, admins, failures, loggedOut>>

\* Mutant: the row is updated whether or not it was revoked.
WritableAlways(s) == session[s] # NoSession

\* WHERE id = p_id AND revoked_at IS NULL; no row is no error.
Writable(s) == Live(s)

UpdateSession(q) ==
  LET s == browser[q].sid
  IN  /\ browser[q].step = "issue"
      /\ browser[q].op # "callback"
      /\ \/ /\ Writable(s)
            /\ session' = [session EXCEPT ![s] = Written(q, session[s].login)]
            /\ tainted' = IF browser[q].stale THEN tainted \cup {s} ELSE tainted \ {s}
         \/ ~Writable(s) /\ UNCHANGED <<session, tainted>>
      /\ browser' = Ends(q)
      /\ UNCHANGED <<member, pkce, pending, admins, failures, loggedOut>>

\* RefreshHandler loads the session, which may have expired, and asks the
\* provider when less than a quarter of its time is left; one that refuses costs
\* the cookie, not the row.
Refresh(q, s) ==
  /\ Arrives(q)
  /\ Live(s)
  /\ \/ browser' = Ends(q)
     \/ browser' = [browser EXCEPT ![q].step = "resolve", ![q].op = "refresh",
                                   ![q].sid = s, ![q].org = session[s].org]
  /\ UNCHANGED <<member, pkce, session, pending, admins, failures, tainted, loggedOut>>

\* POST /me/organization: the middleware has loaded the session.
SwitchOrganization(q, s, o) ==
  /\ Arrives(q)
  /\ Live(s)
  /\ browser' = [browser EXCEPT ![q].step = "resolve", ![q].op = "switch",
                                ![q].sid = s, ![q].org = o]
  /\ UNCHANGED <<member, pkce, session, pending, admins, failures, tainted, loggedOut>>

\* The handler loads it once more, after it has resolved the organization.
ReadSession(q) ==
  /\ browser[q].step = "read"
  /\ \/ Live(browser[q].sid) /\ browser' = Goes(q, "issue")
     \/ browser' = Ends(q)
  /\ UNCHANGED <<member, pkce, session, pending, admins, failures, tainted, loggedOut>>

\* RevokeCurrent: the error of the statement, which may fail and without the
\* right always does, is ignored, the cookie cleared.
Logout(s) ==
  /\ Live(s)
  /\ s \notin loggedOut
  /\ loggedOut' = loggedOut \cup {s}
  /\ \/ /\ MayRevoke
        /\ session' = [session EXCEPT ![s].status = "revoked"]
        /\ UNCHANGED failures
     \/ /\ MayRevoke => failures < MaxFailures
        /\ failures' = IF MayRevoke THEN failures + 1 ELSE failures
        /\ UNCHANGED session
  /\ UNCHANGED <<member, pkce, browser, pending, admins, tainted>>

-----------------------------------------------------------------------------
(* Administrators.                                                         *)

\* Mutant: a change of role revokes no sessions.
ToRevokeGone(o, r) == IF r = NotMember THEN {o} ELSE {}

\* The organizations whose sessions the handler revokes next.
ToRevoke(o, r) == {o}

\* UpsertMembership (a role) or RevokeMembership (NotMember) commits.
ChangeMembership(o, r) ==
  /\ admins < MaxAdmin
  /\ admins' = admins + 1
  /\ member' = [member EXCEPT ![o] = r]
  /\ pending' = pending \cup ToRevoke(o, r)
  /\ browser' = Outdated(browser, o, NotMember)
  /\ UNCHANGED <<pkce, session, failures, tainted, loggedOut>>

\* RevokeUserSessions, whose error is ignored.
RevokeUserSessions(o) ==
  LET theirs == {s \in Browser : Live(s) /\ session[s].org = o}
  IN  /\ o \in pending
      /\ pending' = pending \ {o}
      /\ \/ /\ session' = [s \in Browser |->
                 IF s \in theirs THEN [session[s] EXCEPT !.status = "revoked"] ELSE session[s]]
            /\ UNCHANGED <<failures, tainted>>
         \/ /\ failures < MaxFailures
            /\ failures' = failures + 1
            /\ tainted' = tainted \cup theirs
            /\ UNCHANGED session
      /\ UNCHANGED <<member, pkce, browser, admins, loggedOut>>

-----------------------------------------------------------------------------

BrowserStep(q) ==
  \/ JoinFromGroups(q) \/ ResolvePrincipal(q) \/ JoinDefault(q) \/ ReadDefault(q)
  \/ ReadSession(q) \/ CreateSession(q) \/ UpdateSession(q)

SessionNext ==
  \/ \E l \in Logins : Login(l) \/ PkceExpires(l)
  \/ \E q \in Browser :
       \/ \E l \in Logins : Callback(q, l)
       \/ \E s \in Browser :
            Refresh(q, s) \/ \E o \in Orgs : SwitchOrganization(q, s, o)
       \/ BrowserStep(q)
       \/ Logout(q)
  \/ \E o \in Orgs :
       \/ \E r \in Roles \cup {NotMember} : ChangeMembership(o, r)
       \/ RevokeUserSessions(o)

SessionSpec == SessionInit /\ [][SessionNext]_sessionVars

-----------------------------------------------------------------------------
(* Properties.                                                             *)

\* Types of the tables and of the requests.
SessionTypeOK ==
  /\ member \in [Orgs -> Roles \cup {NotMember}]
  /\ pkce \in [Logins -> {"none", "saved", "gone"}]
  /\ session \in [Browser -> SessionRow]
  /\ browser \in [Browser -> BrowserRequest]
  /\ pending \in SUBSET Orgs
  /\ admins \in 0..MaxAdmin
  /\ failures \in 0..MaxFailures
  /\ tainted \in SUBSET Browser
  /\ loggedOut \in SUBSET Browser

\* A login gives at most one session, also when its callback reaches several
\* replicas at a time.
OneSessionPerLogin ==
  \A s, t \in Browser :
    s # t /\ {s, t} \cap Earlier = {} /\ NoSession \notin {session[s], session[t]}
      => session[s].login # session[t].login

\* No refresh or switch under way brings a revoked session back or moves it to
\* another organization.
RevokedIsFinal ==
  [][\A s \in Browser : session[s].status = "revoked" => session'[s] = session[s]]_sessionVars

\* A live session carries a current membership of its user with its current
\* role, unless it was written by a request that had resolved the membership
\* before it changed, a statement failed, a sign-in changed the role by its
\* groups, or the administrator has still to revoke it.
SessionIsMembership ==
  \A s \in Browser :
    Live(s) /\ s \notin tainted /\ session[s].org \notin pending
      => session[s].role \in Roles /\ member[session[s].org] = session[s].role

\* "LogoutHandler clears and revokes the browser session."
LogoutRevokes == \A s \in loggedOut : session[s].status = "revoked"
=============================================================================
