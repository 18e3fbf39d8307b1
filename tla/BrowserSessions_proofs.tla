------------------------ MODULE BrowserSessions_proofs ------------------------
(***************************************************************************)
(* Proofs about browser sessions, for every set of logins, requests,       *)
(* organizations and roles and every bound on changes and failures:        *)
(* typing, that a login gives one session, that a revoked session stays    *)
(* so, and that live sessions follow the memberships.                      *)
(***************************************************************************)
EXTENDS BrowserSessions, TLAPS

USE SessionAssumption

-----------------------------------------------------------------------------
(* How requests move.                                                      *)

\* Requests as they come about: one under way has its operation, its session or
\* its login; one that is to be written has its organization and its role, and
\* before that nothing it knows can be stale.
SoundRequest ==
  {b \in BrowserRequest :
     /\ b.step \in {"idle", "ended"} \/ b.op # "none"
     /\ b.op \in {"refresh", "switch"} => b.sid \in Browser
     /\ b.op = "callback" => b.login \in Logins
     /\ b.step \in {"read", "issue"} => b.org \in Orgs /\ b.role \in Roles
     /\ b.step = "group" => b.op = "callback"
     /\ b.step \in {"group", "resolve", "join", "joined"} => ~b.stale}

\* The type invariant that a step preserves.
SessionInUse == SessionTypeOK /\ browser \in [Browser -> SoundRequest]

\* The moves of a request that is under way.
LEMMA RequestMoves ==
  ASSUME browser \in [Browser -> SoundRequest], NEW q \in Browser
  PROVE  /\ Ends(q) \in [Browser -> SoundRequest]
         /\ browser[q].step = "resolve" => Goes(q, "join") \in [Browser -> SoundRequest]
         /\ browser[q].step = "join" => Goes(q, "joined") \in [Browser -> SoundRequest]
         /\ browser[q].step = "read" => Goes(q, "issue") \in [Browser -> SoundRequest]
         /\ \A o \in Orgs, r \in Roles :
              browser[q].op # "none" => Resolved(q, o, r) \in [Browser -> SoundRequest]
<1>1. Ends(q) \in [Browser -> SoundRequest]
  BY DEF Ends, EndedBrowser, IdleBrowser, SoundRequest, BrowserRequest
<1>2. browser[q].step = "resolve" => Goes(q, "join") \in [Browser -> SoundRequest]
  BY DEF Goes, SoundRequest, BrowserRequest
<1>3. browser[q].step = "join" => Goes(q, "joined") \in [Browser -> SoundRequest]
  BY DEF Goes, SoundRequest, BrowserRequest
<1>4. browser[q].step = "read" => Goes(q, "issue") \in [Browser -> SoundRequest]
  BY DEF Goes, SoundRequest, BrowserRequest
<1>5. ASSUME NEW o \in Orgs, NEW r \in Roles, browser[q].op # "none"
      PROVE  Resolved(q, o, r) \in [Browser -> SoundRequest]
  <2>1. ASSUME NEW x \in SoundRequest, x.op # "none", NEW step \in {"read", "issue"}
        PROVE  [x EXCEPT !.step = step, !.org = o, !.role = r] \in SoundRequest
    BY <2>1 DEF SoundRequest, BrowserRequest
  <2>2. Resolved(q, o, r) =
          [browser EXCEPT ![q] =
             [browser[q] EXCEPT !.step = IF browser[q].op = "switch" THEN "read" ELSE "issue",
                                !.org = o, !.role = r]]
    BY DEF Resolved, SoundRequest, BrowserRequest
  <2>3. (IF browser[q].op = "switch" THEN "read" ELSE "issue") \in {"read", "issue"}
    OBVIOUS
  <2>4. browser[q] \in SoundRequest
    OBVIOUS
  <2>5. [browser[q] EXCEPT !.step = IF browser[q].op = "switch" THEN "read" ELSE "issue",
                           !.org = o, !.role = r] \in SoundRequest
    BY <1>5, <2>1, <2>3, <2>4, Zenon
  <2>. QED BY <2>2, <2>5
<1>. QED BY <1>1, <1>2, <1>3, <1>4, <1>5

\* Marking a request changes nothing else of it.
LEMMA RequestMarked ==
  ASSUME NEW x \in SoundRequest, NEW e \in BOOLEAN
  PROVE  LET y == [x EXCEPT !.stale = e]
         IN  /\ y.step = x.step /\ y.op = x.op /\ y.login = x.login /\ y.sid = x.sid
             /\ y.org = x.org /\ y.role = x.role /\ y.stale = e
             /\ (x.step \in {"group", "resolve", "join", "joined"} => ~e) => y \in SoundRequest
<1> DEFINE y == [x EXCEPT !.stale = e]
<1>1. /\ y \in BrowserRequest
      /\ y.step = x.step /\ y.op = x.op /\ y.login = x.login /\ y.sid = x.sid
      /\ y.org = x.org /\ y.role = x.role /\ y.stale = e
  BY DEF BrowserRequest, SoundRequest
<1>. HIDE DEF y
<1>2. (x.step \in {"group", "resolve", "join", "joined"} => ~e) => y \in SoundRequest
  BY <1>1 DEF SoundRequest
<1>. QED BY <1>1, <1>2 DEF y

\* A change of a membership marks requests and moves none.
LEMMA RequestsOutdated ==
  ASSUME NEW b \in [Browser -> SoundRequest], NEW o, NEW q
  PROVE  /\ Outdated(b, o, q) \in [Browser -> SoundRequest]
         /\ \A p \in Browser :
              /\ Outdated(b, o, q)[p].step = b[p].step
              /\ Outdated(b, o, q)[p].op = b[p].op
              /\ Outdated(b, o, q)[p].login = b[p].login
              /\ Outdated(b, o, q)[p].sid = b[p].sid
              /\ Outdated(b, o, q)[p].org = b[p].org
              /\ Outdated(b, o, q)[p].role = b[p].role
              /\ Outdated(b, o, q)[p].stale =
                   (b[p].stale \/ (p # q /\ b[p].step \in {"read", "issue"} /\ b[p].org = o))
<1> DEFINE E(x) == b[x].stale \/ (x # q /\ b[x].step \in {"read", "issue"} /\ b[x].org = o)
<1>1. Outdated(b, o, q) = [x \in Browser |-> [b[x] EXCEPT !.stale = E(x)]]
  BY DEF Outdated, BrowserRequest, SoundRequest
<1>2. ASSUME NEW x \in Browser
      PROVE  /\ E(x) \in BOOLEAN
             /\ b[x].step \in {"group", "resolve", "join", "joined"} => ~E(x)
  BY DEF SoundRequest
<1>3. ASSUME NEW x \in Browser
      PROVE  E(x) = (b[x].stale \/ (x # q /\ b[x].step \in {"read", "issue"} /\ b[x].org = o))
  OBVIOUS
<1>. HIDE DEF E
<1>4. ASSUME NEW x \in Browser PROVE [b[x] EXCEPT !.stale = E(x)] \in SoundRequest
  BY <1>2, RequestMarked
<1>5. Outdated(b, o, q) \in [Browser -> SoundRequest]
  BY <1>1, <1>4
<1>6. ASSUME NEW p \in Browser PROVE Outdated(b, o, q)[p] = [b[p] EXCEPT !.stale = E(p)]
  BY <1>1
<1>7. ASSUME NEW p \in Browser
      PROVE  /\ Outdated(b, o, q)[p].step = b[p].step
             /\ Outdated(b, o, q)[p].op = b[p].op
             /\ Outdated(b, o, q)[p].login = b[p].login
             /\ Outdated(b, o, q)[p].sid = b[p].sid
             /\ Outdated(b, o, q)[p].org = b[p].org
             /\ Outdated(b, o, q)[p].role = b[p].role
             /\ Outdated(b, o, q)[p].stale = E(p)
  <2>1. b[p] \in SoundRequest /\ E(p) \in BOOLEAN
    BY <1>2
  <2> DEFINE y == [b[p] EXCEPT !.stale = E(p)]
  <2>2. /\ y.step = b[p].step /\ y.op = b[p].op /\ y.login = b[p].login /\ y.sid = b[p].sid
        /\ y.org = b[p].org /\ y.role = b[p].role /\ y.stale = E(p)
    BY <2>1, RequestMarked, ZenonT(60)
  <2>3. Outdated(b, o, q)[p] = y
    BY <1>6
  <2>. HIDE DEF y
  <2>. QED BY <2>2, <2>3, Zenon
<1>. QED BY <1>3, <1>5, <1>7, Zenon

\* What the marked requests know, and did not know to be outdated.
LEMMA RequestsStillFresh ==
  ASSUME NEW b \in [Browser -> SoundRequest], NEW o, NEW q, NEW c, c = Outdated(b, o, q),
         NEW p \in Browser, c[p].step \in {"read", "issue"}, ~c[p].stale
  PROVE  /\ c[p].step = b[p].step /\ c[p].org = b[p].org /\ c[p].role = b[p].role
         /\ ~b[p].stale /\ (p = q \/ b[p].org # o)
<1>1. /\ c[p].step = b[p].step /\ c[p].org = b[p].org /\ c[p].role = b[p].role
      /\ c[p].stale = (b[p].stale \/ (p # q /\ b[p].step \in {"read", "issue"} /\ b[p].org = o))
  BY RequestsOutdated
<1>. QED BY <1>1

\* A live row.
LEMMA LiveRow ==
  ASSUME session \in [Browser -> SessionRow], NEW s \in Browser, Live(s)
  PROVE  /\ session[s] \in [status : {"live", "revoked"}, org : Orgs, role : Roles,
                            login : Logins \cup {NotMember}]
         /\ session[s] # NoSession
         /\ session[s].org \in Orgs /\ session[s].role \in Roles
         /\ session[s].login \in Logins \cup {NotMember}
<1>1. session[s] \in SessionRow /\ session[s] # NoSession
  BY DEF Live, NoSession
<1>. QED BY <1>1 DEF SessionRow

\* Revoking a row leaves a row.
LEMMA RevokedRow ==
  ASSUME session \in [Browser -> SessionRow], NEW s \in Browser, Live(s)
  PROVE  /\ [session[s] EXCEPT !.status = "revoked"] \in SessionRow
         /\ [session[s] EXCEPT !.status = "revoked"].status = "revoked"
         /\ [session[s] EXCEPT !.status = "revoked"].login = session[s].login
         /\ [session[s] EXCEPT !.status = "revoked"] # NoSession
BY LiveRow DEF SessionRow, NoSession

\* What a request writes is a row.
LEMMA RequestWrites ==
  ASSUME browser \in [Browser -> SoundRequest], NEW q \in Browser, browser[q].step = "issue",
         NEW l \in Logins \cup {NotMember}
  PROVE  Written(q, l) \in SessionRow /\ Written(q, l) # NoSession
BY DEF Written, SoundRequest, SessionRow, NoSession

-----------------------------------------------------------------------------
(* Typing.                                                                 *)

\* The tables and the requests keep their types.
LEMMA SessionInUseHolds == SessionSpec => []SessionInUse
<1>1. SessionInit => SessionInUse
  <2>. SUFFICES ASSUME SessionInit PROVE SessionInUse
    OBVIOUS
  <2>1. member \in [Orgs -> Roles \cup {NotMember}]
    BY DEF SessionInit
  <2>2. session \in [Browser -> SessionRow]
    <3>1. PICK org \in [Earlier -> {o \in Orgs : member[o] # NotMember} \cup {NotMember}] :
            session = [s \in Browser |->
              IF s \in Earlier /\ org[s] # NotMember
              THEN [status |-> "live", org |-> org[s], role |-> member[org[s]], login |-> NotMember]
              ELSE NoSession]
      BY DEF SessionInit
    <3>2. ASSUME NEW s \in Earlier, org[s] # NotMember
          PROVE  org[s] \in Orgs /\ member[org[s]] \in Roles
      BY <3>2, <2>1
    <3>. QED BY <3>1, <3>2 DEF SessionRow
  <2>3. browser \in [Browser -> SoundRequest]
    BY DEF SessionInit, IdleBrowser, EndedBrowser, BrowserRequest, SoundRequest
  <2>4. browser \in [Browser -> BrowserRequest]
    BY <2>3 DEF SoundRequest
  <2>. QED BY <2>1, <2>2, <2>3, <2>4 DEF SessionInit, SessionInUse, SessionTypeOK
<1>2. SessionInUse /\ [SessionNext]_sessionVars => SessionInUse'
  <2>. SUFFICES ASSUME SessionInUse, [SessionNext]_sessionVars PROVE SessionInUse'
    OBVIOUS
  <2>0. [Browser -> SoundRequest] \subseteq [Browser -> BrowserRequest]
    BY DEF SoundRequest
  <2>. USE <2>0 DEF SessionInUse, SessionTypeOK
  <2>1. ASSUME NEW l \in Logins, Login(l) \/ PkceExpires(l) PROVE SessionInUse'
    BY <2>1 DEF Login, PkceExpires
  <2>2. ASSUME NEW q \in Browser, NEW l \in Logins, Callback(q, l) PROVE SessionInUse'
    <3>1. browser' \in [Browser -> SoundRequest]
      BY <2>2, RequestMoves DEF Callback, Arrives, IdleBrowser, BrowserRequest, SoundRequest
    <3>2. pkce' \in [Logins -> {"none", "saved", "gone"}]
      BY <2>2 DEF Callback, Consumed
    <3>. QED BY <2>2, <3>1, <3>2 DEF Callback
  <2>3. ASSUME NEW q \in Browser, NEW s \in Browser, Refresh(q, s) PROVE SessionInUse'
    <3>1. session[s].org \in Orgs
      BY <2>3, LiveRow DEF Refresh
    <3>2. browser' \in [Browser -> SoundRequest]
      BY <2>3, <3>1, RequestMoves DEF Refresh, Arrives, IdleBrowser, BrowserRequest, SoundRequest
    <3>. QED BY <2>3, <3>2 DEF Refresh
  <2>4. ASSUME NEW q \in Browser, NEW s \in Browser, NEW o \in Orgs, SwitchOrganization(q, s, o)
        PROVE  SessionInUse'
    BY <2>4 DEF SwitchOrganization, Arrives, IdleBrowser, BrowserRequest, SoundRequest
  <2>5. ASSUME NEW q \in Browser, JoinFromGroups(q) PROVE SessionInUse'
    <3>1. PICK o \in Orgs, r \in Roles :
            LET next == IF browser[q].org \in {o, NotMember} THEN Resolved(q, o, r) ELSE Ends(q)
                kept == {s \in Browser : Live(s) /\ session[s].org = o /\ session[s].role # r}
            IN  \/ /\ member' = [member EXCEPT ![o] = r]
                   /\ tainted' = tainted \cup kept
                   /\ browser' = Outdated(next, o, q)
                   /\ UNCHANGED failures
                \/ /\ failures < MaxFailures
                   /\ failures' = failures + 1
                   /\ browser' = [next EXCEPT ![q].stale = (next[q].step = "issue")]
                   /\ UNCHANGED <<member, tainted>>
      BY <2>5 DEF JoinFromGroups
    <3> DEFINE next == IF browser[q].org \in {o, NotMember} THEN Resolved(q, o, r) ELSE Ends(q)
    <3>2. next \in [Browser -> SoundRequest]
      BY <2>5, RequestMoves DEF JoinFromGroups, SoundRequest
    <3>. HIDE DEF next
    <3>3. Outdated(next, o, q) \in [Browser -> SoundRequest]
      BY <3>2, RequestsOutdated
    <3>4. [next EXCEPT ![q].stale = (next[q].step = "issue")] \in [Browser -> SoundRequest]
      BY <3>2, RequestMarked
    <3>5. /\ member' \in [Orgs -> Roles \cup {NotMember}]
          /\ tainted' \in SUBSET Browser
          /\ failures' \in 0..MaxFailures
      BY <3>1
    <3>6. browser' \in [Browser -> SoundRequest]
      BY <3>1, <3>3, <3>4 DEF next
    <3>. QED BY <2>5, <3>5, <3>6 DEF JoinFromGroups
  <2>6. ASSUME NEW q \in Browser, ResolvePrincipal(q) PROVE SessionInUse'
    <3>1. ASSUME NEW o \in Orgs, Chosen(q) = {o} PROVE o \in Orgs /\ member[o] \in Roles
      BY <3>1 DEF Chosen, Memberships
    <3>2. browser' \in [Browser -> SoundRequest]
      <4>1. CASE \E o \in Orgs : Chosen(q) = {o}
        <5> DEFINE c == CHOOSE o \in Orgs : Chosen(q) = {o}
        <5>1. c \in Orgs /\ Chosen(q) = {c}
          BY <4>1
        <5>2. Memberships # {}
          BY <5>1 DEF Chosen
        <5>. QED BY <2>6, <3>1, <4>1, <5>1, <5>2, RequestMoves DEF ResolvePrincipal, SoundRequest
      <4>2. CASE ~ \E o \in Orgs : Chosen(q) = {o}
        BY <2>6, <4>2, RequestMoves DEF ResolvePrincipal, SoundRequest
      <4>. QED BY <4>1, <4>2
    <3>. QED BY <2>6, <3>2 DEF ResolvePrincipal
  <2>7. ASSUME NEW q \in Browser, JoinDefault(q) PROVE SessionInUse'
    <3>1. browser' \in [Browser -> SoundRequest]
      BY <2>7, RequestMoves DEF JoinDefault
    <3>2. member' \in [Orgs -> Roles \cup {NotMember}]
      BY <2>7 DEF JoinDefault
    <3>. QED BY <2>7, <3>1, <3>2 DEF JoinDefault
  <2>8. ASSUME NEW q \in Browser, ReadDefault(q) PROVE SessionInUse'
    <3>1. browser' \in [Browser -> SoundRequest]
      BY <2>8, RequestMoves DEF ReadDefault, SoundRequest
    <3>. QED BY <2>8, <3>1 DEF ReadDefault
  <2>9. ASSUME NEW q \in Browser, ReadSession(q) PROVE SessionInUse'
    <3>1. browser' \in [Browser -> SoundRequest]
      BY <2>9, RequestMoves DEF ReadSession
    <3>. QED BY <2>9, <3>1 DEF ReadSession
  <2>10. ASSUME NEW q \in Browser, CreateSession(q) PROVE SessionInUse'
    <3>0. browser[q].login \in Logins \cup {NotMember}
      BY DEF BrowserRequest
    <3>1. Written(q, browser[q].login) \in SessionRow
      BY <2>10, <3>0, RequestWrites DEF CreateSession
    <3>2. browser' \in [Browser -> SoundRequest]
      BY <2>10, RequestMoves DEF CreateSession
    <3>. QED BY <2>10, <3>1, <3>2 DEF CreateSession
  <2>11. ASSUME NEW q \in Browser, UpdateSession(q) PROVE SessionInUse'
    <3>1. browser' \in [Browser -> SoundRequest]
      BY <2>11, RequestMoves DEF UpdateSession
    <3>0. browser[q].sid \in Browser
      BY <2>11 DEF UpdateSession, SoundRequest, BrowserRequest
    <3>2. session' \in [Browser -> SessionRow]
      <4>1. ASSUME NEW s \in Browser, Live(s)
            PROVE  Written(q, session[s].login) \in SessionRow
        <5>1. session[s].login \in Logins \cup {NotMember}
          BY <4>1, LiveRow
        <5>. QED BY <2>11, <5>1, RequestWrites DEF UpdateSession
      <4>. QED BY <2>11, <3>0, <4>1 DEF UpdateSession, Writable
    <3>3. tainted' \in SUBSET Browser
      <4>1. tainted' \in {tainted \cup {browser[q].sid}, tainted \ {browser[q].sid}, tainted}
        BY <2>11 DEF UpdateSession
      <4>. QED BY <3>0, <4>1
    <3>. QED BY <2>11, <3>1, <3>2, <3>3 DEF UpdateSession
  <2>12. ASSUME NEW s \in Browser, Logout(s) PROVE SessionInUse'
    <3>1. session' \in [Browser -> SessionRow]
      <4>1. session' = session \/ session' = [session EXCEPT ![s] = [session[s] EXCEPT !.status = "revoked"]]
        BY <2>12 DEF Logout
      <4>. QED BY <2>12, <4>1, RevokedRow DEF Logout
    <3>2. failures' \in 0..MaxFailures
      BY <2>12, SessionAssumption DEF Logout
    <3>. QED BY <2>12, <3>1, <3>2 DEF Logout
  <2>13. ASSUME NEW o \in Orgs, NEW r \in Roles \cup {NotMember}, ChangeMembership(o, r)
        PROVE  SessionInUse'
    <3>1. browser' \in [Browser -> SoundRequest]
      BY <2>13, RequestsOutdated DEF ChangeMembership
    <3>. QED BY <2>13, <3>1 DEF ChangeMembership, ToRevoke
  <2>14. ASSUME NEW o \in Orgs, RevokeUserSessions(o) PROVE SessionInUse'
    <3>1. session' \in [Browser -> SessionRow]
      BY <2>14, RevokedRow DEF RevokeUserSessions
    <3>2. failures' \in 0..MaxFailures /\ tainted' \in SUBSET Browser
      BY <2>14 DEF RevokeUserSessions
    <3>. QED BY <2>14, <3>1, <3>2 DEF RevokeUserSessions
  <2>15. CASE UNCHANGED sessionVars
    BY <2>15 DEF sessionVars
  <2>. QED
    BY <2>1, <2>2, <2>3, <2>4, <2>5, <2>6, <2>7, <2>8, <2>9, <2>10, <2>11, <2>12, <2>13,
       <2>14, <2>15 DEF SessionNext, BrowserStep
<1>. QED BY <1>1, <1>2, PTL DEF SessionSpec

\* The tables and the requests keep their types.
THEOREM SessionTypeCorrect == SessionSpec => []SessionTypeOK
<1>1. SessionInUse => SessionTypeOK
  BY DEF SessionInUse
<1>. QED BY <1>1, SessionInUseHolds, PTL

-----------------------------------------------------------------------------
(* One session per login; revocation is final.                             *)

\* A request or a session holds login l.
Holds(q, l) ==
  \/ browser[q].op = "callback" /\ browser[q].login = l
  \/ session[q] # NoSession /\ session[q].login = l

\* What a callback is named after exists once: its login state is gone, nobody
\* else holds it, and it has no session before it has ended.
LoginInv ==
  /\ \A q \in Browser : browser[q].step # "ended" => session[q] = NoSession
  /\ \A q \in Earlier : browser[q].step = "ended"
  /\ \A s \in Browser \ Earlier : session[s] # NoSession => session[s].login \in Logins
  /\ \A q \in Browser, l \in Logins : Holds(q, l) => pkce[l] = "gone"
  /\ \A p, q \in Browser, l \in Logins : Holds(p, l) /\ Holds(q, l) => p = q

\* Requests begin no callback and none goes on after its end.
RequestsKeep ==
  \A p \in Browser :
    /\ browser'[p].op = "callback" => browser[p].op = "callback" /\ browser'[p].login = browser[p].login
    /\ browser[p].step = "ended" => browser'[p].step = "ended"

\* No session appears, and none changes its login.
SessionsKeep ==
  \A s \in Browser :
    /\ session[s] = NoSession => session'[s] = NoSession
    /\ session[s] # NoSession => session'[s].login = session[s].login

\* Steps of requests other than the arrival of a callback begin none.
LEMMA StepsKeepRequests ==
  ASSUME SessionInUse, NEW q \in Browser,
         \/ BrowserStep(q)
         \/ \E s \in Browser : Refresh(q, s) \/ \E o \in Orgs : SwitchOrganization(q, s, o)
         \/ \E o \in Orgs, r \in Roles \cup {NotMember} : ChangeMembership(o, r)
  PROVE  RequestsKeep
<1>. USE DEF RequestsKeep
<1>0. browser \in [Browser -> SoundRequest] /\ browser \in [Browser -> BrowserRequest]
  BY DEF SessionInUse, SessionTypeOK
<1>1. ASSUME browser' = Ends(q) PROVE RequestsKeep
  BY <1>0, <1>1 DEF Ends, EndedBrowser, IdleBrowser
<1>2. ASSUME NEW step \in {"join", "joined", "issue"}, browser' = Goes(q, step),
             browser[q].step # "ended"
      PROVE  RequestsKeep
  BY <1>0, <1>2 DEF Goes, BrowserRequest
<1>3. ASSUME NEW o \in Orgs, NEW r \in Roles, browser' = Resolved(q, o, r),
             browser[q].step # "ended"
      PROVE  RequestsKeep
  BY <1>0, <1>3 DEF Resolved, BrowserRequest
<1>4. CASE JoinFromGroups(q)
  <2>1. PICK o \in Orgs, r \in Roles :
          LET next == IF browser[q].org \in {o, NotMember} THEN Resolved(q, o, r) ELSE Ends(q)
          IN  \/ browser' = Outdated(next, o, q)
              \/ browser' = [next EXCEPT ![q].stale = (next[q].step = "issue")]
    BY <1>4 DEF JoinFromGroups
  <2> DEFINE next == IF browser[q].org \in {o, NotMember} THEN Resolved(q, o, r) ELSE Ends(q)
  <2>2. browser[q].step = "group" /\ browser[q].op = "callback"
    BY <1>0, <1>4 DEF JoinFromGroups, SoundRequest
  <2>3. next \in [Browser -> SoundRequest]
    BY <1>0, <2>2, RequestMoves
  <2>4. \A p \in Browser :
          /\ next[p].op = "callback" => browser[p].op = "callback" /\ next[p].login = browser[p].login
          /\ browser[p].step = "ended" => next[p].step = "ended"
    <3>1. CASE next = Ends(q)
      <4>. HIDE DEF next
      <4>1. EndedBrowser.op = "none" /\ EndedBrowser.step = "ended"
        BY DEF EndedBrowser, IdleBrowser
      <4>2. \A p \in Browser : next[p] = IF p = q THEN EndedBrowser ELSE browser[p]
        BY <1>0, <3>1 DEF Ends
      <4>. QED BY <4>1, <4>2
    <3>2. CASE next = Resolved(q, o, r)
      <4>. HIDE DEF next
      <4>1. ASSUME NEW p \in Browser, p # q PROVE next[p] = browser[p]
        BY <1>0, <3>2, <4>1 DEF Resolved
      <4>2. next[q].op = browser[q].op /\ next[q].login = browser[q].login
        BY <1>0, <3>2 DEF Resolved, BrowserRequest
      <4>. QED BY <2>2, <4>1, <4>2
    <3>. QED BY <3>1, <3>2
  <2>. HIDE DEF next
  <2>5. \A p \in Browser : /\ browser'[p].op = next[p].op /\ browser'[p].login = next[p].login
                           /\ browser'[p].step = next[p].step
    <3>1. CASE browser' = Outdated(next, o, q)
      BY <2>3, <3>1, RequestsOutdated
    <3>2. CASE browser' = [next EXCEPT ![q].stale = (next[q].step = "issue")]
      BY <2>3, <3>2 DEF SoundRequest, BrowserRequest
    <3>. QED BY <2>1, <3>1, <3>2 DEF next
  <2>. QED BY <2>4, <2>5
<1>5. CASE ResolvePrincipal(q)
  <2>1. ASSUME NEW c \in Orgs, Chosen(q) = {c} PROVE member[c] \in Roles
    BY <2>1 DEF Chosen, Memberships, SessionInUse, SessionTypeOK
  <2>2. CASE \E o \in Orgs : Chosen(q) = {o}
    <3> DEFINE c == CHOOSE o \in Orgs : Chosen(q) = {o}
    <3>1. c \in Orgs /\ Chosen(q) = {c}
      BY <2>2
    <3>2. Memberships # {}
      BY <3>1 DEF Chosen
    <3>3. browser' = Resolved(q, c, member[c]) /\ browser[q].step # "ended"
      BY <1>5, <2>2, <3>2 DEF ResolvePrincipal
    <3>. QED BY <1>3, <2>1, <3>1, <3>3
  <2>3. CASE ~ \E o \in Orgs : Chosen(q) = {o}
    BY <1>1, <1>2, <1>5, <2>3 DEF ResolvePrincipal
  <2>. QED BY <2>2, <2>3
<1>6. CASE JoinDefault(q)
  BY <1>2, <1>6 DEF JoinDefault
<1>7. CASE ReadDefault(q)
  <2>1. member[DefaultOrg] # NotMember => member[DefaultOrg] \in Roles
    BY DEF SessionInUse, SessionTypeOK
  <2>. QED BY <1>1, <1>3, <1>7, <2>1 DEF ReadDefault
<1>8. CASE ReadSession(q)
  BY <1>1, <1>2, <1>8 DEF ReadSession
<1>9. CASE CreateSession(q) \/ UpdateSession(q)
  BY <1>1, <1>9 DEF CreateSession, UpdateSession
<1>10. ASSUME NEW s \in Browser, Refresh(q, s) PROVE RequestsKeep
  <2>1. browser[q] = IdleBrowser
    BY <1>10 DEF Refresh, Arrives
  <2>2. browser[q].step = "idle"
    BY <2>1 DEF IdleBrowser
  <2>3. \/ browser' = Ends(q)
        \/ browser' = [browser EXCEPT ![q].step = "resolve", ![q].op = "refresh",
                                      ![q].sid = s, ![q].org = session[s].org]
    BY <1>10 DEF Refresh
  <2>. QED BY <1>0, <1>1, <2>2, <2>3 DEF BrowserRequest
<1>11. ASSUME NEW s \in Browser, NEW o \in Orgs, SwitchOrganization(q, s, o) PROVE RequestsKeep
  <2>1. browser[q] = IdleBrowser
    BY <1>11 DEF SwitchOrganization, Arrives
  <2>2. browser[q].step = "idle"
    BY <2>1 DEF IdleBrowser
  <2>3. browser' = [browser EXCEPT ![q].step = "resolve", ![q].op = "switch",
                                   ![q].sid = s, ![q].org = o]
    BY <1>11 DEF SwitchOrganization
  <2>. QED BY <1>0, <1>1, <2>2, <2>3 DEF BrowserRequest
<1>12. ASSUME NEW o \in Orgs, NEW r \in Roles \cup {NotMember}, ChangeMembership(o, r)
       PROVE  RequestsKeep
  BY <1>0, <1>12, RequestsOutdated DEF ChangeMembership
<1>. QED BY <1>4, <1>5, <1>6, <1>7, <1>8, <1>9, <1>10, <1>11, <1>12 DEF BrowserStep

\* Updates and revocations write live rows only.
LEMMA StepsKeepSessions ==
  ASSUME SessionInUse,
         \/ \E q \in Browser : UpdateSession(q) \/ Logout(q)
         \/ \E o \in Orgs : RevokeUserSessions(o)
  PROVE  /\ SessionsKeep
         /\ \A s \in Browser : session[s].status = "revoked" => session'[s] = session[s]
<1>0. session \in [Browser -> SessionRow] /\ browser \in [Browser -> SoundRequest]
  BY DEF SessionInUse, SessionTypeOK
<1>. USE DEF SessionsKeep
<1>1. ASSUME NEW s \in Browser, Live(s)
      PROVE  session[s] # NoSession /\ session[s].status # "revoked"
  BY <1>0, <1>1, LiveRow DEF Live
<1>2. ASSUME NEW q \in Browser, UpdateSession(q)
      PROVE  /\ SessionsKeep
             /\ \A s \in Browser : session[s].status = "revoked" => session'[s] = session[s]
  <2>1. browser[q].sid \in Browser
    BY <1>0, <1>2 DEF UpdateSession, SoundRequest, BrowserRequest
  <2>2. ASSUME NEW l PROVE Written(q, l).login = l
    BY DEF Written
  <2>. QED BY <1>0, <1>1, <1>2, <2>1, <2>2 DEF UpdateSession, Writable
<1>3. ASSUME NEW q \in Browser, Logout(q)
      PROVE  /\ SessionsKeep
             /\ \A s \in Browser : session[s].status = "revoked" => session'[s] = session[s]
  <2>1. session' \in {session, [session EXCEPT ![q] = [session[q] EXCEPT !.status = "revoked"]]}
    BY <1>3 DEF Logout
  <2>2. Live(q)
    BY <1>3 DEF Logout
  <2>. QED BY <1>0, <1>1, <2>1, <2>2, RevokedRow
<1>4. ASSUME NEW o \in Orgs, RevokeUserSessions(o)
      PROVE  /\ SessionsKeep
             /\ \A s \in Browser : session[s].status = "revoked" => session'[s] = session[s]
  BY <1>0, <1>1, <1>4, RevokedRow DEF RevokeUserSessions
<1>. QED BY <1>2, <1>3, <1>4

\* While neither begins a callback nor a session, LoginInv goes on to hold.
LEMMA KeepsLoginInv ==
  ASSUME SessionTypeOK, LoginInv, RequestsKeep, SessionsKeep,
         \A l \in Logins : pkce[l] = "gone" => pkce'[l] = "gone"
  PROVE  LoginInv'
<1>1. \A q \in Browser, l \in Logins : Holds(q, l)' => Holds(q, l)
  BY DEF Holds, RequestsKeep, SessionsKeep
<1>2. \A q \in Browser : browser'[q].step # "ended" => session'[q] = NoSession
  BY DEF LoginInv, RequestsKeep, SessionsKeep
<1>3. \A s \in Browser \ Earlier : session'[s] # NoSession => session'[s].login \in Logins
  BY DEF LoginInv, SessionsKeep
<1>4. \A q \in Earlier : browser'[q].step = "ended"
  BY DEF LoginInv, RequestsKeep
<1>. QED BY <1>1, <1>2, <1>3, <1>4 DEF LoginInv

\* LoginInv is inductive.
LEMMA LoginInductive == SessionSpec => [](SessionTypeOK /\ LoginInv)
<1>1. SessionInit => LoginInv
  <2>. SUFFICES ASSUME SessionInit PROVE LoginInv
    OBVIOUS
  <2>1. PICK org \in [Earlier -> {o \in Orgs : member[o] # NotMember} \cup {NotMember}] :
          session = [s \in Browser |->
            IF s \in Earlier /\ org[s] # NotMember
            THEN [status |-> "live", org |-> org[s], role |-> member[org[s]], login |-> NotMember]
            ELSE NoSession]
    BY DEF SessionInit
  <2>2. \A q \in Browser : /\ q \notin Earlier => session[q] = NoSession
                           /\ session[q] # NoSession => session[q].login = NotMember
    BY <2>1
  <2>3. \A q \in Browser : /\ browser[q].op = "none"
                           /\ q \in Earlier <=> browser[q].step = "ended"
    BY DEF SessionInit, EndedBrowser, IdleBrowser
  <2>4. NotMember \notin Logins
    OBVIOUS
  <2>5. ASSUME NEW q \in Browser, NEW l \in Logins PROVE ~Holds(q, l)
    <3>1. browser[q].op # "callback"
      BY <2>3
    <3>2. session[q] = NoSession \/ session[q].login # l
      BY <2>2, <2>4
    <3>. QED BY <3>1, <3>2 DEF Holds
  <2>6. \A q \in Browser : browser[q].step # "ended" => session[q] = NoSession
    BY <2>2, <2>3
  <2>7. \A q \in Earlier : browser[q].step = "ended"
    BY <2>3
  <2>8. \A s \in Browser \ Earlier : session[s] # NoSession => session[s].login \in Logins
    BY <2>2
  <2>. QED BY <2>5, <2>6, <2>7, <2>8 DEF LoginInv
<1>2. SessionInUse /\ LoginInv /\ [SessionNext]_sessionVars => LoginInv'
  <2>. SUFFICES ASSUME SessionInUse, LoginInv, [SessionNext]_sessionVars PROVE LoginInv'
    OBVIOUS
  <2>0. SessionTypeOK /\ browser \in [Browser -> SoundRequest] /\ browser \in [Browser -> BrowserRequest]
        /\ session \in [Browser -> SessionRow] /\ pkce \in [Logins -> {"none", "saved", "gone"}]
    BY DEF SessionInUse, SessionTypeOK
  <2>1. ASSUME UNCHANGED session PROVE SessionsKeep
    BY <2>1 DEF SessionsKeep
  <2>2. ASSUME UNCHANGED browser PROVE RequestsKeep
    BY <2>2 DEF RequestsKeep
  <2>3. ASSUME NEW l \in Logins, Login(l) \/ PkceExpires(l) PROVE LoginInv'
    <3>1. \A k \in Logins : pkce[k] = "gone" => pkce'[k] = "gone"
      BY <2>0, <2>3 DEF Login, PkceExpires
    <3>. QED BY <2>0, <2>1, <2>2, <2>3, <3>1, KeepsLoginInv DEF Login, PkceExpires
  <2>4. ASSUME NEW q \in Browser, NEW l \in Logins, Callback(q, l) PROVE LoginInv'
    <3>1. browser[q] = IdleBrowser /\ pkce[l] = "saved"
      BY <2>4 DEF Callback, Arrives
    <3>2. browser[q].step = "idle" /\ browser[q].op = "none"
      BY <3>1 DEF IdleBrowser
    <3>3. session[q] = NoSession /\ q \notin Earlier
      BY <3>2 DEF LoginInv
    <3>4. \A p \in Browser : ~Holds(p, l)
      BY <3>1 DEF LoginInv
    <3>5. /\ \A p \in Browser \ {q} : browser'[p] = browser[p]
          /\ browser'[q].op = "callback" => browser'[q].login = l
      <4>1. CASE browser' = Ends(q)
        BY <2>0, <4>1 DEF Ends, EndedBrowser, IdleBrowser
      <4>2. CASE \E o \in Orgs \cup {NotMember}, step \in {"group", "resolve"} :
                   browser' = [browser EXCEPT ![q].step = step, ![q].op = "callback",
                                              ![q].login = l, ![q].org = o]
        BY <2>0, <4>2 DEF BrowserRequest
      <4>. QED BY <2>4, <4>1, <4>2 DEF Callback
    <3>6. /\ session' = session
          /\ pkce'[l] = "gone"
          /\ \A k \in Logins : pkce[k] = "gone" => pkce'[k] = "gone"
      BY <2>0, <2>4 DEF Callback, Consumed
    <3>7. \A p \in Browser, k \in Logins : Holds(p, k)' => Holds(p, k) \/ (p = q /\ k = l)
      BY <3>3, <3>5, <3>6 DEF Holds
    <3>8. /\ \A p \in Browser : browser'[p].step # "ended" => session'[p] = NoSession
          /\ \A p \in Earlier : browser'[p].step = "ended"
          /\ \A s \in Browser \ Earlier : session'[s] # NoSession => session'[s].login \in Logins
      BY <3>3, <3>5, <3>6 DEF LoginInv
    <3>. QED BY <3>4, <3>6, <3>7, <3>8 DEF LoginInv
  <2>5. ASSUME NEW q \in Browser,
               \/ \E s \in Browser : Refresh(q, s) \/ \E o \in Orgs : SwitchOrganization(q, s, o)
               \/ JoinFromGroups(q) \/ ResolvePrincipal(q) \/ JoinDefault(q) \/ ReadDefault(q)
               \/ ReadSession(q)
        PROVE  LoginInv'
    <3>1. UNCHANGED <<session, pkce>>
      BY <2>5 DEF Refresh, SwitchOrganization, JoinFromGroups, ResolvePrincipal, JoinDefault,
                  ReadDefault, ReadSession
    <3>2. RequestsKeep
      BY <2>5, StepsKeepRequests DEF BrowserStep
    <3>. QED BY <2>0, <2>1, <3>1, <3>2, KeepsLoginInv
  <2>6. ASSUME NEW q \in Browser, UpdateSession(q) PROVE LoginInv'
    BY <2>0, <2>6, StepsKeepRequests, StepsKeepSessions, KeepsLoginInv
       DEF UpdateSession, BrowserStep
  <2>7. ASSUME NEW q \in Browser, Logout(q) PROVE LoginInv'
    BY <2>0, <2>2, <2>7, StepsKeepSessions, KeepsLoginInv DEF Logout
  <2>8. ASSUME NEW o \in Orgs, NEW r \in Roles \cup {NotMember}, ChangeMembership(o, r)
        PROVE  LoginInv'
    <3>1. RequestsKeep
      <4>1. CASE Browser = {}
        BY <4>1 DEF RequestsKeep
      <4>2. ASSUME NEW q \in Browser PROVE RequestsKeep
        BY <2>8, StepsKeepRequests
      <4>. QED BY <4>1, <4>2
    <3>. QED BY <2>0, <2>1, <2>8, <3>1, KeepsLoginInv DEF ChangeMembership
  <2>9. ASSUME NEW o \in Orgs, RevokeUserSessions(o) PROVE LoginInv'
    BY <2>0, <2>2, <2>9, StepsKeepSessions, KeepsLoginInv DEF RevokeUserSessions
  <2>10. ASSUME NEW q \in Browser, CreateSession(q) PROVE LoginInv'
    <3>1. browser[q].step = "issue" /\ browser[q].op = "callback" /\ browser[q].login \in Logins
      BY <2>0, <2>10 DEF CreateSession, SoundRequest
    <3>2. q \notin Earlier /\ session[q] = NoSession
      BY <3>1 DEF LoginInv
    <3>3. /\ session'[q].login = browser[q].login
          /\ \A p \in Browser \ {q} : session'[p] = session[p] /\ browser'[p] = browser[p]
          /\ browser'[q].op = "none" /\ browser'[q].step = "ended"
          /\ pkce' = pkce
      BY <2>0, <2>10 DEF CreateSession, Written, Ends, EndedBrowser, IdleBrowser
    <3>4. \A p \in Browser, k \in Logins : Holds(p, k)' => Holds(p, k)
      BY <3>1, <3>3 DEF Holds
    <3>5. /\ \A p \in Browser : browser'[p].step # "ended" => session'[p] = NoSession
          /\ \A p \in Earlier : browser'[p].step = "ended"
          /\ \A s \in Browser \ Earlier : session'[s] # NoSession => session'[s].login \in Logins
      BY <3>1, <3>2, <3>3 DEF LoginInv
    <3>. QED BY <3>3, <3>4, <3>5 DEF LoginInv
  <2>11. CASE UNCHANGED sessionVars
    BY <2>0, <2>1, <2>2, <2>11, KeepsLoginInv DEF sessionVars
  <2>. QED BY <2>3, <2>4, <2>5, <2>6, <2>7, <2>8, <2>9, <2>10, <2>11 DEF SessionNext, BrowserStep
<1>3. SessionInUse => SessionTypeOK
  BY DEF SessionInUse
<1>. QED BY <1>1, <1>2, <1>3, SessionInUseHolds, PTL DEF SessionSpec

\* A login gives at most one session: DELETE ... RETURNING hands its state to one
\* callback, and that callback creates one row.
THEOREM OneSessionPerLoginHolds == SessionSpec => []OneSessionPerLogin
<1>1. LoginInv => OneSessionPerLogin
  BY DEF LoginInv, OneSessionPerLogin, Holds
<1>. QED BY <1>1, LoginInductive, PTL

\* A revoked session is never written again: the updates of refreshes and switches
\* that were under way find no row, and a callback writes a row of its own.
THEOREM RevokedIsFinalHolds == SessionSpec => RevokedIsFinal
<1>1. SessionInUse /\ LoginInv /\ [SessionNext]_sessionVars
        => [\A s \in Browser : session[s].status = "revoked" => session'[s] = session[s]]_sessionVars
  <2>. SUFFICES ASSUME SessionInUse, LoginInv, SessionNext, NEW s \in Browser,
                       session[s].status = "revoked"
                PROVE  session'[s] = session[s]
    OBVIOUS
  <2>1. ASSUME NEW q \in Browser, CreateSession(q) PROVE session'[s] = session[s]
    <3>1. session[q] = NoSession
      BY <2>1 DEF CreateSession, LoginInv
    <3>2. s # q
      BY <3>1 DEF NoSession
    <3>. QED BY <2>1, <3>2 DEF CreateSession, SessionInUse, SessionTypeOK
  <2>2. CASE \/ \E q \in Browser : UpdateSession(q) \/ Logout(q)
             \/ \E o \in Orgs : RevokeUserSessions(o)
    BY <2>2, StepsKeepSessions
  <2>3. CASE UNCHANGED session
    BY <2>3
  <2>4. ASSUME NEW q \in Browser,
               \/ \E t \in Browser : Refresh(q, t) \/ \E o \in Orgs : SwitchOrganization(q, t, o)
               \/ JoinFromGroups(q) \/ ResolvePrincipal(q) \/ JoinDefault(q) \/ ReadDefault(q)
               \/ ReadSession(q) \/ \E l \in Logins : Callback(q, l)
        PROVE  UNCHANGED session
    BY <2>4 DEF Refresh, SwitchOrganization, JoinFromGroups, ResolvePrincipal, JoinDefault,
                ReadDefault, ReadSession, Callback
  <2>5. ASSUME \/ \E l \in Logins : Login(l) \/ PkceExpires(l)
               \/ \E o \in Orgs, r \in Roles \cup {NotMember} : ChangeMembership(o, r)
        PROVE  UNCHANGED session
    BY <2>5 DEF Login, PkceExpires, ChangeMembership
  <2>. QED BY <2>1, <2>2, <2>3, <2>4, <2>5 DEF SessionNext, BrowserStep
<1>. QED BY <1>1, SessionInUseHolds, LoginInductive, PTL DEF SessionSpec, RevokedIsFinal

-----------------------------------------------------------------------------
(* Live sessions follow the memberships.                                   *)

\* A request that is to write, and that nothing has made stale, writes the
\* current membership.
Knows ==
  \A q \in Browser :
    browser[q].step \in {"read", "issue"} /\ ~browser[q].stale
      => member[browser[q].org] = browser[q].role

\* The inductive invariant beside the types.
MemberInv == SessionIsMembership /\ Knows

\* The moves of a request q towards its end, while the memberships stay.
LEMMA KnowsKept ==
  ASSUME SessionInUse, Knows, UNCHANGED member, NEW q \in Browser,
         \A p \in Browser \ {q} : browser'[p] = browser[p],
         \/ browser'[q].step \notin {"read", "issue"}
         \/ member[browser'[q].org] = browser'[q].role
         \/ /\ browser[q].step \in {"read", "issue"}
            /\ browser'[q].stale = browser[q].stale
            /\ browser'[q].org = browser[q].org
            /\ browser'[q].role = browser[q].role
  PROVE  Knows'
BY DEF Knows

\* Where a move takes the request that moves.
LEMMA WhereRequestsGo ==
  ASSUME SessionInUse, NEW q \in Browser
  PROVE  /\ \A p \in Browser \ {q} :
              /\ Ends(q)[p] = browser[p]
              /\ \A step \in {"join", "joined", "issue"} : Goes(q, step)[p] = browser[p]
              /\ \A o \in Orgs, r \in Roles : Resolved(q, o, r)[p] = browser[p]
         /\ Ends(q)[q].step = "ended"
         /\ \A step \in {"join", "joined", "issue"} :
              LET to == Goes(q, step)[q]
              IN  /\ to.step = step /\ to.stale = browser[q].stale
                  /\ to.org = browser[q].org /\ to.role = browser[q].role
         /\ \A o \in Orgs, r \in Roles :
              LET to == Resolved(q, o, r)[q]
              IN  to.step \in {"read", "issue"} /\ to.org = o /\ to.role = r
<1>0. browser \in [Browser -> BrowserRequest]
  BY DEF SessionInUse, SessionTypeOK
<1>1. \A p \in Browser \ {q} : Ends(q)[p] = browser[p]
  BY <1>0 DEF Ends
<1>2. Ends(q)[q].step = "ended"
  BY <1>0 DEF Ends, EndedBrowser, IdleBrowser
<1>3. ASSUME NEW step \in {"join", "joined", "issue"}
      PROVE  /\ \A p \in Browser \ {q} : Goes(q, step)[p] = browser[p]
             /\ Goes(q, step)[q].step = step /\ Goes(q, step)[q].stale = browser[q].stale
             /\ Goes(q, step)[q].org = browser[q].org /\ Goes(q, step)[q].role = browser[q].role
  BY <1>0 DEF Goes, BrowserRequest
<1>4. ASSUME NEW o \in Orgs, NEW r \in Roles
      PROVE  /\ \A p \in Browser \ {q} : Resolved(q, o, r)[p] = browser[p]
             /\ Resolved(q, o, r)[q].step \in {"read", "issue"}
             /\ Resolved(q, o, r)[q].org = o /\ Resolved(q, o, r)[q].role = r
  BY <1>0 DEF Resolved, BrowserRequest
<1>. QED BY <1>1, <1>2, <1>3, <1>4

\* A live session carries a current membership with its current role, save for
\* the cases the code leaves open: every path that writes a row has read or
\* written the membership, and every change of one marks what it makes stale.
THEOREM SessionIsMembershipHolds == SessionSpec => []SessionIsMembership
<1>1. SessionInit => MemberInv
  <2>. SUFFICES ASSUME SessionInit PROVE MemberInv
    OBVIOUS
  <2>1. PICK org \in [Earlier -> {o \in Orgs : member[o] # NotMember} \cup {NotMember}] :
          session = [s \in Browser |->
            IF s \in Earlier /\ org[s] # NotMember
            THEN [status |-> "live", org |-> org[s], role |-> member[org[s]], login |-> NotMember]
            ELSE NoSession]
    BY DEF SessionInit
  <2>2. \A o \in Orgs : member[o] # NotMember => member[o] \in Roles
    BY DEF SessionInit
  <2>3. ASSUME NEW s \in Browser, Live(s)
        PROVE  session[s].role \in Roles /\ member[session[s].org] = session[s].role
    <3>1. s \in Earlier /\ org[s] # NotMember
      BY <2>1, <2>3 DEF Live, NoSession
    <3>2. org[s] \in Orgs /\ member[org[s]] # NotMember
      BY <3>1
    <3>. QED BY <2>1, <2>2, <3>1, <3>2
  <2>4. \A q \in Browser : browser[q].step \in {"idle", "ended"}
    BY DEF SessionInit, IdleBrowser, EndedBrowser
  <2>. QED BY <2>3, <2>4 DEF MemberInv, SessionIsMembership, Knows
<1>2. SessionInUse /\ MemberInv /\ [SessionNext]_sessionVars => MemberInv'
  <2>. SUFFICES ASSUME SessionInUse, MemberInv, [SessionNext]_sessionVars PROVE MemberInv'
    OBVIOUS
  <2>. USE DEF MemberInv
  <2>0. /\ browser \in [Browser -> SoundRequest] /\ browser \in [Browser -> BrowserRequest]
        /\ session \in [Browser -> SessionRow] /\ member \in [Orgs -> Roles \cup {NotMember}]
    BY DEF SessionInUse, SessionTypeOK
  <2>1. ASSUME UNCHANGED <<member, session, pending, tainted>> PROVE SessionIsMembership'
    BY <2>1 DEF SessionIsMembership, Live
  <2>2. ASSUME UNCHANGED <<member, browser>> PROVE Knows'
    BY <2>2 DEF Knows
  <2>3. CASE UNCHANGED sessionVars \/ \E l \in Logins : Login(l) \/ PkceExpires(l)
    <3>1. UNCHANGED <<member, session, pending, tainted, browser>>
      BY <2>3 DEF sessionVars, Login, PkceExpires
    <3>. QED BY <2>1, <2>2, <3>1
  <2>4. ASSUME NEW q \in Browser, NEW l \in Logins, Callback(q, l) PROVE MemberInv'
    <3>1. /\ \A p \in Browser \ {q} : browser'[p] = browser[p]
          /\ browser'[q].step \notin {"read", "issue"}
      <4>1. CASE browser' = Ends(q)
        BY <2>0, <4>1, WhereRequestsGo
      <4>2. CASE \E o \in Orgs \cup {NotMember}, step \in {"group", "resolve"} :
                   browser' = [browser EXCEPT ![q].step = step, ![q].op = "callback",
                                              ![q].login = l, ![q].org = o]
        BY <2>0, <4>2 DEF BrowserRequest
      <4>. QED BY <2>4, <4>1, <4>2 DEF Callback
    <3>2. UNCHANGED <<member, session, pending, tainted>>
      BY <2>4 DEF Callback
    <3>. QED BY <2>1, <3>1, <3>2, KnowsKept
  <2>5. ASSUME NEW q \in Browser, NEW s \in Browser,
               Refresh(q, s) \/ \E o \in Orgs : SwitchOrganization(q, s, o)
        PROVE  MemberInv'
    <3>1. /\ \A p \in Browser \ {q} : browser'[p] = browser[p]
          /\ browser'[q].step \notin {"read", "issue"}
      <4>1. CASE browser' = Ends(q)
        BY <2>0, <4>1, WhereRequestsGo
      <4>2. CASE \E o, op : browser' = [browser EXCEPT ![q].step = "resolve", ![q].op = op,
                                                      ![q].sid = s, ![q].org = o]
        BY <2>0, <4>2 DEF BrowserRequest
      <4>. QED BY <2>5, <4>1, <4>2 DEF Refresh, SwitchOrganization
    <3>2. UNCHANGED <<member, session, pending, tainted>>
      BY <2>5 DEF Refresh, SwitchOrganization
    <3>. QED BY <2>1, <3>1, <3>2, KnowsKept
  <2>6. ASSUME NEW q \in Browser, ResolvePrincipal(q) PROVE MemberInv'
    <3>1. UNCHANGED <<member, session, pending, tainted>>
      BY <2>6 DEF ResolvePrincipal
    <3>2. CASE \E o \in Orgs : Chosen(q) = {o}
      <4> DEFINE c == CHOOSE o \in Orgs : Chosen(q) = {o}
      <4>1. c \in Orgs /\ Chosen(q) = {c}
        BY <3>2
      <4>2. Memberships # {} /\ member[c] \in Roles
        BY <2>0, <4>1 DEF Chosen, Memberships
      <4>3. browser' = Resolved(q, c, member[c])
        BY <2>6, <3>2, <4>2 DEF ResolvePrincipal
      <4>. HIDE DEF c
      <4>4. /\ \A p \in Browser \ {q} : browser'[p] = browser[p]
            /\ browser'[q].org = c /\ browser'[q].role = member[c]
        BY <4>1, <4>2, <4>3, WhereRequestsGo
      <4>. QED BY <2>1, <3>1, <4>4, KnowsKept
    <3>3. CASE ~ \E o \in Orgs : Chosen(q) = {o}
      <4>1. browser' = Ends(q) \/ browser' = Goes(q, "join")
        BY <2>6, <3>3 DEF ResolvePrincipal
      <4>2. /\ \A p \in Browser \ {q} : browser'[p] = browser[p]
            /\ browser'[q].step \notin {"read", "issue"}
        BY <4>1, WhereRequestsGo
      <4>. QED BY <2>1, <3>1, <4>2, KnowsKept
    <3>. QED BY <3>2, <3>3
  <2>7. ASSUME NEW q \in Browser, JoinDefault(q) PROVE MemberInv'
    <3>1. \A o \in Orgs : member[o] # NotMember => member'[o] = member[o]
      BY <2>0, <2>7 DEF JoinDefault
    <3>2. /\ \A p \in Browser \ {q} : browser'[p] = browser[p]
          /\ browser'[q].step = "joined"
      BY <2>7, WhereRequestsGo DEF JoinDefault
    <3>3. Knows'
      <4>. SUFFICES ASSUME NEW p \in Browser, browser'[p].step \in {"read", "issue"},
                           ~browser'[p].stale
                    PROVE  member'[browser'[p].org] = browser'[p].role
        BY DEF Knows
      <4>1. p # q /\ browser'[p] = browser[p]
        BY <3>2
      <4>2. browser[p].org \in Orgs /\ browser[p].role \in Roles
        BY <2>0, <4>1 DEF SoundRequest
      <4>3. member[browser[p].org] = browser[p].role
        BY <4>1 DEF Knows
      <4>. QED BY <3>1, <4>1, <4>2, <4>3
    <3>4. SessionIsMembership'
      <4>. SUFFICES ASSUME NEW s \in Browser, Live(s)', s \notin tainted',
                           session'[s].org \notin pending'
                    PROVE  session'[s].role \in Roles /\ member'[session'[s].org] = session'[s].role
        BY DEF SessionIsMembership
      <4>1. UNCHANGED <<session, pending, tainted>>
        BY <2>7 DEF JoinDefault
      <4>2. Live(s) /\ session[s].role \in Roles /\ member[session[s].org] = session[s].role
        BY <4>1 DEF SessionIsMembership, Live
      <4>3. session[s].org \in Orgs
        BY <2>0, <4>2, LiveRow
      <4>. QED BY <3>1, <4>1, <4>2, <4>3
    <3>. QED BY <3>3, <3>4
  <2>8. ASSUME NEW q \in Browser, ReadDefault(q) PROVE MemberInv'
    <3>1. UNCHANGED <<member, session, pending, tainted>>
      BY <2>8 DEF ReadDefault
    <3>2. \/ browser' = Ends(q)
          \/ member[DefaultOrg] \in Roles /\ browser' = Resolved(q, DefaultOrg, member[DefaultOrg])
      BY <2>0, <2>8 DEF ReadDefault
    <3>3. /\ \A p \in Browser \ {q} : browser'[p] = browser[p]
          /\ \/ browser'[q].step \notin {"read", "issue"}
             \/ member[browser'[q].org] = browser'[q].role
      BY <3>2, WhereRequestsGo
    <3>. QED BY <2>1, <3>1, <3>3, KnowsKept
  <2>9. ASSUME NEW q \in Browser, ReadSession(q) PROVE MemberInv'
    <3>1. UNCHANGED <<member, session, pending, tainted>>
      BY <2>9 DEF ReadSession
    <3>2. browser' = Ends(q) \/ (browser[q].step = "read" /\ browser' = Goes(q, "issue"))
      BY <2>9 DEF ReadSession
    <3>3. /\ \A p \in Browser \ {q} : browser'[p] = browser[p]
          /\ \/ browser'[q].step \notin {"read", "issue"}
             \/ /\ browser[q].step = "read" /\ browser'[q].stale = browser[q].stale
                /\ browser'[q].org = browser[q].org /\ browser'[q].role = browser[q].role
      BY <3>2, WhereRequestsGo
    <3>. QED BY <2>1, <3>1, <3>3, KnowsKept
  <2>10. ASSUME NEW q \in Browser, CreateSession(q) \/ UpdateSession(q) PROVE MemberInv'
    <3>1. UNCHANGED <<member, pending>> /\ browser' = Ends(q) /\ browser[q].step = "issue"
      BY <2>10 DEF CreateSession, UpdateSession
    <3>2. Knows'
      BY <3>1, WhereRequestsGo, KnowsKept
    <3>3. ASSUME NEW s \in Browser, NEW l, session' = [session EXCEPT ![s] = Written(q, l)],
                 \A t \in Browser \ {s} : t \in tainted => t \in tainted',
                 browser[q].stale => s \in tainted'
          PROVE  SessionIsMembership'
      <4>1. browser[q].role \in Roles /\ (~browser[q].stale => member[browser[q].org] = browser[q].role)
        BY <2>0, <3>1 DEF SoundRequest, Knows
      <4>2. /\ session'[s].org = browser[q].org /\ session'[s].role = browser[q].role
            /\ \A t \in Browser \ {s} : session'[t] = session[t]
        BY <2>0, <3>3 DEF Written
      <4>. QED BY <3>1, <3>3, <4>1, <4>2 DEF SessionIsMembership, Live
    <3>4. ASSUME CreateSession(q) PROVE SessionIsMembership'
      <4>1. session' = [session EXCEPT ![q] = Written(q, browser[q].login)]
        BY <3>4 DEF CreateSession
      <4>2. tainted' = IF browser[q].stale THEN tainted \cup {q} ELSE tainted
        BY <3>4 DEF CreateSession
      <4>. QED BY <3>3, <4>1, <4>2
    <3>5. ASSUME UpdateSession(q) PROVE SessionIsMembership'
      <4> DEFINE s == browser[q].sid
      <4>1. s \in Browser
        BY <2>0, <3>5 DEF UpdateSession, SoundRequest, BrowserRequest
      <4>2. CASE UNCHANGED <<session, tainted>>
        BY <2>1, <3>1, <4>2
      <4>3. CASE /\ session' = [session EXCEPT ![s] = Written(q, session[s].login)]
                 /\ tainted' = IF browser[q].stale THEN tainted \cup {s} ELSE tainted \ {s}
        BY <3>3, <4>1, <4>3
      <4>. QED BY <3>5, <4>2, <4>3 DEF UpdateSession
    <3>. QED BY <2>10, <3>2, <3>4, <3>5
  <2>11. ASSUME NEW q \in Browser, Logout(q) PROVE MemberInv'
    <3>1. UNCHANGED <<member, browser, pending, tainted>>
      BY <2>11 DEF Logout
    <3>2. session' \in {session, [session EXCEPT ![q] = [session[q] EXCEPT !.status = "revoked"]]}
          /\ Live(q)
      BY <2>11 DEF Logout
    <3>3. \A s \in Browser : Live(s)' => session'[s] = session[s]
      BY <2>0, <3>2, RevokedRow DEF Live
    <3>. QED BY <2>2, <3>1, <3>3 DEF SessionIsMembership, Live
  <2>12. ASSUME NEW o \in Orgs, RevokeUserSessions(o) PROVE MemberInv'
    <3>1. UNCHANGED <<member, browser>>
      BY <2>12 DEF RevokeUserSessions
    <3> DEFINE theirs == {s \in Browser : Live(s) /\ session[s].org = o}
    <3>2. /\ pending' = pending \ {o}
          /\ \/ /\ session' = [s \in Browser |->
                     IF s \in theirs THEN [session[s] EXCEPT !.status = "revoked"] ELSE session[s]]
                /\ tainted' = tainted
             \/ tainted' = tainted \cup theirs /\ session' = session
      BY <2>12 DEF RevokeUserSessions
    <3>3. \A s \in Browser : Live(s)' => session'[s] = session[s] /\ (s \in theirs => s \in tainted')
      <4>1. CASE session' = session /\ tainted' = tainted \cup theirs
        BY <4>1
      <4>2. CASE session' = [s \in Browser |->
                   IF s \in theirs THEN [session[s] EXCEPT !.status = "revoked"] ELSE session[s]]
        BY <2>0, <4>2, RevokedRow DEF Live
      <4>. QED BY <3>2, <4>1, <4>2
    <3>4. SessionIsMembership'
      <4>. SUFFICES ASSUME NEW s \in Browser, Live(s)', s \notin tainted',
                           session'[s].org \notin pending'
                    PROVE  session'[s].role \in Roles /\ member'[session'[s].org] = session'[s].role
        BY DEF SessionIsMembership
      <4>1. session'[s] = session[s] /\ s \notin theirs
        BY <3>3
      <4>2. Live(s) /\ session[s].org # o
        BY <4>1 DEF Live
      <4>3. s \notin tainted /\ session[s].org \notin pending
        BY <3>2, <4>1, <4>2
      <4>. QED BY <3>1, <4>1, <4>2, <4>3 DEF SessionIsMembership
    <3>. QED BY <2>2, <3>1, <3>4
  <2>13. ASSUME NEW o \in Orgs, NEW r \in Roles \cup {NotMember}, ChangeMembership(o, r)
         PROVE  MemberInv'
    <3>1. /\ member' = [member EXCEPT ![o] = r]
          /\ pending' = pending \cup {o}
          /\ browser' = Outdated(browser, o, NotMember)
          /\ UNCHANGED <<session, tainted>>
      BY <2>13 DEF ChangeMembership, ToRevoke
    <3>2. SessionIsMembership'
      BY <2>0, <3>1 DEF SessionIsMembership, Live
    <3>3. Knows'
      <4>. SUFFICES ASSUME NEW p \in Browser, browser'[p].step \in {"read", "issue"},
                           ~browser'[p].stale
                    PROVE  member'[browser'[p].org] = browser'[p].role
        BY DEF Knows
      <4>1. p # NotMember
        OBVIOUS
      <4>2. /\ browser[p].step \in {"read", "issue"} /\ ~browser[p].stale /\ browser[p].org # o
            /\ browser'[p].org = browser[p].org /\ browser'[p].role = browser[p].role
        BY <2>0, <3>1, <4>1, RequestsStillFresh
      <4>3. browser[p].org \in Orgs /\ member[browser[p].org] = browser[p].role
        BY <2>0, <4>2 DEF Knows, SoundRequest
      <4>4. member'[browser[p].org] = member[browser[p].org]
        BY <2>0, <3>1, <4>2, <4>3
      <4>. QED BY <4>2, <4>3, <4>4
    <3>. QED BY <3>2, <3>3
  <2>14. ASSUME NEW q \in Browser, JoinFromGroups(q) PROVE MemberInv'
    <3>0. browser[q].step = "group" /\ browser[q].op = "callback" /\ UNCHANGED <<session, pending>>
      BY <2>0, <2>14 DEF JoinFromGroups, SoundRequest
    <3>1. PICK o \in Orgs, r \in Roles :
            LET next == IF browser[q].org \in {o, NotMember} THEN Resolved(q, o, r) ELSE Ends(q)
                kept == {s \in Browser : Live(s) /\ session[s].org = o /\ session[s].role # r}
            IN  \/ /\ member' = [member EXCEPT ![o] = r]
                   /\ tainted' = tainted \cup kept
                   /\ browser' = Outdated(next, o, q)
                \/ /\ browser' = [next EXCEPT ![q].stale = (next[q].step = "issue")]
                   /\ UNCHANGED <<member, tainted>>
      BY <2>14 DEF JoinFromGroups
    <3> DEFINE next == IF browser[q].org \in {o, NotMember} THEN Resolved(q, o, r) ELSE Ends(q)
               kept == {s \in Browser : Live(s) /\ session[s].org = o /\ session[s].role # r}
    <3>2. next \in [Browser -> SoundRequest]
      BY <2>0, <3>0, RequestMoves
    <3>3. \A p \in Browser \ {q} : next[p] = browser[p]
      BY WhereRequestsGo
    <3>4. next[q].step = "ended" \/ (next[q].step = "issue" /\ next[q].org = o /\ next[q].role = r)
      <4>1. CASE next = Ends(q)
        BY <4>1, WhereRequestsGo
      <4>2. CASE next = Resolved(q, o, r)
        <5>1. next[q].step = "issue"
          <6>. HIDE DEF next
          <6>. QED BY <2>0, <3>0, <4>2 DEF Resolved, BrowserRequest
        <5>. QED BY <4>2, <5>1, WhereRequestsGo
      <4>. QED BY <4>1, <4>2
    <3>. HIDE DEF next, kept
    <3>5. CASE /\ browser' = [next EXCEPT ![q].stale = (next[q].step = "issue")]
               /\ UNCHANGED <<member, tainted>>
      <4>1. \A p \in Browser \ {q} : browser'[p] = browser[p]
        <5>1. \A p \in Browser \ {q} : browser'[p] = next[p]
          BY <3>2, <3>5
        <5>. QED BY <3>3, <5>1
      <4>2. browser'[q].step = next[q].step /\ browser'[q].stale = (next[q].step = "issue")
        <5>1. next[q] \in SoundRequest /\ (next[q].step = "issue") \in BOOLEAN
          BY <3>2
        <5>2. browser'[q] = [next[q] EXCEPT !.stale = (next[q].step = "issue")]
          BY <3>2, <3>5
        <5>. QED BY <5>1, <5>2, RequestMarked
      <4>3. Knows'
        <5>1. \A p \in Browser \ {q} :
                browser'[p].step \in {"read", "issue"} /\ ~browser'[p].stale
                  => member'[browser'[p].org] = browser'[p].role
          BY <3>5, <4>1 DEF Knows
        <5>2. ~(browser'[q].step \in {"read", "issue"} /\ ~browser'[q].stale)
          BY <3>4, <4>2
        <5>. QED BY <5>1, <5>2 DEF Knows
      <4>. QED BY <2>1, <3>0, <3>5, <4>3
    <3>6. CASE /\ member' = [member EXCEPT ![o] = r]
               /\ tainted' = tainted \cup kept
               /\ browser' = Outdated(next, o, q)
      <4>1. SessionIsMembership'
        <5>. SUFFICES ASSUME NEW s \in Browser, Live(s), s \notin tainted', session[s].org \notin pending
                      PROVE  session[s].role \in Roles /\ member'[session[s].org] = session[s].role
          BY <3>0 DEF SessionIsMembership, Live
        <5>1. s \notin tainted /\ s \notin kept
          BY <3>6
        <5>2. session[s].role \in Roles /\ member[session[s].org] = session[s].role
          BY <5>1 DEF SessionIsMembership
        <5>3. session[s].org = o => session[s].role = r
          BY <5>1 DEF kept
        <5>4. session[s].org \in Orgs
          BY <2>0, SMTT(30) DEF Live, SessionRow, NoSession
        <5>. QED BY <2>0, <3>6, <5>2, <5>3, <5>4
      <4>2. Knows'
        <5>. SUFFICES ASSUME NEW p \in Browser, browser'[p].step \in {"read", "issue"},
                             ~browser'[p].stale
                      PROVE  member'[browser'[p].org] = browser'[p].role
          BY DEF Knows
        <5>1. /\ browser'[p].step = next[p].step /\ browser'[p].org = next[p].org
              /\ browser'[p].role = next[p].role
              /\ ~next[p].stale /\ (p = q \/ next[p].org # o)
          <6> DEFINE marked == Outdated(next, o, q)
          <6>1. /\ marked[p].step = next[p].step /\ marked[p].org = next[p].org
                /\ marked[p].role = next[p].role
                /\ marked[p].stale =
                     (next[p].stale \/ (p # q /\ next[p].step \in {"read", "issue"} /\ next[p].org = o))
            BY <3>2, RequestsOutdated
          <6>2. browser' = marked
            BY <3>6
          <6>. HIDE DEF marked
          <6>. QED BY <6>1, <6>2
        <5>2. CASE p = q
          BY <2>0, <3>4, <3>6, <5>1, <5>2
        <5>3. CASE p # q
          <6>1. next[p] = browser[p]
            BY <3>3, <5>3, Zenon
          <6>2. /\ browser[p].step \in {"read", "issue"} /\ next[p] = browser[p]
                /\ browser[p].org # o /\ ~browser[p].stale
            BY <5>1, <5>3, <6>1
          <6>3. member[browser[p].org] = browser[p].role
            BY <6>2 DEF Knows
          <6>4. browser[p].org \in Orgs
            BY <2>0, <6>2 DEF SoundRequest
          <6>5. member'[browser[p].org] = member[browser[p].org]
            BY <2>0, <3>6, <6>2, <6>4
          <6>. QED BY <5>1, <6>3, <6>2, <6>5
        <5>. QED BY <5>2, <5>3
      <4>. QED BY <4>1, <4>2
    <3>. QED BY <3>1, <3>5, <3>6 DEF next, kept
  <2>. QED BY <2>3, <2>4, <2>5, <2>6, <2>7, <2>8, <2>9, <2>10, <2>11, <2>12, <2>13, <2>14
           DEF SessionNext, BrowserStep
<1>3. MemberInv => SessionIsMembership
  BY DEF MemberInv
<1>. QED BY <1>1, <1>2, <1>3, SessionInUseHolds, PTL DEF SessionSpec
=============================================================================
