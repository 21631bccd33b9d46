-------------------------- MODULE HypervisorProofs --------------------------
(***************************************************************************)
(* What the hypervisor guarantees about sessions and about the app API for *)
(* every number of requests, set of passwords, visors and connections.     *)
(* The theorems about users are stated twice: for the user manager alone   *)
(* (UsersSpec) and for the whole hypervisor (Spec), whose handlers finish  *)
(* the requests that Authorize let through.                                *)
(***************************************************************************)
EXTENDS Hypervisor, TLAPS

-----------------------------------------------------------------------------
(* Sessions                                                                *)

\* A cookie names an issued session, one that has expired is an issued one, and the
\* login that issued it is over: a session is opened once.
CookiesAreIssued ==
    /\ \A r \in Requests : req[r].sid \in issued \cup {NoCookie}
    /\ \A r \in Requests : req[r].at = "expire" => req[r].sid \in issued
    /\ \A r \in issued : req[r].at = "ok"

\* A login that has verified a password has verified the present one, with the
\* exceptions of SessionsFollowPassword; and so for a change about to be stored.
VerifiedIsCurrent ==
    /\ \A r \in Requests : req[r].at = "verified" =>
          req[r].pw = account \/ r \in late \/ \E q \in Requests : req[q].at = "set"
    /\ \A r \in Requests : req[r].at = "change" => req[r].pw \in Passwords
    /\ account = NoUser => sessions = {} /\ \A r \in Requests : req[r].at # "verified"

\* The session of a stale request has ended or expired; past the lookup in the map
\* it can only have expired.
StaleIsOver ==
    \A r \in Requests : req[r].stale =>
        /\ req[r].sid \in ended \cup expired
        /\ req[r].at \in {"user", "expire"} => req[r].sid \in expired

UsersInv ==
    /\ UsersTypeOK /\ CookiesAreIssued
    /\ VerifiedIsCurrent /\ SessionsFollowPassword
    /\ StaleIsOver /\ EndedSessionsStayEnded

\* Only the step of a request changes when it goes on.
LEMMA GotoEffect ==
    ASSUME req \in [Requests -> RequestType], NEW r \in Requests, NEW step \in Steps,
           Goto(r, step)
    PROVE  /\ req' \in [Requests -> RequestType]
           /\ req'[r].at = step
           /\ \A q \in Requests : q # r => req'[q].at = req[q].at
           /\ \A q \in Requests : /\ req'[q].sid = req[q].sid
                                  /\ req'[q].kind = req[q].kind
                                  /\ req'[q].pw = req[q].pw
                                  /\ req'[q].stale = req[q].stale
<1>1. req' = [req EXCEPT ![r] = [req[r] EXCEPT !.at = step]]
  BY DEF Goto
<1>2. req[r] \in RequestType /\ [req[r] EXCEPT !.at = step] \in RequestType
  BY DEF RequestType
<1>3. /\ [req[r] EXCEPT !.at = step].at = step
      /\ [req[r] EXCEPT !.at = step].sid = req[r].sid
      /\ [req[r] EXCEPT !.at = step].kind = req[r].kind
      /\ [req[r] EXCEPT !.at = step].pw = req[r].pw
      /\ [req[r] EXCEPT !.at = step].stale = req[r].stale
  BY <1>2 DEF RequestType
<1>4. QED
  BY <1>1, <1>2, <1>3

\* The user manager's steps, each under its own locks, keep the invariant.
LEMMA UsersStep ==
    ASSUME UsersInv, NEW r \in Requests,
           \/ UserStep(r) \/ Expire(r)
           \/ \E kind \in Kinds, sid \in issued \cup {NoCookie} : Arrive(r, kind, sid)
    PROVE  UsersInv'
<1> USE DEF UsersInv, UsersTypeOK, CookiesAreIssued, VerifiedIsCurrent, StaleIsOver,
            SessionsFollowPassword, EndedSessionsStayEnded, auxVars
<1>f. /\ \A q \in Requests : /\ req[q].at \in Steps /\ req[q].sid \in Requests \cup {NoCookie}
                             /\ req[q].pw \in Passwords \cup {NoUser}
                             /\ req[q].stale \in BOOLEAN
  BY DEF RequestType
<1>1. ASSUME NEW kind \in Kinds, NEW sid \in issued \cup {NoCookie}, Arrive(r, kind, sid)
      PROVE  UsersInv'
  <2> DEFINE over == sid \in ended \cup expired
             new == [req[r] EXCEPT !.kind = kind, !.at = First(kind), !.sid = sid,
                                   !.stale = over]
  <2>1. req' = [req EXCEPT ![r] = new] /\ req[r].at = "none"
    BY <1>1 DEF Arrive
  <2>2. /\ First(kind) \in {"session", "logout", "create"}
        /\ kind \in {"change", "info", "api"} => First(kind) = "session"
    BY DEF First
  <2>3. First(kind) \in Steps /\ kind \in Kinds \cup {"none"} /\ sid \in Requests \cup {NoCookie}
    BY <2>2 DEF Steps
  <2>4. over \in BOOLEAN /\ (over => sid \in ended \cup expired)
    OBVIOUS
  <2> HIDE DEF over
  <2>5. /\ new \in RequestType
        /\ new.at = First(kind) /\ new.sid = sid /\ new.kind = kind /\ new.stale = over
    <3>1. req[r] \in RequestType
      OBVIOUS
    <3>2. \A step \in Steps : [req[r] EXCEPT !.kind = kind, !.at = step, !.sid = sid,
                                            !.stale = over] \in RequestType
      BY <2>3, <2>4, <3>1 DEF RequestType
    <3>3. new.at = First(kind) /\ new.sid = sid /\ new.kind = kind /\ new.stale = over
      BY <3>1 DEF RequestType
    <3>4. QED
      BY <2>3, <3>2, <3>3
  <2> HIDE DEF new
  <2>6. /\ req' \in [Requests -> RequestType] /\ req'[r] = new
        /\ \A q \in Requests : q # r => req'[q] = req[q]
    BY <2>1, <2>5
  <2>7. r \notin issued
    BY <2>1
  <2>8. UNCHANGED <<account, sessions, expired, issued, restarts, proved, late, ended>>
    BY <1>1 DEF Arrive
  <2>9. UsersTypeOK' /\ CookiesAreIssued'
    BY <2>2, <2>5, <2>6, <2>7, <2>8
  <2>10. VerifiedIsCurrent' /\ SessionsFollowPassword'
    BY <2>1, <2>2, <2>5, <2>6, <2>8
  <2>11. StaleIsOver'
    BY <2>2, <2>4, <2>5, <2>6, <2>8
  <2>12. EndedSessionsStayEnded'
    BY <2>2, <2>5, <2>6, <2>8
  <2>13. QED
    BY <2>9, <2>10, <2>11, <2>12
<1>2. CASE Session(r)
  <2>1. PICK step \in {"user", "body", "refused"} :
           /\ Goto(r, step)
           /\ step = "user" => req[r].sid \in sessions
           /\ step = "body" => req[r].kind = "login"
    BY <1>2 DEF Session, NoSession
  <2>2. step \in Steps
    BY <2>1 DEF Steps, Final
  <2>3. QED
    BY <1>2, <2>1, <2>2, GotoEffect DEF Session
<1>3. CASE SessionUser(r)
  <2>1. /\ req' \in [Requests -> RequestType]
        /\ req'[r].at \in {"body", "refused", "expire", "authorized"}
        /\ req'[r].at = "expire" => req[r].sid \in expired
        /\ req'[r].at = "body" => req[r].kind = "login"
        /\ req'[r].at = "authorized" => req[r].sid \notin expired
        /\ req'[r].sid = req[r].sid /\ req'[r].kind = req[r].kind
        /\ req'[r].stale = req[r].stale
        /\ \A q \in Requests : q # r => req'[q] = req[q]
    BY <1>3 DEF SessionUser, NoSession, HasSession, RequestType, Steps, Final
  <2>2. QED
    BY <1>3, <2>1 DEF SessionUser
<1>4. CASE SessionExpired(r)
  <2>1. PICK step \in {"body", "refused"} :
           Goto(r, step) /\ (step = "body" => req[r].kind = "login")
    BY <1>4 DEF SessionExpired, NoSession
  <2>2. step \in Steps
    BY <2>1 DEF Steps, Final
  <2>3. QED
    BY <1>4, <1>f, <2>1, <2>2, GotoEffect DEF SessionExpired
<1>5. ASSUME NEW name \in Names, NEW pw \in Passwords \cup {BadFormat}, Login(r, name, pw)
      PROVE  UsersInv'
  <2>1. CASE VerifyPassword(account, pw) /\ name = Admin
    <3>1. /\ req' \in [Requests -> RequestType]
          /\ req'[r].at = "verified" /\ req'[r].pw = pw /\ req'[r].sid = req[r].sid
          /\ req'[r].kind = req[r].kind /\ req'[r].stale = req[r].stale
          /\ \A q \in Requests : q # r => req'[q] = req[q]
      BY <1>5, <2>1 DEF Login, VerifyPassword, RequestType, Steps
    <3>2. QED
      BY <1>5, <2>1, <3>1 DEF Login, VerifyPassword
  <2>2. CASE Goto(r, "refused")
    <3>1. "refused" \in Steps
      BY DEF Steps, Final
    <3>2. QED
      BY <1>5, <2>2, <3>1, GotoEffect DEF Login
  <2>3. QED
    BY <1>5, <2>1, <2>2 DEF Login
<1>6. ASSUME NEW name \in Names, NEW pw \in Passwords \cup {BadFormat},
             CreateAccount(r, name, pw)
      PROVE  UsersInv'
  <2>1. PICK step \in {"ok", "refused"} : Goto(r, step)
    BY <1>6 DEF CreateAccount
  <2>2. step \in Steps
    BY <2>1 DEF Steps, Final
  <2>3. (account' \in Passwords /\ account = NoUser) \/ account' = account
    BY <1>6 DEF CreateAccount, AddUser
  <2>4. QED
    BY <1>6, <2>1, <2>2, <2>3, GotoEffect, FormatAssumption DEF CreateAccount
<1>7. CASE NewSession(r)
  <2>1. Goto(r, "ok") /\ "ok" \in Steps
    BY <1>7 DEF NewSession, Steps, Final
  <2>2. r \notin issued /\ r \notin sessions /\ r \notin ended
    BY <1>7 DEF NewSession
  <2>3. QED
    BY <1>7, <1>f, <2>1, <2>2, GotoEffect DEF NewSession
<1>8. CASE Logout(r)
  <2>1. PICK step \in {"ok", "refused"} : Goto(r, step)
    BY <1>8 DEF Logout
  <2>2. step \in Steps
    BY <2>1 DEF Steps, Final
  <2>3. QED
    BY <1>8, <2>1, <2>2, GotoEffect DEF Logout, DelSession
<1>9. ASSUME NEW old \in Passwords, NEW new \in Passwords \cup {BadFormat},
             ChangePassword(r, old, new)
      PROVE  UsersInv'
  <2>1. CASE VerifyPassword(req[r].user, old) /\ new \in Passwords
    <3>1. /\ req' \in [Requests -> RequestType]
          /\ req'[r].at = "change" /\ req'[r].pw = new /\ req'[r].sid = req[r].sid
          /\ req'[r].kind = req[r].kind /\ req'[r].stale = req[r].stale
          /\ \A q \in Requests : q # r => req'[q] = req[q]
      BY <1>9, <2>1 DEF ChangePassword, RequestType, Steps
    <3>2. QED
      BY <1>9, <2>1, <3>1 DEF ChangePassword
  <2>2. CASE Goto(r, "refused")
    <3>1. "refused" \in Steps
      BY DEF Steps, Final
    <3>2. QED
      BY <1>9, <2>2, <3>1, GotoEffect DEF ChangePassword
  <2>3. QED
    BY <1>9, <2>1, <2>2 DEF ChangePassword
<1>10. CASE SetUser(r)
  <2>1. Goto(r, "set") /\ "set" \in Steps
    BY <1>10 DEF SetUser, Steps
  <2>2. QED
    BY <1>10, <2>1, GotoEffect, FormatAssumption DEF SetUser
<1>11. CASE DropSessions(r)
  <2>1. Goto(r, "ok") /\ "ok" \in Steps
    BY <1>11 DEF DropSessions, Steps, Final
  <2>2. QED
    BY <1>11, <2>1, GotoEffect DEF DropSessions
<1>12. CASE UserInfo(r)
  <2>1. Goto(r, "ok") /\ "ok" \in Steps
    BY <1>12 DEF UserInfo, Steps, Final
  <2>2. QED
    BY <1>12, <2>1, GotoEffect DEF UserInfo
<1>13. CASE Expire(r)
  BY <1>13 DEF Expire
<1>14. QED
  BY <1>1, <1>2, <1>3, <1>4, <1>5, <1>6, <1>7, <1>8, <1>9, <1>10, <1>11, <1>12, <1>13
  DEF UserStep

\* A restart ends every session and loses the requests under way.
LEMMA RestartStep ==
    ASSUME UsersInv, RestartUsers
    PROVE  UsersInv'
<1> USE DEF UsersInv, UsersTypeOK, CookiesAreIssued, VerifiedIsCurrent, StaleIsOver,
            SessionsFollowPassword, EndedSessionsStayEnded
<1> DEFINE gone(q) == [req[q] EXCEPT !.at = "lost"]
<1>a. \A q \in Requests :
         /\ gone(q) \in RequestType /\ gone(q).at = "lost" /\ gone(q).sid = req[q].sid
         /\ gone(q).stale = req[q].stale /\ gone(q).kind = req[q].kind
  BY DEF RequestType, Steps, Final
<1>b. req' = [q \in Requests |-> IF req[q].at \in {"none"} \cup Final THEN req[q] ELSE gone(q)]
  BY DEF RestartUsers
<1> HIDE DEF gone
<1>1. /\ req' \in [Requests -> RequestType]
      /\ \A q \in Requests : /\ req'[q].at \in {"none", "lost"} \cup Final
                             /\ req'[q].at = req[q].at \/ req'[q].at = "lost"
                             /\ req[q].at = "ok" => req'[q].at = "ok"
                             /\ req'[q].sid = req[q].sid /\ req'[q].stale = req[q].stale
                             /\ req'[q].kind = req[q].kind
  BY <1>a, <1>b DEF Final
<1>2. restarts' \in 0..MaxRestarts
  BY UsersAssumption DEF RestartUsers
<1>3. QED
  BY <1>1, <1>2 DEF RestartUsers, Final

\* Steps of the others leave the users alone.
LEMMA UsersStutter ==
    ASSUME UsersInv, UNCHANGED userVars
    PROVE  UsersInv'
  BY DEF userVars, UsersInv, UsersTypeOK, CookiesAreIssued, VerifiedIsCurrent,
         SessionsFollowPassword, StaleIsOver, EndedSessionsStayEnded

\* There are no sessions and no requests at first.
LEMMA UsersInitially == UsersInit => UsersInv
<1> SUFFICES ASSUME UsersInit PROVE UsersInv
  OBVIOUS
<1>1. req \in [Requests -> RequestType]
  BY DEF UsersInit, RequestType, Kinds, Steps, Final
<1>2. \A r \in Requests : req[r].at = "none" /\ req[r].sid = NoCookie /\ ~req[r].stale
  BY DEF UsersInit
<1>3. /\ account \in Passwords \cup {NoUser} /\ restarts = 0
      /\ sessions = {} /\ expired = {} /\ issued = {} /\ late = {} /\ ended = {}
      /\ proved \in [Requests -> Passwords \cup {NoUser}]
  BY DEF UsersInit
<1>4. UsersTypeOK
  BY <1>1, <1>3, UsersAssumption DEF UsersTypeOK
<1>5. QED
  BY <1>2, <1>3, <1>4 DEF UsersInv, CookiesAreIssued, VerifiedIsCurrent,
                          SessionsFollowPassword, StaleIsOver, EndedSessionsStayEnded

\* Users: the invariant of all behaviours of the user manager.
LEMMA UsersInvariant == UsersSpec => []UsersInv
<1>1. UsersInit => UsersInv
  BY UsersInitially
<1>2. UsersInv /\ [UsersNext]_userVars => UsersInv'
  <2> SUFFICES ASSUME UsersInv, [UsersNext]_userVars PROVE UsersInv'
    OBVIOUS
  <2>1. CASE UNCHANGED userVars
    BY <2>1, UsersStutter
  <2>2. CASE RestartUsers
    BY <2>2, RestartStep
  <2>3. QED
    BY <2>1, <2>2, UsersStep DEF UsersNext
<1>3. QED
  BY <1>1, <1>2, PTL DEF UsersSpec

\* Whatever requests overlap, a session in the map was opened with the password the
\* account has now, with the two exceptions SessionsFollowPassword names (Login verifies
\* and opens in two steps, ChangePassword stores and drops in two steps).
THEOREM SessionsTheorem == UsersSpec => []SessionsFollowPassword
  BY UsersInvariant, PTL DEF UsersInv

\* A request with the cookie of a session that was over when it arrived is never let
\* through by session(), and no handler puts an ended session back into the map.
THEOREM EndedTheorem == UsersSpec => []EndedSessionsStayEnded
  BY UsersInvariant, PTL DEF UsersInv

-----------------------------------------------------------------------------
(* The app API                                                             *)

\* A handler runs for a request that was let through, and no other; it calls over a
\* connection that was registered.
HandlersRun ==
    \A r \in Requests :
        /\ h[r].op # "none" => req[r].at = "handler"
        /\ h[r].at \in {"called", "ranged", "served", "failed", "stuck"} => h[r].conn \in Conns
        /\ \A v \in h[r].left : nodes[v] # NoConn
        /\ (h[r].rpc = "SetAutoStart" /\ h[r].at \in {"called", "ranged"})
              => h[r].auto # "keep"

\* How far a PUT of an app is, and what has been seen of the app since its first call.
PutProgress(r) ==
    h[r].op = "putApp" =>
        /\ h[r].at \in {"called", "served", "failed", "stuck"}
        /\ h[r].rpc \in {"Apps", "SetAutoStart", "StartApp", "StopApp"}
        /\ (h[r].rpc # "Apps" \/ h[r].at = "served") => seen[r] # {}
        /\ (h[r].rpc = "Apps" /\ h[r].at = "served") => h[r].app \in seen[r]
        /\ (\/ h[r].rpc \in {"StartApp", "StopApp"}
            \/ h[r].rpc = "SetAutoStart" /\ h[r].at = "served")
           => h[r].auto = "keep" \/ h[r].auto \in seen[r]
        /\ h[r].rpc = "StartApp" => h[r].status = "start"
        /\ h[r].rpc = "StopApp" => h[r].status = "stop"
        /\ (h[r].rpc = "StartApp" /\ h[r].at = "served") => "running" \in seen[r]
        /\ (h[r].rpc = "StopApp" /\ h[r].at = "served")
              => seen[r] \cap {"stopping", "nodir"} # {}

HyperTypes ==
    /\ nodes \in [Visors -> Conns \cup {NoConn}]
    /\ conn \in [Conns -> [visor : Visors, st : {"none", "open", "hung", "dead"}]]
    /\ accepting \in Conns \cup {NoConn}
    /\ h \in [Requests -> HandlerType]
    /\ vis \in [Visors -> VisorType]
    /\ seen \in [Requests -> SUBSET ({"on", "off"} \cup AppStates)]

HyperInv == UsersInv /\ HyperTypes /\ HandlersRun /\ \A r \in Requests : PutProgress(r)

\* The request of a handler moves on, and no session does.
LEMMA HandlerStep ==
    ASSUME UsersInv, NEW r \in Requests, NEW step \in {"handler", "ok", "refused"},
           req[r].at \in {"authorized", "handler"}, Goto(r, step), UsersIdle
    PROVE  UsersInv' /\ req'[r].at = step /\ \A q \in Requests : q # r => req'[q].at = req[q].at
<1>1. step \in Steps
  BY DEF Steps, Final
<1>2. /\ req' \in [Requests -> RequestType]
      /\ req'[r].at = step
      /\ \A q \in Requests : q # r => req'[q].at = req[q].at
      /\ \A q \in Requests : /\ req'[q].sid = req[q].sid
                             /\ req'[q].kind = req[q].kind
                             /\ req'[q].pw = req[q].pw
                             /\ req'[q].stale = req[q].stale
  BY <1>1, GotoEffect DEF UsersInv, UsersTypeOK
<1>3. QED
  BY <1>2 DEF UsersIdle, auxVars, UsersInv, UsersTypeOK, CookiesAreIssued, VerifiedIsCurrent,
              StaleIsOver, SessionsFollowPassword, EndedSessionsStayEnded

\* What a PUT has seen of its app is not forgotten by the steps of others.
LEMMA PutFrame ==
    ASSUME NEW q \in Requests, PutProgress(q), h'[q] = h[q], seen[q] \subseteq seen'[q]
    PROVE  PutProgress(q)'
  BY DEF PutProgress

\* A step of one handler: what has to be shown about it alone.
LEMMA HandlerMoves ==
    ASSUME HyperInv, NEW r \in Requests, NEW n \in HandlerType, h' = [h EXCEPT ![r] = n],
           n.op # "none" => req'[r].at = "handler",
           n.at \in {"called", "ranged", "served", "failed", "stuck"} => n.conn \in Conns,
           \A v \in n.left : nodes[v] # NoConn,
           n.rpc = "SetAutoStart" /\ n.at \in {"called", "ranged"} => n.auto # "keep",
           UsersInv', \A q \in Requests \ {r} : req'[q].at = req[q].at,
           vis' \in [Visors -> VisorType], UNCHANGED <<nodes, conn, accepting>>,
           seen' \in [Requests -> SUBSET ({"on", "off"} \cup AppStates)],
           \A q \in Requests \ {r} : seen[q] \subseteq seen'[q],
           PutProgress(r)'
    PROVE  HyperInv'
<1>1. /\ h' \in [Requests -> HandlerType] /\ h'[r] = n
      /\ \A q \in Requests \ {r} : h'[q] = h[q]
  BY DEF HyperInv, HyperTypes
<1>2. HyperTypes'
  BY <1>1 DEF HyperInv, HyperTypes
<1>3. HandlersRun'
  BY <1>1 DEF HyperInv, HandlersRun
<1>4. \A q \in Requests \ {r} : PutProgress(q)'
  BY <1>1, PutFrame DEF HyperInv
<1>5. QED
  BY <1>2, <1>3, <1>4 DEF HyperInv

\* A handler that answers is over, and so is its request.
LEMMA AnswerStep ==
    ASSUME HyperInv, NEW r \in Requests, NEW status \in {"ok", "refused"},
           req[r].at \in {"authorized", "handler"}, Answer(r, status), UsersIdle,
           UNCHANGED <<nodes, conn, accepting, vis>>
    PROVE  HyperInv'
<1>1. Idle \in HandlerType
  BY DEF Idle, HandlerType, RPCs
<1>2. Idle.op = "none" /\ Idle.at = "none" /\ Idle.left = {} /\ Idle.rpc = "read"
  BY DEF Idle
<1>3. UsersInv' /\ \A q \in Requests \ {r} : req'[q].at = req[q].at
  BY HandlerStep DEF Answer, HyperInv
<1>4. h' = [h EXCEPT ![r] = Idle] /\ h'[r] = Idle
  BY DEF Answer, HyperInv, HyperTypes
<1>5. /\ seen' \in [Requests -> SUBSET ({"on", "off"} \cup AppStates)]
      /\ \A q \in Requests \ {r} : seen[q] \subseteq seen'[q]
  BY DEF Answer, HyperInv, HyperTypes
<1>6. PutProgress(r)'
  BY <1>2, <1>4 DEF PutProgress
<1>7. vis' \in [Visors -> VisorType]
  BY DEF HyperInv, HyperTypes
<1>8. QED
  BY <1>1, <1>2, <1>3, <1>4, <1>5, <1>6, <1>7, HandlerMoves

\* What the RPC service of a visor does to its state.
LEMMA OutcomeFacts ==
    ASSUME NEW x \in VisorType, NEW rpc \in RPCs \cup LocalRPCs, NEW auto \in {"on", "off", "keep"},
           rpc = "SetAutoStart" => auto # "keep",
           NEW o \in Outcomes(rpc, x, auto)
    PROVE  /\ o.vis \in VisorType /\ o.at \in {"served", "failed", "stuck"}
           /\ rpc = "StartApp" /\ o.at = "served" => o.vis.app = "running"
           /\ rpc = "StopApp" /\ o.at = "served" => o.vis.app \in {"stopping", "nodir"}
           /\ rpc = "SetAutoStart" => o.vis.autostart = auto
<1>1. \A y, at : Outcome(y, at).vis = y /\ Outcome(y, at).at = at
  BY DEF Outcome
<1>2. \A a \in AppStates : To(x, a) \in VisorType /\ To(x, a).app = a
  BY DEF VisorType, To
<1>3. \A a \in {"on", "off"} :
         [x EXCEPT !.autostart = a] \in VisorType /\ [x EXCEPT !.autostart = a].autostart = a
  BY DEF VisorType
<1>4. \A k \in SUBSET {"app", "fwd"} : [x EXCEPT !.rules = k] \in VisorType
  BY DEF VisorType
<1>5. CASE rpc = "StartApp"
  <2>1. PICK y \in VisorType, at \in {"served", "stuck"} :
           o = Outcome(y, at) /\ (at = "served" => y.app = "running")
    <3>1. \/ o = Outcome(To(x, "running"), "served")
          \/ o = Outcome(x, "stuck") \/ o = Outcome(To(x, "nodir"), "stuck")
      BY <1>5 DEF Outcomes, StartApp
    <3>2. "running" \in AppStates /\ "nodir" \in AppStates
      BY DEF AppStates
    <3>3. "served" # "stuck"
      OBVIOUS
    <3>4. QED
      BY <1>2, <3>1, <3>2, <3>3, Zenon
  <2>2. o.vis = y /\ o.at = at
    BY <1>1, <2>1, Zenon
  <2>3. QED
    BY <1>5, <2>1, <2>2
<1>6. CASE rpc = "StopApp"
  <2>1. PICK y \in VisorType, at \in {"served", "failed"} :
           o = Outcome(y, at) /\ (at = "served" => y.app \in {"stopping", "nodir"})
    <3>1. \/ o = Outcome(x, "failed")
          \/ \E a \in {"stopping", "nodir"}, at \in {"served", "failed"} : o = Outcome(To(x, a), at)
      BY <1>6 DEF Outcomes, StopApp
    <3>2. {"stopping", "nodir"} \subseteq AppStates
      BY DEF AppStates
    <3>3. "served" # "failed"
      OBVIOUS
    <3>4. QED
      BY <1>2, <3>1, <3>2, <3>3, Zenon
  <2>2. o.vis = y /\ o.at = at
    BY <1>1, <2>1, Zenon
  <2>3. QED
    BY <1>6, <2>1, <2>2
<1>7. CASE rpc = "SetAutoStart"
  <2>1. PICK y \in VisorType : o = Outcome(y, "served") /\ y.autostart = auto
    <3>1. o = Outcome([x EXCEPT !.autostart = auto], "served")
      BY <1>7 DEF Outcomes, SetAutoStart
    <3>2. QED
      BY <1>3, <1>7, <3>1, Zenon
  <2>2. o.vis = y /\ o.at = "served"
    BY <1>1, <2>1, Zenon
  <2>3. QED
    BY <1>7, <2>1, <2>2
<1>8. CASE rpc \in {"AddRoutingRule", "SetRoutingRule", "RemoveRoutingRule"}
  <2>1. x.rules \in SUBSET {"app", "fwd"}
    BY DEF VisorType
  <2>2. PICK k \in SUBSET {"app", "fwd"} : o = Outcome([x EXCEPT !.rules = k], "served")
    <3>1. CASE rpc = "AddRoutingRule"
      <4>1. Outcomes(rpc, x, auto) = AddRoutingRule(x)
        BY <3>1 DEF Outcomes
      <4>2. PICK k \in {"app", "fwd"} : o = Outcome([x EXCEPT !.rules = x.rules \cup {k}], "served")
        BY <4>1, Zenon DEF AddRoutingRule
      <4>3. x.rules \cup {k} \in SUBSET {"app", "fwd"}
        BY <2>1
      <4>4. QED
        BY <4>2, <4>3
    <3>2. CASE rpc = "SetRoutingRule"
      <4>1. Outcomes(rpc, x, auto) = SetRoutingRule(x)
        BY <3>2 DEF Outcomes
      <4>2. PICK k \in Replaced(x.rules) : o = Outcome([x EXCEPT !.rules = k], "served")
        BY <4>1, Zenon DEF SetRoutingRule
      <4>3. k \in SUBSET {"app", "fwd"}
        BY <2>1 DEF Replaced
      <4>4. QED
        BY <4>2, <4>3
    <3>3. CASE rpc = "RemoveRoutingRule"
      <4>1. Outcomes(rpc, x, auto) = RemoveRoutingRule(x)
        BY <3>3 DEF Outcomes
      <4>2. PICK k \in {"app", "fwd"} : o = Outcome([x EXCEPT !.rules = x.rules \ {k}], "served")
        BY <4>1, Zenon DEF RemoveRoutingRule
      <4>3. x.rules \ {k} \in SUBSET {"app", "fwd"}
        BY <2>1
      <4>4. QED
        BY <4>2, <4>3
    <3>4. QED
      BY <1>8, <3>1, <3>2, <3>3
  <2>3. o.vis = [x EXCEPT !.rules = k] /\ o.at = "served"
    BY <1>1, <2>2, Zenon
  <2>4. o.vis \in VisorType
    BY <1>4, <2>2, <2>3, Zenon
  <2>5. QED
    BY <1>8, <2>3, <2>4, Zenon
<1>9. CASE rpc \in {"AddTransport", "Exec", "read", "Health", "Summary", "Apps", "Loops"}
  <2>1. PICK at \in {"served", "failed", "stuck"} : o = Outcome(x, at)
    BY <1>9 DEF Outcomes, AddTransport, Exec, ReadRPC
  <2>2. o.vis = x /\ o.at = at
    BY <1>1, <2>1, Zenon
  <2>3. QED
    BY <1>9, <2>1, <2>2
<1>10. QED
  BY <1>5, <1>6, <1>7, <1>8, <1>9 DEF RPCs, LocalRPCs

\* What a call shows of the app is noted for every PUT that watches that visor.
LEMMA WatchFacts ==
    ASSUME HyperTypes, NEW v, NEW x \in VisorType, Watch(v, x)
    PROVE  /\ seen' \in [Requests -> SUBSET ({"on", "off"} \cup AppStates)]
           /\ \A q \in Requests : seen[q] \subseteq seen'[q]
           /\ \A q \in Requests : seen[q] # {} /\ conn[h[q].conn].visor = v
                                   => /\ x.autostart \in seen'[q]
                                      /\ x.app # "stopped" => x.app \in seen'[q]
  BY DEF HyperTypes, Watch, Facts, VisorType, AppStates

\* The fields of a handler that the proofs below read.
LEMMA HandlerFields ==
    ASSUME HyperInv, NEW r \in Requests
    PROVE  /\ h[r] \in HandlerType
           /\ h[r].op \in Handlers \cup {"none", "getNodes"}
           /\ h[r].at \in {"none", "ready", "called", "ranged", "served", "failed", "stuck"}
           /\ h[r].rpc \in RPCs /\ h[r].conn \in Conns \cup {NoConn} /\ h[r].left \subseteq Visors
           /\ h[r].app \in {"on", "off"} /\ h[r].auto \in {"on", "off", "keep"}
           /\ h[r].status \in {"start", "stop", "other", "keep"}
           /\ h[r].op # "none" => req[r].at = "handler"
           /\ h[r].at \in {"called", "ranged", "served", "failed", "stuck"} => h[r].conn \in Conns
           /\ \A v \in h[r].left : nodes[v] # NoConn
           /\ h[r].rpc = "SetAutoStart" /\ h[r].at \in {"called", "ranged"} => h[r].auto # "keep"
           /\ PutProgress(r)
<1>1. h[r] \in HandlerType
  BY DEF HyperInv, HyperTypes
<1>2. QED
  BY <1>1 DEF HyperInv, HandlersRun, HandlerType

\* A handler calls the visor it has called before.
LEMMA CallStep ==
    ASSUME HyperInv, NEW r \in Requests, req[r].at = "handler", h[r].at = "served",
           NEW rpc \in RPCs \ {"Apps", "SetAutoStart"}, Call(r, rpc),
           UNCHANGED <<userVars, nodes, conn, accepting, vis, seen>>,
           h[r].op = "putApp" => /\ h[r].rpc = "SetAutoStart"
                                 /\ rpc \in {"StartApp", "StopApp"}
                                 /\ rpc = "StartApp" => h[r].status = "start"
                                 /\ rpc = "StopApp" => h[r].status = "stop"
    PROVE  HyperInv'
<1> DEFINE n == [h[r] EXCEPT !.at = "called", !.rpc = rpc]
<1>1. /\ n \in HandlerType /\ n.at = "called" /\ n.rpc = rpc /\ n.op = h[r].op
      /\ n.conn = h[r].conn /\ n.left = h[r].left /\ n.auto = h[r].auto
      /\ n.status = h[r].status /\ n.app = h[r].app
  BY HandlerFields DEF HandlerType
<1>2. h' = [h EXCEPT ![r] = n]
  BY DEF Call
<1> HIDE DEF n
<1>3. h'[r] = n
  BY <1>2 DEF HyperInv, HyperTypes
<1>4. UsersInv' /\ req' = req
  BY UsersStutter DEF HyperInv, userVars
<1>5. PutProgress(r)'
  BY <1>1, <1>3, HandlerFields DEF PutProgress
<1>6. vis' \in [Visors -> VisorType] /\ seen' \in [Requests -> SUBSET ({"on", "off"} \cup AppStates)]
  BY DEF HyperInv, HyperTypes
<1>7. QED
  BY <1>1, <1>2, <1>4, <1>5, <1>6, HandlerFields, HandlerMoves

\* A call ends, in an answer or an error, or begins to read the rules: only putApp's
\* progress depends on it.
LEMMA ReturnStep ==
    ASSUME HyperInv, NEW r \in Requests, NEW at \in {"ranged", "served", "failed"},
           NEW rules \in BOOLEAN, h[r].at \in {"called", "ranged", "served", "stuck"},
           h' = [h EXCEPT ![r] = [h[r] EXCEPT !.at = at, !.rules = rules]],
           at = "failed" \/ h[r].rpc = "Loops" \/ h[r].at = "ranged",
           UNCHANGED <<userVars, nodes, conn, accepting, vis, seen>>
    PROVE  HyperInv'
<1> DEFINE n == [h[r] EXCEPT !.at = at, !.rules = rules]
<1>1. /\ n \in HandlerType /\ n.at = at /\ n.rpc = h[r].rpc /\ n.op = h[r].op
      /\ n.conn = h[r].conn /\ n.left = h[r].left /\ n.auto = h[r].auto
      /\ n.status = h[r].status /\ n.app = h[r].app
  BY HandlerFields DEF HandlerType
<1>2. h' = [h EXCEPT ![r] = n]
  OBVIOUS
<1> HIDE DEF n
<1>3. h'[r] = n
  BY <1>2 DEF HyperInv, HyperTypes
<1>4. UsersInv' /\ req' = req
  BY UsersStutter DEF HyperInv, userVars
<1>5. PutProgress(r)'
  <2>1. PutProgress(r) /\ (h[r].op = "putApp" => at = "failed")
    BY HandlerFields DEF PutProgress
  <2>2. QED
    BY <1>1, <1>3, <2>1 DEF PutProgress
<1>6. vis' \in [Visors -> VisorType] /\ seen' \in [Requests -> SUBSET ({"on", "off"} \cup AppStates)]
  BY DEF HyperInv, HyperTypes
<1>7. /\ n.op # "none" => req'[r].at = "handler"
      /\ n.at \in {"called", "ranged", "served", "failed", "stuck"} => n.conn \in Conns
      /\ \A u \in n.left : nodes[u] # NoConn
      /\ n.rpc = "SetAutoStart" /\ n.at \in {"called", "ranged"} => n.auto # "keep"
  BY <1>1, <1>4, HandlerFields
<1>8. QED
  BY <1>1, <1>2, <1>4, <1>5, <1>6, <1>7, HandlerMoves

\* The visor's execution of a call leaves in seen what a PUT has asked for.
LEMMA ServeStep ==
    ASSUME HyperInv, NEW r \in Requests, Serve(r)
    PROVE  HyperInv'
<1> DEFINE v == conn[h[r].conn].visor
<1>1. /\ h[r].at \in {"called", "ranged"} /\ req[r].at = "handler" /\ h[r].conn \in Conns
      /\ UNCHANGED <<userVars, nodes, conn, accepting>>
  BY HandlerFields DEF Serve, Pending
<1>2. v \in Visors /\ vis[v] \in VisorType
  BY <1>1 DEF HyperInv, HyperTypes
<1>3. PICK o \in Outcomes(h[r].rpc, vis[v], h[r].auto) :
         /\ vis' = [vis EXCEPT ![v] = o.vis]
         /\ h' = [h EXCEPT ![r] = [h[r] EXCEPT
                    !.at = o.at,
                    !.app = IF h[r].rpc = "Apps" THEN o.vis.autostart ELSE h[r].app]]
         /\ IF h[r].rpc = "Apps" /\ h[r].op = "putApp"
            THEN seen' = [seen EXCEPT ![r] = Facts(o.vis)]
            ELSE Watch(v, o.vis)
  BY DEF Serve
<1> HIDE DEF v
<1>4. /\ o.vis \in VisorType /\ o.at \in {"served", "failed", "stuck"}
      /\ h[r].rpc = "StartApp" /\ o.at = "served" => o.vis.app = "running"
      /\ h[r].rpc = "StopApp" /\ o.at = "served" => o.vis.app \in {"stopping", "nodir"}
      /\ h[r].rpc = "SetAutoStart" => o.vis.autostart = h[r].auto
  BY <1>1, <1>2, HandlerFields, OutcomeFacts
<1> DEFINE at == o.at
           app == IF h[r].rpc = "Apps" THEN o.vis.autostart ELSE h[r].app
           n == [h[r] EXCEPT !.at = at, !.app = app]
<1>5. /\ at \in {"served", "failed", "stuck"} /\ at = o.at
      /\ app \in {"on", "off"} /\ (h[r].rpc = "Apps" => app = o.vis.autostart)
  BY <1>4, HandlerFields DEF VisorType
<1>6. h' = [h EXCEPT ![r] = n]
  BY <1>3
<1> HIDE DEF at, app
<1>7. /\ n \in HandlerType /\ n.at = at /\ n.rpc = h[r].rpc /\ n.op = h[r].op
      /\ n.conn = h[r].conn /\ n.left = h[r].left /\ n.auto = h[r].auto
      /\ n.status = h[r].status /\ n.app = app
  BY <1>5, HandlerFields DEF HandlerType
<1> HIDE DEF n
<1>8. h'[r] = n
  BY <1>6 DEF HyperInv, HyperTypes
<1>9. UsersInv' /\ req' = req
  BY <1>1, UsersStutter DEF HyperInv, userVars
<1>10. vis' \in [Visors -> VisorType]
  BY <1>2, <1>3, <1>4 DEF HyperInv, HyperTypes
<1>11. /\ seen' \in [Requests -> SUBSET ({"on", "off"} \cup AppStates)]
       /\ \A q \in Requests \ {r} : seen[q] \subseteq seen'[q]
       /\ h[r].op = "putApp" =>
             /\ seen'[r] # {} /\ o.vis.autostart \in seen'[r]
             /\ o.vis.app # "stopped" => o.vis.app \in seen'[r]
             /\ h[r].rpc # "Apps" => seen[r] \subseteq seen'[r]
  <2>1. CASE h[r].rpc = "Apps" /\ h[r].op = "putApp"
    <3>1. seen' = [seen EXCEPT ![r] = Facts(o.vis)]
      BY <1>3, <2>1
    <3>2. QED
      BY <1>4, <2>1, <3>1 DEF Facts, VisorType, AppStates, HyperInv, HyperTypes
  <2>2. CASE ~(h[r].rpc = "Apps" /\ h[r].op = "putApp")
    <3>1. HyperTypes /\ Watch(v, o.vis)
      BY <1>3, <2>2 DEF HyperInv
    <3>2. h[r].op = "putApp" => seen[r] # {}
      BY <2>2, HandlerFields DEF PutProgress
    <3>3. QED
      BY <1>4, <2>2, <3>1, <3>2, WatchFacts DEF v
  <2>3. QED
    BY <2>1, <2>2
<1>12. PutProgress(r)'
  <2>1. PutProgress(r)
    BY HandlerFields
  <2>2. QED
    BY <1>1, <1>4, <1>5, <1>7, <1>8, <1>11, <2>1 DEF PutProgress
<1>13. /\ n.op # "none" => req'[r].at = "handler"
       /\ n.at \in {"called", "ranged", "served", "failed", "stuck"} => n.conn \in Conns
       /\ \A u \in n.left : nodes[u] # NoConn
       /\ n.rpc = "SetAutoStart" /\ n.at \in {"called", "ranged"} => n.auto # "keep"
  BY <1>1, <1>5, <1>7, <1>9, HandlerFields
<1>14. QED
  BY <1>1, <1>6, <1>7, <1>9, <1>10, <1>11, <1>12, <1>13, HandlerMoves

\* Every step of a handler keeps the invariant.
LEMMA HandleStep ==
    ASSUME HyperInv, NEW r \in Requests, Handle(r)
    PROVE  HyperInv'
<1>1. ASSUME NEW op \in Used, NEW v \in Visors, NodeCtx(r, op, v)
      PROVE  HyperInv'
  <2>1. CASE nodes[v] = NoConn /\ Answer(r, "refused")
    BY <1>1, <2>1, AnswerStep DEF NodeCtx
  <2>2. CASE nodes[v] # NoConn /\ Goto(r, "handler")
    <3> DEFINE n == [h[r] EXCEPT !.op = op, !.conn = nodes[v], !.at = "called",
                                 !.rpc = FirstRPC(op)]
    <3>1. nodes[v] \in Conns
      BY <2>2 DEF HyperInv, HyperTypes
    <3>2. /\ FirstRPC(op) \in RPCs \ {"SetAutoStart", "StartApp", "StopApp"}
          /\ op = "putApp" => FirstRPC(op) = "Apps"
      BY DEF FirstRPC, RPCs, AppHandlers
    <3>3. op \in Handlers
      BY HypervisorAssumption
    <3>4. h' = [h EXCEPT ![r] = n]
      BY <1>1, <2>2 DEF NodeCtx
    <3>5. /\ n \in HandlerType /\ n.op = op /\ n.at = "called" /\ n.rpc = FirstRPC(op)
          /\ n.conn = nodes[v] /\ n.left = h[r].left
      BY <3>1, <3>2, <3>3, HandlerFields DEF HandlerType
    <3> HIDE DEF n
    <3>6. h'[r] = n
      BY <3>4 DEF HyperInv, HyperTypes
    <3>7. /\ UsersInv' /\ req'[r].at = "handler"
          /\ \A q \in Requests : q # r => req'[q].at = req[q].at
      BY <1>1, <2>2, HandlerStep DEF NodeCtx, HyperInv
    <3>8. PutProgress(r)'
      BY <3>2, <3>5, <3>6 DEF PutProgress
    <3>9. UNCHANGED <<nodes, conn, accepting, vis, seen>>
      BY <1>1, <2>2 DEF NodeCtx
    <3>10. vis' \in [Visors -> VisorType] /\ seen' \in [Requests -> SUBSET ({"on", "off"} \cup AppStates)]
      BY <3>9 DEF HyperInv, HyperTypes
    <3>11. /\ \A u \in n.left : nodes[u] # NoConn
           /\ n.at \in {"called", "ranged", "served", "failed", "stuck"} => n.conn \in Conns
           /\ n.rpc # "SetAutoStart"
      BY <3>1, <3>2, <3>5, HandlerFields
    <3>12. QED
      BY <3>4, <3>5, <3>7, <3>8, <3>9, <3>10, <3>11, HandlerMoves
  <2>3. QED
    BY <1>1, <2>1, <2>2 DEF NodeCtx
<1>2. CASE BadRequest(r)
  BY <1>2, HandlerFields, AnswerStep DEF BadRequest
<1>3. CASE GetNodes(r)
  <2> DEFINE S == {v \in Visors : nodes[v] # NoConn}
             n == [h[r] EXCEPT !.op = "getNodes", !.at = "ready", !.left = S]
  <2>1. h' = [h EXCEPT ![r] = n]
    BY <1>3 DEF GetNodes
  <2>2. S \subseteq Visors /\ \A v \in S : nodes[v] # NoConn
    OBVIOUS
  <2> HIDE DEF S
  <2>3. /\ n \in HandlerType /\ n.op = "getNodes" /\ n.at = "ready" /\ n.left = S
    BY <2>2, HandlerFields DEF HandlerType
  <2> HIDE DEF n
  <2>4. h'[r] = n
    BY <2>1 DEF HyperInv, HyperTypes
  <2>5. /\ UsersInv' /\ req'[r].at = "handler"
        /\ \A q \in Requests : q # r => req'[q].at = req[q].at
    BY <1>3, HandlerStep DEF GetNodes, HyperInv
  <2>6. PutProgress(r)'
    BY <2>3, <2>4 DEF PutProgress
  <2>7. UNCHANGED <<nodes, conn, accepting, vis, seen>>
    BY <1>3 DEF GetNodes
  <2>8. vis' \in [Visors -> VisorType] /\ seen' \in [Requests -> SUBSET ({"on", "off"} \cup AppStates)]
    BY <2>7 DEF HyperInv, HyperTypes
  <2>9. QED
    BY <2>1, <2>2, <2>3, <2>5, <2>6, <2>7, <2>8, HandlerMoves
<1>4. CASE SummariseNext(r)
  <2>1. ASSUME NEW v \in h[r].left,
               h' = [h EXCEPT ![r].left = @ \ {v}, ![r].conn = nodes[v], ![r].at = "called",
                              ![r].rpc = "Summary"],
               UNCHANGED <<req, readers, seen>>
        PROVE  HyperInv'
    <3> DEFINE n == [h[r] EXCEPT !.left = h[r].left \ {v}, !.conn = nodes[v],
                                 !.at = "called", !.rpc = "Summary"]
    <3>1. nodes[v] \in Conns
      BY HandlerFields DEF HyperInv, HyperTypes
    <3>2. h' = [h EXCEPT ![r] = n]
      BY <2>1
    <3>3. /\ n \in HandlerType /\ n.op = h[r].op /\ n.at = "called" /\ n.rpc = "Summary"
          /\ n.conn = nodes[v] /\ n.left \subseteq h[r].left
      BY <3>1, HandlerFields DEF HandlerType, RPCs
    <3> HIDE DEF n
    <3>4. h'[r] = n
      BY <3>2 DEF HyperInv, HyperTypes
    <3>5. UNCHANGED <<nodes, conn, accepting, vis, seen, userVars>>
      BY <1>4, <2>1 DEF SummariseNext, UsersIdle, userVars, auxVars
    <3>6. UsersInv' /\ req' = req
      BY <3>5, UsersStutter DEF HyperInv, userVars
    <3>7. PutProgress(r)'
      BY <1>4, <3>3, <3>4 DEF PutProgress, SummariseNext
    <3>8. vis' \in [Visors -> VisorType] /\ seen' \in [Requests -> SUBSET ({"on", "off"} \cup AppStates)]
      BY <3>5 DEF HyperInv, HyperTypes
    <3>9. /\ n.op # "none" => req'[r].at = "handler"
          /\ n.conn \in Conns /\ n.rpc # "SetAutoStart"
          /\ \A u \in n.left : nodes[u] # NoConn
      BY <1>4, <3>1, <3>3, <3>6, HandlerFields DEF SummariseNext
    <3>10. QED
      BY <3>2, <3>3, <3>5, <3>6, <3>7, <3>8, <3>9, HandlerMoves
  <2>2. CASE Answer(r, "ok")
    BY <1>4, <2>2, AnswerStep DEF SummariseNext
  <2>3. QED
    BY <1>4, <2>1, <2>2 DEF SummariseNext
<1>5. CASE Serve(r)
  BY <1>5, ServeStep
<1>6. CASE LoopsRange(r)
  <2> DEFINE rules == "app" \in vis[conn[h[r].conn].visor].rules
  <2>1. h' = [h EXCEPT ![r] = [h[r] EXCEPT !.at = "ranged", !.rules = rules]]
    BY <1>6 DEF LoopsRange
  <2>2. rules \in BOOLEAN
    OBVIOUS
  <2> HIDE DEF rules
  <2>3. h[r].rpc = "Loops" /\ h[r].at = "called"
    BY <1>6 DEF LoopsRange
  <2>4. UNCHANGED <<userVars, nodes, conn, accepting, vis, seen>>
    BY <1>6 DEF LoopsRange
  <2>5. QED
    BY <2>1, <2>2, <2>3, <2>4, ReturnStep
<1>7. CASE LoopsLookup(r)
  <2>1. PICK at \in {"served", "failed"} :
           h' = [h EXCEPT ![r] = [h[r] EXCEPT !.at = at, !.rules = FALSE]]
    BY <1>7 DEF LoopsLookup
  <2>2. UNCHANGED <<userVars, nodes, conn, accepting, vis, seen>> /\ h[r].at = "ranged"
    BY <1>7 DEF LoopsLookup
  <2>3. QED
    BY <2>1, <2>2, ReturnStep
<1>8. CASE CallFails(r)
  <2>1. h' = [h EXCEPT ![r] = [h[r] EXCEPT !.at = "failed", !.rules = FALSE]]
    BY <1>8 DEF CallFails
  <2>2. /\ UNCHANGED <<userVars, nodes, conn, accepting, vis, seen>>
        /\ h[r].at \in {"called", "ranged", "served", "stuck"}
    BY <1>8 DEF CallFails
  <2>3. QED
    BY <2>1, <2>2, ReturnStep
<1>9. CASE Replied(r) \/ HealthTimeout(r) \/ PutDone(r)
  BY <1>9, AnswerStep DEF Replied, HealthTimeout, PutDone, Pending
<1>10. CASE AppLogsSince(r)
  <2>1. CASE Call(r, "read") /\ UNCHANGED <<req, seen>>
    <3>1. UNCHANGED <<userVars, nodes, conn, accepting, vis, seen>>
      BY <1>10, <2>1 DEF AppLogsSince, UsersIdle, userVars, auxVars
    <3>2. "read" \in RPCs \ {"Apps", "SetAutoStart"}
      BY DEF RPCs
    <3>3. QED
      BY <1>10, <2>1, <3>1, <3>2, CallStep DEF AppLogsSince
  <2>2. ASSUME NEW status \in {"ok", "refused"}, Answer(r, status)
        PROVE  HyperInv'
    BY <1>10, <2>2, AnswerStep DEF AppLogsSince
  <2>3. QED
    BY <1>10, <2>1, <2>2 DEF AppLogsSince
<1>11. ASSUME NEW auto \in {"on", "off", "keep"},
              NEW status \in {"start", "stop", "other", "keep"}, PutAutoStart(r, auto, status)
       PROVE  HyperInv'
  <2> DEFINE at == IF auto \notin {"keep", h[r].app} THEN "called" ELSE "served"
             n == [h[r] EXCEPT !.auto = auto, !.status = status, !.at = at,
                               !.rpc = "SetAutoStart"]
  <2>1. h' = [h EXCEPT ![r] = n]
    BY <1>11 DEF PutAutoStart
  <2>2. /\ at \in {"called", "served"} /\ (at = "called" => auto # "keep")
        /\ at = "served" => auto \in {"keep", h[r].app}
    OBVIOUS
  <2> HIDE DEF at
  <2>3. /\ n \in HandlerType /\ n.op = h[r].op /\ n.at = at /\ n.rpc = "SetAutoStart"
        /\ n.conn = h[r].conn /\ n.left = h[r].left /\ n.auto = auto /\ n.status = status
    BY <2>2, HandlerFields DEF HandlerType, RPCs
  <2> HIDE DEF n
  <2>4. h'[r] = n
    BY <2>1 DEF HyperInv, HyperTypes
  <2>5. UNCHANGED <<userVars, nodes, conn, accepting, vis, seen>>
    BY <1>11 DEF PutAutoStart
  <2>6. UsersInv' /\ req' = req
    BY <2>5, UsersStutter DEF HyperInv, userVars
  <2>7. PutProgress(r)'
    <3>1. PutProgress(r) /\ h[r].op = "putApp" /\ h[r].at = "served" /\ h[r].rpc = "Apps"
      BY <1>11, HandlerFields DEF PutAutoStart
    <3>2. QED
      BY <2>2, <2>3, <2>4, <2>5, <3>1 DEF PutProgress
  <2>8. vis' \in [Visors -> VisorType] /\ seen' \in [Requests -> SUBSET ({"on", "off"} \cup AppStates)]
    BY <2>5 DEF HyperInv, HyperTypes
  <2>9. /\ n.op # "none" => req'[r].at = "handler"
        /\ n.conn \in Conns
        /\ \A u \in n.left : nodes[u] # NoConn
        /\ n.at \in {"called", "ranged"} => n.auto # "keep"
    BY <1>11, <2>2, <2>3, <2>6, HandlerFields DEF PutAutoStart
  <2>10. QED
    BY <2>1, <2>3, <2>5, <2>6, <2>7, <2>8, <2>9, HandlerMoves
<1>12. CASE PutStatus(r)
  <2>1. ASSUME NEW rpc \in {"StartApp", "StopApp"}, Call(r, rpc), UNCHANGED <<req, seen>>,
               rpc = "StartApp" => h[r].status = "start",
               rpc = "StopApp" => h[r].status = "stop"
        PROVE  HyperInv'
    <3>1. UNCHANGED <<userVars, nodes, conn, accepting, vis, seen>>
      BY <1>12, <2>1 DEF PutStatus, UsersIdle, userVars, auxVars
    <3>2. rpc \in RPCs \ {"Apps", "SetAutoStart"}
      BY DEF RPCs
    <3>3. QED
      BY <1>12, <2>1, <3>1, <3>2, CallStep DEF PutStatus
  <2>2. ASSUME NEW status \in {"ok", "refused"}, Answer(r, status)
        PROVE  HyperInv'
    BY <1>12, <2>2, AnswerStep DEF PutStatus
  <2>3. QED
    BY <1>12, <2>1, <2>2 DEF PutStatus
<1>13. QED
  BY <1>1, <1>2, <1>3, <1>4, <1>5, <1>6, <1>7, <1>8, <1>9, <1>10, <1>11, <1>12 DEF Handle

\* The steps that no handler takes: connections come, fail and are registered, apps end,
\* local clients call.
LEMMA OutsideStep ==
    ASSUME HyperInv,
           \/ RegisterNode
           \/ \E c \in Conns : Accept(c) \/ \E st \in {"hung", "dead"} : Fail(c, st)
           \/ \E v \in Visors, rpc \in LocalRPCs : LocalCall(v, rpc)
           \/ \E v \in Visors, app \in {"stopping", "running"} : AppEnds(v, app)
           \/ UNCHANGED vars
    PROVE  HyperInv'
<1>1. UNCHANGED <<userVars, h>>
  BY DEF RegisterNode, Accept, Fail, LocalCall, AppEnds, vars, hyperVars
<1>2. UsersInv' /\ req' = req
  BY <1>1, UsersStutter DEF HyperInv, userVars
<1>3. HyperTypes' /\ \A q \in Requests : seen[q] \subseteq seen'[q]
  <2>1. CASE RegisterNode
    BY <2>1 DEF RegisterNode, HyperInv, HyperTypes
  <2>2. ASSUME NEW c \in Conns, NEW st \in {"open", "hung", "dead"},
               conn' = [conn EXCEPT ![c].st = st],
               accepting' \in Conns \cup {NoConn}, UNCHANGED <<nodes, h, vis, seen>>
        PROVE  HyperTypes' /\ \A q \in Requests : seen[q] \subseteq seen'[q]
    BY <2>2 DEF HyperInv, HyperTypes
  <2>3. ASSUME NEW v \in Visors, NEW x \in VisorType, vis' = [vis EXCEPT ![v] = x],
               Watch(v, x), UNCHANGED <<nodes, conn, accepting, h>>
        PROVE  HyperTypes' /\ \A q \in Requests : seen[q] \subseteq seen'[q]
    <3>1. /\ seen' \in [Requests -> SUBSET ({"on", "off"} \cup AppStates)]
          /\ \A q \in Requests : seen[q] \subseteq seen'[q]
      BY <2>3, WatchFacts DEF HyperInv
    <3>2. vis' \in [Visors -> VisorType]
      BY <2>3 DEF HyperInv, HyperTypes
    <3>3. QED
      BY <2>3, <3>1, <3>2 DEF HyperInv, HyperTypes
  <2>4. ASSUME NEW c \in Conns, Accept(c)
        PROVE  HyperTypes' /\ \A q \in Requests : seen[q] \subseteq seen'[q]
    BY <2>2, <2>4 DEF Accept
  <2>5. ASSUME NEW c \in Conns, NEW st \in {"hung", "dead"}, Fail(c, st)
        PROVE  HyperTypes' /\ \A q \in Requests : seen[q] \subseteq seen'[q]
    BY <2>2, <2>5 DEF Fail, HyperInv, HyperTypes
  <2>6. CASE UNCHANGED vars
    BY <2>6 DEF vars, hyperVars, HyperInv, HyperTypes
  <2>7. ASSUME NEW v \in Visors, NEW rpc \in LocalRPCs, LocalCall(v, rpc)
        PROVE  HyperTypes' /\ \A q \in Requests : seen[q] \subseteq seen'[q]
    <3>1. PICK o \in Outcomes(rpc, vis[v], "off") :
             vis' = [vis EXCEPT ![v] = o.vis] /\ Watch(v, o.vis)
      BY <2>7 DEF LocalCall
    <3>2. vis[v] \in VisorType
      BY DEF HyperInv, HyperTypes
    <3>3. o.vis \in VisorType
      BY <3>2, OutcomeFacts
    <3>4. QED
      BY <2>3, <2>7, <3>1, <3>3 DEF LocalCall
  <2>8. ASSUME NEW v \in Visors, NEW app \in {"stopping", "running"}, AppEnds(v, app)
        PROVE  HyperTypes' /\ \A q \in Requests : seen[q] \subseteq seen'[q]
    <3>1. vis[v] \in VisorType
      BY DEF HyperInv, HyperTypes
    <3>2. To(vis[v], "stopped") \in VisorType
      BY <3>1 DEF To, VisorType, AppStates
    <3>3. QED
      BY <2>3, <2>8, <3>2 DEF AppEnds
  <2>9. QED
    BY <2>1, <2>4, <2>5, <2>6, <2>7, <2>8
<1>4. \A v \in Visors : nodes[v] # NoConn => nodes'[v] # NoConn
  BY DEF RegisterNode, Accept, Fail, LocalCall, AppEnds, vars, hyperVars, HyperInv, HyperTypes
<1>5. HandlersRun'
  BY <1>1, <1>2, <1>4, HandlerFields DEF HyperInv, HandlersRun
<1>6. \A q \in Requests : PutProgress(q)'
  BY <1>1, <1>3, PutFrame DEF HyperInv
<1>7. QED
  BY <1>2, <1>3, <1>5, <1>6 DEF HyperInv

\* The user manager does not move a request that a handler has.
LEMMA HandlerKept ==
    ASSUME UsersInv, NEW r \in Requests,
           \/ UserStep(r)
           \/ \E kind \in Kinds, sid \in issued \cup {NoCookie} : Arrive(r, kind, sid)
    PROVE  \A q \in Requests : req[q].at = "handler" => req'[q].at = "handler"
  BY DEF UserStep, Arrive, Session, SessionUser, SessionExpired, Login, CreateAccount,
         NewSession, Logout, ChangePassword, SetUser, DropSessions, UserInfo, Goto,
         UsersInv, UsersTypeOK

\* A step of the user manager: no handler runs for a request before it is let through.
LEMMA ComposedUserStep ==
    ASSUME HyperInv, NEW r \in Requests, UNCHANGED hyperVars,
           \/ UserStep(r)
           \/ \E kind \in Kinds, sid \in issued \cup {NoCookie} : Arrive(r, kind, sid)
    PROVE  HyperInv'
<1>1. UsersInv'
  BY UsersStep DEF HyperInv
<1>2. \A q \in Requests : req[q].at = "handler" => req'[q].at = "handler"
  BY HandlerKept DEF HyperInv
<1>3. HyperTypes' /\ HandlersRun'
  BY <1>2 DEF hyperVars, HyperInv, HyperTypes, HandlersRun
<1>4. \A q \in Requests : PutProgress(q)'
  BY PutFrame DEF hyperVars, HyperInv
<1>5. QED
  BY <1>1, <1>3, <1>4 DEF HyperInv

\* Hypervisor: the invariant of all its behaviours.
LEMMA HyperInvariant == Spec => []HyperInv
<1>1. Init => HyperInv
  <2> SUFFICES ASSUME Init PROVE HyperInv
    OBVIOUS
  <2>1. UsersInv
    BY UsersInitially DEF Init
  <2>2. Idle \in HandlerType /\ Idle.op = "none" /\ Idle.at = "none" /\ Idle.left = {}
    BY DEF Idle, HandlerType, RPCs
  <2>3. h \in [Requests -> HandlerType] /\ \A r \in Requests : h[r] = Idle
    BY <2>2 DEF Init
  <2>4. vis \in [Visors -> VisorType]
    BY DEF Init, VisorType, AppStates
  <2>5. conn \in [Conns -> [visor : Visors, st : {"none", "open", "hung", "dead"}]]
    BY DEF Init
  <2>6. HyperTypes
    <3>1. /\ nodes \in [Visors -> Conns \cup {NoConn}] /\ accepting = NoConn
          /\ seen \in [Requests -> SUBSET ({"on", "off"} \cup AppStates)]
      BY DEF Init
    <3>2. QED
      BY <2>3, <2>4, <2>5, <3>1 DEF HyperTypes
  <2>7. QED
    BY <2>1, <2>2, <2>3, <2>6 DEF HyperInv, HandlersRun, PutProgress
<1>2. HyperInv /\ [Next]_vars => HyperInv'
  <2> SUFFICES ASSUME HyperInv, [Next]_vars PROVE HyperInv'
    OBVIOUS
  <2>1. CASE System
    BY <2>1, HandleStep, OutsideStep, ComposedUserStep DEF System
  <2>2. CASE Environment
    BY <2>2, OutsideStep, ComposedUserStep DEF Environment, Kinds
  <2>3. QED
    BY <2>1, <2>2, OutsideStep DEF Next
<1>3. QED
  BY <1>1, <1>2, PTL DEF Spec

\* The same of the hypervisor as a whole: no handler of the API, however it waits for
\* visors, lets a session outlive its password or come back.
THEOREM HypervisorSessions == Spec => [](SessionsFollowPassword /\ EndedSessionsStayEnded)
  BY HyperInvariant, PTL DEF HyperInv, UsersInv

\* putApp answers with success only after the app was seen, since its reading of the
\* app, with the auto-start that was asked for (also where it leaves out the call because
\* of what Apps told it before other clients' calls), running if it was to be started,
\* and told to stop, or left without a process by SpawnApp, if it was to be stopped.
THEOREM PutTheorem == Spec => PutTakesEffect
<1> DEFINE Effect == \A r \in Requests :
          (h[r].op = "putApp" /\ req[r].at = "handler" /\ req'[r].at = "ok") =>
             /\ h[r].auto = "keep" \/ h[r].auto \in seen[r]
             /\ h[r].status = "start" => "running" \in seen[r]
             /\ h[r].status = "stop" => seen[r] \cap {"stopping", "nodir"} # {}
<1>1. HyperInv /\ [Next]_vars => [Effect]_vars
  <2> SUFFICES ASSUME HyperInv, Next, NEW r \in Requests,
                      h[r].op = "putApp", req[r].at = "handler", req'[r].at = "ok"
               PROVE  /\ h[r].auto = "keep" \/ h[r].auto \in seen[r]
                      /\ h[r].status = "start" => "running" \in seen[r]
                      /\ h[r].status = "stop" => seen[r] \cap {"stopping", "nodir"} # {}
    OBVIOUS
  <2>1. PutProgress(r) /\ h[r].status \in {"start", "stop", "other", "keep"}
    BY HandlerFields
  <2>2. ASSUME NEW q \in Requests, UserStep(q)
        PROVE  FALSE
    BY <2>2, HandlerKept DEF HyperInv
  <2>3. ASSUME Environment \/ RegisterNode \/ \E v \in Visors : AppEnds(v, "stopping")
        PROVE  FALSE
    <3>1. \A q \in Requests, kind \in Kinds, sid \in issued \cup {NoCookie} : ~Arrive(q, kind, sid)
      BY HandlerKept DEF HyperInv
    <3>2. UNCHANGED userVars
      BY <2>3, <3>1 DEF Environment, RegisterNode, Accept, Fail, LocalCall, AppEnds, Kinds
    <3>3. QED
      BY <3>2 DEF userVars
  <2>4. PICK q \in Requests : Handle(q)
    BY <2>2, <2>3 DEF Next, System
  <2>5. ~UNCHANGED req
    OBVIOUS
  <2>6. q = r
    <3>1. PICK step : Goto(q, step)
      BY <2>4, <2>5 DEF Handle, NodeCtx, BadRequest, GetNodes, SummariseNext, Serve, LoopsRange,
                        LoopsLookup, CallFails, Replied, HealthTimeout, AppLogsSince,
                        PutAutoStart, PutStatus, PutDone, Answer, userVars
    <3>2. QED
      BY <3>1 DEF Goto, HyperInv, UsersInv, UsersTypeOK
  <2>7. ~Goto(r, "refused")
    <3>1. "refused" \in Steps
      BY DEF Steps, Final
    <3>2. QED
      BY <3>1, GotoEffect DEF HyperInv, UsersInv, UsersTypeOK
  <2>8. PutDone(r) \/ (PutStatus(r) /\ h[r].status = "keep")
    <3>1. h[r].op \notin NodeHandlers \cup {"getApp"} \cup TpHandlers \cup RouteHandlers
      BY DEF NodeHandlers, ReadHandlers, TpHandlers, RouteHandlers
    <3>2. QED
      BY <2>4, <2>5, <2>6, <2>7, <3>1
      DEF Handle, NodeCtx, BadRequest, GetNodes, SummariseNext, Serve, LoopsRange,
          LoopsLookup, CallFails, Replied, HealthTimeout, AppLogsSince, PutAutoStart,
          PutStatus, Answer, userVars
  <2>9. QED
    BY <2>1, <2>8 DEF PutDone, PutStatus, PutProgress
<1>2. QED
  BY <1>1, HyperInvariant, PTL DEF Spec, PutTakesEffect
=============================================================================
