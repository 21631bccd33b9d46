-------------------------------- MODULE Users --------------------------------
(***************************************************************************)
(* The users and sessions of the hypervisor (pkg/hypervisor/               *)
(* user_manager.go and user.go): HTTP handlers that run concurrently, each *)
(* holding a lock or a database transaction only for single reads and      *)
(* writes.  The database outlives the process, the sessions do not.        *)
(*                                                                         *)
(* The store is a SingleUserStore: every name but Admin is refused, so the *)
(* database is one account, told apart by its password.  A session is      *)
(* named by the login that made it.  Inputs a handler reads from the body  *)
(* are chosen at the step that reads them.                                 *)
(***************************************************************************)
EXTENDS Naturals, FiniteSets

CONSTANTS
    Passwords,     \* passwords of an acceptable format
    MaxRequests,   \* bound on the requests
    MaxRestarts    \* bound on the restarts of the hypervisor

ASSUME UsersAssumption ==
    MaxRequests \in Nat /\ MaxRestarts \in Nat /\ Passwords # {}

Admin == "admin"
Names == {Admin, "other"}
NoUser == "nouser"
BadFormat == "bad"
ASSUME FormatAssumption == NoUser \notin Passwords /\ BadFormat \notin Passwords

Requests == 1..MaxRequests
NoCookie == 0

VARIABLES
    account,    \* the password of the admin in the database, or NoUser
    sessions,   \* the sessions of the map
    expired,    \* sessions whose Expiry has passed
    issued,     \* cookies that clients hold
    req,        \* req[r]: request r; stale is auxiliary: its session had ended on arrival
    restarts,
    proved,     \* auxiliary: proved[s]: the password the login of s presented
    late,       \* auxiliary: logins that had verified when a change dropped the sessions
    ended       \* auxiliary: sessions a handler has reported as ended

userVars == <<account, sessions, expired, issued, req, restarts, proved, late, ended>>

Kinds == {"login", "logout", "create", "change", "info", "api"}
Final == {"ok", "refused", "lost"}

Steps == {"none", "session", "user", "expire", "authorized", "body", "verified", "logout",
          "create", "change", "set", "handler"} \cup Final
RequestType == [kind : Kinds \cup {"none"}, at : Steps, sid : Requests \cup {NoCookie},
                user : Passwords \cup {NoUser}, pw : Passwords \cup {NoUser}, stale : BOOLEAN]

UsersTypeOK ==
    /\ account \in Passwords \cup {NoUser}
    /\ sessions \subseteq issued /\ expired \subseteq issued /\ issued \subseteq Requests
    /\ req \in [Requests -> RequestType]
    /\ restarts \in 0..MaxRestarts
    /\ proved \in [Requests -> Passwords \cup {NoUser}]
    /\ late \subseteq Requests /\ ended \subseteq issued

UsersInit ==
    /\ account \in Passwords \cup {NoUser}
    /\ sessions = {} /\ expired = {} /\ issued = {}
    /\ req = [r \in Requests |-> [kind |-> "none", at |-> "none", sid |-> NoCookie,
                                  user |-> NoUser, pw |-> NoUser, stale |-> FALSE]]
    /\ restarts = 0
    /\ proved = [r \in Requests |-> NoUser]
    /\ late = {} /\ ended = {}

Goto(r, step) == req' = [req EXCEPT ![r].at = step]
auxVars == <<proved, late, ended>>

-----------------------------------------------------------------------------
(* A request arrives, with a cookie that was issued or none.  Requests are *)
(* used in order.  First is the step its handler begins with.              *)

First(kind) ==
    CASE kind = "logout" -> "logout"
      [] kind = "create" -> "create"
      [] OTHER -> "session"

Arrive(r, kind, sid) ==
    /\ req[r].at = "none"
    /\ \A q \in 1..(r - 1) : req[q].at # "none"
    /\ req' = [req EXCEPT ![r].kind = kind, ![r].at = First(kind), ![r].sid = sid,
                          ![r].stale = sid \in ended \cup expired]
    /\ UNCHANGED <<account, sessions, expired, issued, restarts, auxVars>>

\* What follows session(r): Login goes on without a session and refuses one
\* (ErrNotLoggedOut), Authorize the other way round.
NoSession(r) == IF req[r].kind = "login" THEN "body" ELSE "refused"
HasSession(r) == IF req[r].kind = "login" THEN "refused" ELSE "authorized"

\* session: the lookup in the map.
Session(r) ==
    /\ req[r].at = "session"
    /\ Goto(r, IF req[r].sid \in sessions THEN "user" ELSE NoSession(r))
    /\ UNCHANGED <<account, sessions, expired, issued, restarts, auxVars>>

\* session: the user is read from the database, and the expiry checked.
SessionUser(r) ==
    /\ req[r].at = "user"
    /\ req' = [req EXCEPT ![r].user = account,
                          ![r].at = IF account = NoUser THEN NoSession(r)
                                    ELSE IF req[r].sid \in expired THEN "expire"
                                    ELSE HasSession(r)]
    /\ UNCHANGED <<account, sessions, expired, issued, restarts, auxVars>>

\* session: an expired session is deleted.
SessionExpired(r) ==
    /\ req[r].at = "expire"
    /\ sessions' = sessions \ {req[r].sid}
    /\ ended' = ended \cup {req[r].sid}
    /\ Goto(r, NoSession(r))
    /\ UNCHANGED <<account, expired, issued, restarts, proved, late>>

-----------------------------------------------------------------------------
(* Login and Logout                                                        *)

\* The hash of pw is that of the user read.
VerifyPassword(user, pw) == user # NoUser /\ pw = user

\* The password is verified against the account of the database.
Login(r, name, pw) ==
    /\ req[r].kind = "login" /\ req[r].at = "body"
    /\ \/ /\ name = Admin /\ VerifyPassword(account, pw)
          /\ req' = [req EXCEPT ![r].at = "verified", ![r].pw = pw]
       \/ /\ ~(name = Admin /\ VerifyPassword(account, pw))
          /\ Goto(r, "refused")
    /\ UNCHANGED <<account, sessions, expired, issued, restarts, auxVars>>

\* newSession: the session enters the map and the client gets the cookie.
NewSession(r) ==
    /\ req[r].at = "verified"
    /\ sessions' = sessions \cup {r}
    /\ issued' = issued \cup {r}
    /\ proved' = [proved EXCEPT ![r] = req[r].pw]
    /\ Goto(r, "ok")
    /\ UNCHANGED <<account, expired, restarts, late, ended>>

CookieOnly(r) ==
    /\ req[r].at = "logout"
    /\ Goto(r, IF req[r].sid = NoCookie THEN "refused" ELSE "ok")
    /\ ended' = IF req[r].sid = NoCookie THEN ended ELSE ended \cup {req[r].sid}
    /\ UNCHANGED <<account, sessions, expired, issued, restarts, proved, late>>

\* delSession succeeds for every cookie that decodes, its session in the map or not.
DelSession(sid) ==
    /\ sessions' = sessions \ {sid}
    /\ ended' = ended \cup {sid}

Logout(r) ==
    /\ req[r].at = "logout"
    /\ \/ /\ req[r].sid = NoCookie
          /\ Goto(r, "refused")
          /\ UNCHANGED <<sessions, ended>>
       \/ /\ req[r].sid # NoCookie
          /\ DelSession(req[r].sid)
          /\ Goto(r, "ok")
    /\ UNCHANGED <<account, expired, issued, restarts, proved, late>>

-----------------------------------------------------------------------------
(* Accounts.  CreateAccount needs no session.                              *)

\* AddUser reads and writes in one transaction.
AddUser(pw) == account = NoUser /\ account' = pw

CreateAccount(r, name, pw) ==
    /\ req[r].at = "create"
    /\ \/ /\ name = Admin /\ pw \in Passwords
          /\ AddUser(pw)
          /\ Goto(r, "ok")
       \/ /\ ~(name = Admin /\ pw \in Passwords /\ account = NoUser)
          /\ Goto(r, "refused")
          /\ UNCHANGED account
    /\ UNCHANGED <<sessions, expired, issued, restarts, auxVars>>

\* The old password is verified against the user of the request's context, which
\* Authorize read, and the new one is put into that copy.
ChangePassword(r, old, new) ==
    /\ req[r].kind = "change" /\ req[r].at = "authorized"
    /\ \/ /\ VerifyPassword(req[r].user, old) /\ new \in Passwords
          /\ req' = [req EXCEPT ![r].at = "change", ![r].pw = new]
       \/ /\ ~(VerifyPassword(req[r].user, old) /\ new \in Passwords)
          /\ Goto(r, "refused")
    /\ UNCHANGED <<account, sessions, expired, issued, restarts, auxVars>>

\* SetUser: the user exists, since no handler removes one.
SetUser(r) ==
    /\ req[r].at = "change"
    /\ account' = req[r].pw
    /\ Goto(r, "set")
    /\ UNCHANGED <<sessions, expired, issued, restarts, auxVars>>

DropOwnSession(r) ==
    /\ req[r].at = "set"
    /\ sessions' = sessions \ {req[r].sid}
    /\ ended' = ended \cup {req[r].sid}
    /\ late' = late \cup {q \in Requests : req[q].at = "verified"}
    /\ Goto(r, "ok")
    /\ UNCHANGED <<account, expired, issued, restarts, proved>>

\* delAllSessionsOfUser: every session is of the one user.
DropSessions(r) ==
    /\ req[r].at = "set"
    /\ sessions' = {}
    /\ ended' = ended \cup issued
    /\ late' = late \cup {q \in Requests : req[q].at = "verified"}
    /\ Goto(r, "ok")
    /\ UNCHANGED <<account, expired, issued, restarts, proved>>

\* UserInfo lists the other sessions of the user.
UserInfo(r) ==
    /\ req[r].kind = "info" /\ req[r].at = "authorized"
    /\ Goto(r, "ok")
    /\ UNCHANGED <<account, sessions, expired, issued, restarts, auxVars>>

-----------------------------------------------------------------------------
\* The Expiry of a session passes.
Expire(s) ==
    /\ s \in sessions \ expired
    /\ expired' = expired \cup {s}
    /\ UNCHANGED <<account, sessions, issued, req, restarts, auxVars>>

\* The hypervisor ends, as it does when the database fails (catch), and is started
\* again: requests under way are lost, and every session.
RestartUsers ==
    /\ restarts < MaxRestarts
    /\ restarts' = restarts + 1
    /\ sessions' = {}
    /\ ended' = ended \cup issued
    /\ req' = [r \in Requests |-> IF req[r].at \in {"none"} \cup Final THEN req[r]
                                  ELSE [req[r] EXCEPT !.at = "lost"]]
    /\ UNCHANGED <<account, expired, issued, proved, late>>

UserStep(r) ==
    \/ Session(r) \/ SessionUser(r) \/ SessionExpired(r)
    \/ \E name \in Names, pw \in Passwords \cup {BadFormat} :
          Login(r, name, pw) \/ CreateAccount(r, name, pw)
    \/ NewSession(r) \/ Logout(r)
    \/ \E old \in Passwords, new \in Passwords \cup {BadFormat} : ChangePassword(r, old, new)
    \/ SetUser(r) \/ DropSessions(r) \/ UserInfo(r)

UsersNext ==
    \/ \E r \in Requests, kind \in Kinds \ {"api"}, sid \in issued \cup {NoCookie} :
          Arrive(r, kind, sid)
    \/ \E r \in Requests : UserStep(r) \/ Expire(r)
    \/ RestartUsers

UsersSpec == UsersInit /\ [][UsersNext]_userVars

-----------------------------------------------------------------------------
(* Properties                                                              *)

\* Every session was opened with the password the account has now, but for a change
\* that has stored its password and not yet dropped the sessions, and for a login that
\* had verified the old password when they were dropped: Login and ChangePassword are
\* not atomic with each other, and that session stays until it expires.
SessionsFollowPassword ==
    \A s \in sessions :
        \/ proved[s] = account
        \/ s \in late
        \/ \E r \in Requests : req[r].at = "set"

\* A request whose cookie is of a session that had been ended when it arrived (by a
\* Logout, a ChangePassword, its expiry or a restart of the hypervisor) is never
\* authorized, however it overlaps with the requests that end sessions; and an ended
\* session does not come back into the map.
EndedSessionsStayEnded ==
    /\ ended \cap sessions = {}
    /\ \A r \in Requests :
          /\ req[r].stale
          /\ req[r].kind \in {"change", "info", "api"}
          => req[r].at \in {"session", "user", "expire", "refused", "lost"}
==============================================================================
