------------------------------ MODULE Management ------------------------------
(***************************************************************************)
(* The ADMIN console: the stored credential (management-credentials.c),    *)
(* the one browser session and the login throttle (management-session.c),  *)
(* the routes that set, check and change the password                      *)
(* (management-auth-routes.c, management-session-routes.c), the root page  *)
(* and the factory reset (management.c, wifi.c).                           *)
(*                                                                         *)
(* Tasks: the httpd task serves one request at a time (req), the recovery  *)
(* task erases (reset).  Every NVS call is a step of its own and may fail; *)
(* what it wrote is durable when it returns, so power can be lost between  *)
(* any two.  A derived hash is abstracted to the password it is made from. *)
(***************************************************************************)
EXTENDS Integers, FiniteSets

CONSTANTS
    Passwords,      \* passwords of 12 to 128 characters
    Browsers,
    None,           \* an absent NVS key; no password
    Foreign,        \* a stored credential that is not in the current format
    IdleLimit,      \* MANAGEMENT_SESSION_IDLE_SECONDS, in ticks
    Cooldown,       \* MANAGEMENT_LOGIN_COOLDOWN_SECONDS, in ticks
    MaxFailures     \* MANAGEMENT_LOGIN_MAX_FAILURES

ASSUME ManagementAssumption ==
    /\ None # Foreign /\ Passwords \cap {None, Foreign} = {}
    /\ IsFiniteSet(Browsers)
    /\ IdleLimit \in Nat /\ Cooldown \in Nat \ {0} /\ MaxFailures \in Nat \ {0}

VARIABLES
    nvs,        \* admin-cred, admin-stage, admin-salt and admin-hash
    session,    \* management_session; idle is the time since the last activity
    login,      \* the failure count and the rest of the cooldown
    jar,        \* the ESP32NUT_SESSION cookie each browser holds
    req,        \* the request that the httpd task is serving
    reset,      \* the recovery task in wifi_perform_factory_reset
    hist        \* what the properties remember

vars == <<nvs, session, login, jar, req, reset, hist>>

(* Cookies are random: a fresh one is any that nobody holds. *)
Cookies == 1 .. Cardinality(Browsers) + 2
NoCookie == 0

Setting == {"stage", "check", "write", "salt", "hash", "unstage", "commit"}

Stores == [cred : Passwords \cup {None, Foreign}, staged : Passwords \cup {None},
           salt : Passwords \cup {None}, hash : Passwords \cup {None}]
Sessions == [active : BOOLEAN, cookie : Cookies \cup {NoCookie}, idle : 0 .. IdleLimit + 1,
             shown : Passwords \cup {None}]
Throttles == [failures : 0 .. MaxFailures - 1, cool : 0 .. Cooldown]
Requests == [pc : {"idle", "body", "answer", "cookie"} \cup Setting,
             op : {"setup", "login", "change"}, by : Browsers \cup {None},
             new : Passwords \cup {None}, ok : BOOLEAN, age : 0 .. Cooldown]
Memories == [torn : BOOLEAN, late : BOOLEAN, erased : BOOLEAN]

TypeOK ==
    /\ nvs \in Stores /\ session \in Sessions /\ login \in Throttles /\ req \in Requests
    /\ jar \in [Browsers -> Cookies \cup {NoCookie}]
    /\ reset \in {"idle", "commit", "wifi", "clear", "restart"}
    /\ hist \in Memories

NoSession == [active |-> FALSE, cookie |-> NoCookie, idle |-> 0, shown |-> None]
NoRequest == [pc |-> "idle", op |-> "login", by |-> None,
              new |-> None, ok |-> FALSE, age |-> 0]
Quiet == [failures |-> 0, cool |-> 0]
NoHist == [torn |-> FALSE, late |-> FALSE, erased |-> FALSE]

(* A new device, one set up by this firmware or by a release that kept salt *)
(* and hash apart, and one that holds another format.                       *)
Init ==
    /\ \E c \in Passwords \cup {None, Foreign}, l \in Passwords \cup {None} :
          /\ c = None \/ l = None
          /\ nvs = [cred |-> c, staged |-> None, salt |-> l, hash |-> l]
    /\ session = NoSession /\ login = Quiet /\ jar = [b \in Browsers |-> NoCookie]
    /\ req = NoRequest /\ reset = "idle" /\ hist = NoHist

-----------------------------------------------------------------------------
(* The stored credential.                                                   *)

Legacy == IF nvs.salt = nvs.hash THEN nvs.salt ELSE None

(* management_credentials_verify_admin_password: the password it accepts.   *)
Effective ==
    CASE nvs.cred = None -> Legacy
      [] nvs.cred = Foreign -> None
      [] OTHER -> nvs.cred

Verifies(p) == p = Effective

NeedsMigration == nvs.cred = None

(* management_admin_password_is_configured: salt and hash need only exist.  *)
Configured ==
    IF nvs.cred = None THEN None \notin {nvs.salt, nvs.hash} ELSE nvs.cred # Foreign

(* One NVS call of management_credentials_set_admin_password: it goes on to *)
(* next, or fails and is answered with an error.                            *)
Call(from, field, value, next) ==
    /\ req.pc = from
    /\ \/ /\ nvs' = [nvs EXCEPT ![field] = value]
          /\ req' = [req EXCEPT !.pc = next]
          /\ hist' = [hist EXCEPT !.late = @ \/ (reset # "idle" /\ value # None)]
       \/ /\ req' = [req EXCEPT !.pc = "answer", !.ok = FALSE]
          /\ hist' = [hist EXCEPT !.torn = @ \/ (session.active /\ nvs.cred = req.new)]
          /\ UNCHANGED nvs
    /\ UNCHANGED <<session, login, jar, reset>>

Stage == Call("stage", "staged", req.new, "check")

(* Mutant: the old copies are erased before the new one is written. *)
CheckStaged_EraseFirst ==
    /\ req.pc = "check"
    /\ \/ nvs.staged = req.new /\ req' = [req EXCEPT !.pc = "salt"]
       \/ req' = [req EXCEPT !.pc = "answer", !.ok = FALSE]
    /\ UNCHANGED <<nvs, session, login, jar, reset, hist>>

(* The staged copy is read again and must verify. *)
CheckStaged ==
    /\ req.pc = "check"
    /\ \/ nvs.staged = req.new /\ req' = [req EXCEPT !.pc = "write"]
       \/ req' = [req EXCEPT !.pc = "answer", !.ok = FALSE]
    /\ UNCHANGED <<nvs, session, login, jar, reset, hist>>

Write == Call("write", "cred", req.new, "salt")

EraseSalt == Call("salt", "salt", None, "hash")

EraseHash == Call("hash", "hash", None, "unstage")

(* Unlike the other two, this erase also fails when the key is not there.   *)
Unstage ==
    /\ Call("unstage", "staged", None, "commit")
    /\ nvs.staged = None => req'.pc = "answer"

Commit ==
    /\ req.pc = "commit"
    /\ \E ok \in BOOLEAN :
          /\ req' = [req EXCEPT !.pc = "answer", !.ok = ok]
          /\ hist' = [hist EXCEPT !.torn = @ \/ (~ok /\ session.active /\ nvs.cred = req.new)]
    /\ UNCHANGED <<nvs, session, login, jar, reset>>

SetPassword == Stage \/ CheckStaged \/ Write \/ EraseSalt \/ EraseHash \/ Unstage \/ Commit

-----------------------------------------------------------------------------
(* The session and the throttle.                                            *)

(* Mutant: the idle time is not compared. *)
Authorized_NoIdleLimit(b) == session.active /\ jar[b] = session.cookie

(* management_session_is_authorized accepts the cookie of browser b.        *)
Authorized(b) ==
    /\ session.active /\ session.idle <= IdleLimit
    /\ jar[b] = session.cookie

(* What that check leaves: activity, or an expired session wiped.  Without  *)
(* a cookie it returns before it looks at the session.                      *)
Checked(b, refresh) ==
    CASE Authorized(b) -> [session EXCEPT !.idle = IF refresh THEN 0 ELSE @]
      [] jar[b] # NoCookie /\ session.active /\ session.idle > IdleLimit -> NoSession
      [] OTHER -> session

(* management_session_start. *)
Started ==
    [active |-> TRUE, idle |-> 0, shown |-> req.new,
     cookie |-> CHOOSE c \in Cookies : c # session.cookie /\ \A b \in Browsers : c # jar[b]]

(* management_session_record_login_failure, with the time read when the     *)
(* request came in.                                                         *)
Failed ==
    IF login.failures + 1 < MaxFailures THEN [login EXCEPT !.failures = @ + 1]
    ELSE [failures |-> 0, cool |-> Cooldown - req.age]

-----------------------------------------------------------------------------
(* Requests that the httpd task answers in one step.                        *)

(* management_root_handler. *)
Root(b) ==
    /\ req.pc = "idle" /\ Configured
    /\ session' = Checked(b, TRUE)
    /\ jar' = IF Authorized(b) THEN jar ELSE [jar EXCEPT ![b] = NoCookie]
    /\ UNCHANGED <<nvs, login, req, reset, hist>>

(* The status and log routes look without counting as activity; the         *)
(* activity and all other session routes count.  A CSRF token that does not *)
(* match, or that the recovery task has just wiped, ends here as well.      *)
Route(b) ==
    /\ req.pc = "idle"
    /\ \E refresh \in BOOLEAN : session' = Checked(b, refresh)
    /\ UNCHANGED <<nvs, login, jar, req, reset, hist>>

(* management_session_logout_handler. *)
Logout(b) ==
    /\ req.pc = "idle" /\ Authorized(b)
    /\ session' = NoSession
    /\ jar' = [jar EXCEPT ![b] = NoCookie]
    /\ UNCHANGED <<nvs, login, req, reset, hist>>

-----------------------------------------------------------------------------
(* Setup, login and password change: the body may take its time, and the    *)
(* recovery task may run while it does.                                     *)

Begin(b, op) == req' = [pc |-> "body", op |-> op, by |-> b, new |-> None, ok |-> FALSE, age |-> 0]

(* The answer is sent; how it ended matters to nobody any more. *)
Done == req' = NoRequest /\ hist' = [hist EXCEPT !.erased = FALSE]

(* A credential that cannot be read counts as not configured. *)
SetupBegins(b) ==
    /\ req.pc = "idle"
    /\ \E readable \in BOOLEAN : ~(readable /\ Configured)
    /\ Begin(b, "setup")
    /\ UNCHANGED <<nvs, session, login, jar, reset, hist>>

(* The form token is valid and the passwords match, or the form is refused. *)
SetupSubmits ==
    /\ req.pc = "body" /\ req.op = "setup"
    /\ \/ /\ \E p \in Passwords : req' = [req EXCEPT !.pc = "stage", !.new = p]
          /\ UNCHANGED hist
       \/ Done
    /\ UNCHANGED <<nvs, session, login, jar, reset>>

LoginBegins(b) ==
    /\ req.pc = "idle" /\ login.cool = 0
    /\ Begin(b, "login")
    /\ UNCHANGED <<nvs, session, login, jar, reset, hist>>

(* A legacy credential is migrated, and a failed migration only logged. *)
LoginVerifies ==
    /\ req.pc = "body" /\ req.op = "login"
    /\ \/ /\ \E p \in Passwords :
                /\ Verifies(p)
                /\ req' = [req EXCEPT !.pc = IF NeedsMigration THEN "stage" ELSE "answer",
                                      !.new = p, !.ok = ~NeedsMigration]
          /\ UNCHANGED <<login, hist>>
       \/ login' = Failed /\ Done
    /\ UNCHANGED <<nvs, session, jar, reset>>

ChangeBegins(b) ==
    /\ req.pc = "idle" /\ Authorized(b)
    /\ session' = Checked(b, TRUE)
    /\ Begin(b, "change")
    /\ UNCHANGED <<nvs, login, jar, reset, hist>>

(* The current password verifies and the new one differs from it. *)
ChangeVerifies ==
    /\ req.pc = "body" /\ req.op = "change"
    /\ \/ /\ \E current, p \in Passwords :
                /\ Verifies(current) /\ p # current
                /\ req' = [req EXCEPT !.pc = "stage", !.new = p]
          /\ UNCHANGED hist
       \/ Done
    /\ UNCHANGED <<nvs, session, login, jar, reset>>

(* Mutant: a changed password leaves the session as it was. *)
Answer_ChangeKeepsSession ==
    /\ req.pc = "answer"
    /\ \/ /\ req.ok \/ req.op = "login"
          /\ session' = IF req.op = "change" THEN session ELSE Started
          /\ login' = IF req.op = "change" THEN login ELSE Quiet
          /\ req' = [req EXCEPT !.pc = "cookie"]
          /\ hist' = [hist EXCEPT !.torn = hist.erased, !.late = @ \/ reset = "restart"]
       \/ /\ ~req.ok /\ req.op # "login"
          /\ Done
          /\ UNCHANGED <<session, login>>
    /\ UNCHANGED <<nvs, jar, reset>>

(* A new session replaces the only one; a failed setup or change is         *)
(* reported.  The count of failures is left alone by a change.              *)
Answer ==
    /\ req.pc = "answer"
    /\ \/ /\ req.ok \/ req.op = "login"
          /\ session' = Started
          /\ login' = IF req.op = "change" THEN login ELSE Quiet
          /\ req' = [req EXCEPT !.pc = "cookie"]
          /\ hist' = [hist EXCEPT !.torn = hist.erased, !.late = @ \/ reset = "restart"]
       \/ /\ ~req.ok /\ req.op # "login"
          /\ Done
          /\ UNCHANGED <<session, login>>
    /\ UNCHANGED <<nvs, jar, reset>>

(* management_session_set_cookie copies the cookie as it is by now; the     *)
(* answer may be lost on its way to the browser.                            *)
SendCookie ==
    /\ req.pc = "cookie"
    /\ jar' \in {jar, [jar EXCEPT ![req.by] = session.cookie]}
    /\ Done
    /\ UNCHANGED <<nvs, session, login, reset>>

-----------------------------------------------------------------------------
(* The recovery task, power and time.                                       *)

(* nvs_erase_all of management_factory_reset. *)
ResetErases ==
    /\ reset = "idle"
    /\ nvs' = [cred |-> None, staged |-> None, salt |-> None, hash |-> None]
    /\ reset' = "commit"
    /\ hist' = [hist EXCEPT !.erased = req.pc # "idle"]
    /\ UNCHANGED <<session, login, jar, req>>

(* The commit and the erase of the Wi-Fi credentials: when one fails, the   *)
(* task goes back to watching the button with the management data gone.     *)
ResetGoesOn(from, to) ==
    /\ reset = from
    /\ \/ reset' = to /\ UNCHANGED hist
       \/ reset' = "idle" /\ hist' = [hist EXCEPT !.torn = session.active]
    /\ UNCHANGED <<nvs, session, login, jar, req>>

ResetCommits == ResetGoesOn("commit", "wifi")

ResetErasesWifi == ResetGoesOn("wifi", "clear")

(* management_factory_reset_complete. *)
ResetClears ==
    /\ reset = "clear"
    /\ session' = NoSession /\ login' = Quiet
    /\ reset' = "restart"
    /\ UNCHANGED <<nvs, jar, req, hist>>

(* The restart after a reset, or power lost at any moment. *)
Restart ==
    /\ session' = NoSession /\ login' = Quiet /\ req' = NoRequest
    /\ reset' = "idle" /\ hist' = NoHist
    /\ UNCHANGED <<nvs, jar>>

Tick ==
    /\ session' = [session EXCEPT !.idle = IF session.active /\ @ <= IdleLimit THEN @ + 1 ELSE @]
    /\ login' = [login EXCEPT !.cool = IF @ > 0 THEN @ - 1 ELSE 0]
    /\ req' = [req EXCEPT !.age = IF req.pc = "body" /\ req.op = "login" /\ @ < Cooldown THEN @ + 1 ELSE @]
    /\ UNCHANGED <<nvs, jar, reset, hist>>

Next ==
    \/ \E b \in Browsers : \/ Root(b) \/ Route(b) \/ Logout(b)
                           \/ SetupBegins(b) \/ LoginBegins(b) \/ ChangeBegins(b)
    \/ SetupSubmits \/ LoginVerifies \/ ChangeVerifies
    \/ SetPassword \/ Answer \/ SendCookie
    \/ ResetErases \/ ResetCommits \/ ResetErasesWifi \/ ResetClears
    \/ Restart \/ Tick

Spec == Init /\ [][Next]_vars

-----------------------------------------------------------------------------
(* Whatever fails and whenever power is lost, the credential in NVS is one  *)
(* register: the password in force changes in a single step, only to the    *)
(* one that a setup, a change or a migration is installing, and to nothing  *)
(* only by the factory reset (management_credentials_set_admin_password).   *)
Register ==
    INSTANCE CredentialRegister WITH
        password <- Effective,
        asked <- IF req.pc \in Setting THEN req.new ELSE None,
        erasing <- reset # "idle"

CredentialIsRegister == Register!Spec

(* A setup or change that is answered with success has put its password in  *)
(* force, unless the factory reset erased it while the request was served.  *)
ChangeAnswered == req.pc = "answer" /\ req.ok => Effective = req.new \/ hist.erased

(* Between requests the session belongs to somebody who has shown the       *)
(* password in force, with two exceptions: a change that failed after its   *)
(* password was written, and a factory reset that stopped half way.         *)
SessionMatchesPassword ==
    req.pc = "idle" /\ reset = "idle" /\ session.active =>
        session.shown = Effective \/ hist.torn

(* When the device restarts after a factory reset, no credential and no     *)
(* session is left, unless a request wrote one after the erase.             *)
ResetLeavesNothing ==
    reset = "restart" /\ ~hist.late =>
        /\ ~session.active
        /\ \A key \in DOMAIN nvs : nvs[key] = None

(* A session left alone for longer than the limit is never revived: only a  *)
(* new login, with another cookie, lets the browser in again.               *)
ExpiredNotRevived ==
    [][session.active /\ session.idle > IdleLimit /\ session'.active =>
          session'.idle > IdleLimit \/ session'.cookie # session.cookie]_vars

(* The credential, the session and the reset agree with each other between   *)
(* requests (management-auth-routes.c:19-186, management.c:80-105).          *)
ManagementSafe == TypeOK /\ ChangeAnswered /\ SessionMatchesPassword /\ ResetLeavesNothing
=============================================================================
