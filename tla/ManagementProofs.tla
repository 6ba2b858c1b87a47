--------------------------- MODULE ManagementProofs --------------------------
(***************************************************************************)
(* The accounts and sessions of the management service (Management), and   *)
(* the API tokens (TokenStore), for every set of browsers, tokens and      *)
(* names.                                                                  *)
(***************************************************************************)
EXTENDS Management, TokenStore, FiniteSetTheorems, TLAPS

(* The new credential has been written, or the factory reset has erased it *)
(* since.                                                                  *)
Written == {"salt", "hash", "unstage", "commit"}

(* What a request relies on while it installs a password.  The old salt    *)
(* and hash are erased only when they no longer matter.                    *)
InstallInv ==
    /\ req.pc \in Setting \cup {"answer", "cookie"} => req.new \in Passwords
    /\ req.pc \in Written => nvs.cred = req.new \/ hist.erased
    /\ hist.erased => nvs.salt = None /\ nvs.hash = None
    /\ req.op = "login" /\ req.pc \in Setting \cup {"answer"} => Effective = req.new \/ hist.erased

(* SessionMatchesPassword is silent while a request is served; in between, *)
(* the old session may be behind a password that has just been written.    *)
SessionInv ==
    session.active /\ reset = "idle" =>
       \/ hist.torn
       \/ session.shown = Effective
       \/ req.pc \in Written /\ nvs.cred = req.new
       \/ req.pc = "answer" /\ req.ok

(* Once the factory reset has erased the store, only a late write fills it. *)
ResetInv ==
    reset # "idle" /\ ~hist.late =>
       /\ nvs.cred = None /\ nvs.staged = None /\ nvs.salt = None /\ nvs.hash = None
       /\ reset = "restart" => ~session.active

ManagementInv == TypeOK /\ InstallInv /\ ChangeAnswered /\ SessionInv /\ ResetInv
USE ManagementAssumption

-----------------------------------------------------------------------------
(* There are more cookies than browsers and the session hold together, so   *)
(* management_session_start always finds one that nobody holds.             *)
LEMMA FreshCookie ==
    ASSUME TypeOK
    PROVE  /\ Started.cookie \in Cookies
           /\ Started.cookie # session.cookie
           /\ \A b \in Browsers : Started.cookie # jar[b]
<1> DEFINE Held == {jar[b] : b \in Browsers}
           Fresh(c) == c # session.cookie /\ \A b \in Browsers : c # jar[b]
<1>1. jar \in Surjection(Browsers, Held)
  BY DEF TypeOK, Surjection
<1>2. IsFiniteSet(Held) /\ Cardinality(Held) <= Cardinality(Browsers)
  BY <1>1, FS_Surjection
<1>3. /\ IsFiniteSet(Held \cup {session.cookie})
      /\ Cardinality(Held \cup {session.cookie}) <= Cardinality(Browsers) + 1
  <2>1. Cardinality(Held) \in Nat /\ Cardinality(Browsers) \in Nat
    BY <1>2, FS_CardinalityType
  <2> HIDE DEF Held
  <2>2. /\ IsFiniteSet(Held \cup {session.cookie})
        /\ Cardinality(Held \cup {session.cookie}) =
             IF session.cookie \in Held THEN Cardinality(Held) ELSE Cardinality(Held) + 1
    BY <1>2, FS_AddElement
  <2> QED BY <1>2, <2>1, <2>2
<1>4. IsFiniteSet(Cookies) /\ Cardinality(Cookies) = Cardinality(Browsers) + 2
  <2>1. Cardinality(Browsers) \in Nat
    BY FS_CardinalityType
  <2> QED BY <2>1, FS_Interval, SMTT(30) DEF Cookies
<1>5. ~(Cookies \subseteq Held \cup {session.cookie})
  <2> SUFFICES ASSUME Cookies \subseteq Held \cup {session.cookie} PROVE FALSE
    OBVIOUS
  <2> HIDE DEF Held
  <2>1. Cardinality(Cookies) <= Cardinality(Held \cup {session.cookie})
    BY <1>3, FS_Subset
  <2>2. Cardinality(Browsers) \in Nat /\ Cardinality(Held \cup {session.cookie}) \in Nat
    BY <1>3, FS_CardinalityType
  <2> QED BY <1>3, <1>4, <2>1, <2>2
<1>6. \E c \in Cookies : Fresh(c)
  BY <1>5
<1>7. Started.cookie = CHOOSE c \in Cookies : Fresh(c)
  BY DEF Started
<1> HIDE DEF Fresh
<1>8. Started.cookie \in Cookies /\ Fresh(Started.cookie)
  BY <1>6, <1>7
<1> QED BY <1>8 DEF Fresh

(* A new session is well formed. *)
LEMMA StartedType == ASSUME TypeOK, req.new \in Passwords PROVE Started \in Sessions
<1> DEFINE c == CHOOSE c \in Cookies : c # session.cookie /\ \A b \in Browsers : c # jar[b]
<1>1. Started = [active |-> TRUE, idle |-> 0, shown |-> req.new, cookie |-> c]
  BY DEF Started
<1> HIDE DEF c
<1>2. c \in Cookies
  BY <1>1, FreshCookie
<1>3. 0 \in 0 .. IdleLimit + 1
  OBVIOUS
<1> QED BY <1>1, <1>2, <1>3 DEF Sessions

(* The types survive every step: each action is one handler, or one NVS     *)
(* call of management_credentials_set_admin_password.                       *)
LEMMA TypeStep == TypeOK /\ InstallInv /\ [Next]_vars => TypeOK'
<1> SUFFICES ASSUME TypeOK, InstallInv, [Next]_vars PROVE TypeOK'
  OBVIOUS
<1>s. NoSession \in Sessions
  BY DEF NoSession, Sessions
<1>l. Quiet \in Throttles
  BY DEF Quiet, Throttles
<1>r. NoRequest \in Requests
  BY DEF NoRequest, Requests
<1>n. NoHist \in Memories
  BY DEF NoHist, Memories
<1>c. ASSUME NEW b \in Browsers, NEW refresh \in BOOLEAN PROVE Checked(b, refresh) \in Sessions
  <2>1. [session EXCEPT !.idle = IF refresh THEN 0 ELSE @] \in Sessions
    BY DEF TypeOK, Sessions
  <2> QED BY <1>s, <2>1 DEF Checked, TypeOK
<1>b. ASSUME NEW b \in Browsers, NEW op \in {"setup", "login", "change"}, Begin(b, op)
      PROVE  req' \in Requests
  BY <1>b DEF Begin, Requests
<1>d. Done => req' \in Requests /\ hist' \in Memories
  <2> SUFFICES ASSUME Done PROVE req' \in Requests /\ hist' \in Memories
    OBVIOUS
  <2>1. hist \in Memories BY DEF TypeOK
  <2>2. hist' \in Memories BY Zenon, <2>1 DEF Done, Memories
  <2> QED BY <1>r, <2>2 DEF Done
<1>p. ASSUME NEW pc \in {"stage", "answer"}, NEW p \in Passwords, NEW ok \in BOOLEAN
      PROVE  [req EXCEPT !.pc = pc, !.new = p, !.ok = ok] \in Requests
  BY Zenon DEF TypeOK, Requests, Setting
<1>1. ASSUME NEW b \in Browsers, Root(b) \/ Route(b) \/ Logout(b) PROVE TypeOK'
  <2>1. session' \in Sessions BY Zenon, <1>1, <1>s, <1>c DEF Root, Route, Logout
  <2>2. jar' \in [Browsers -> Cookies \cup {NoCookie}]
    BY Zenon, <1>1 DEF Root, Route, Logout, TypeOK
  <2> QED BY Zenon, <1>1, <2>1, <2>2 DEF Root, Route, Logout, TypeOK
<1>2. ASSUME NEW b \in Browsers, SetupBegins(b) \/ LoginBegins(b) \/ ChangeBegins(b) PROVE TypeOK'
  <2>1. session' \in Sessions BY Zenon, <1>2, <1>c DEF SetupBegins, LoginBegins, ChangeBegins, TypeOK
  <2>2. req' \in Requests BY Zenon, <1>2, <1>b DEF SetupBegins, LoginBegins, ChangeBegins
  <2> QED BY Zenon, <1>2, <2>1, <2>2 DEF SetupBegins, LoginBegins, ChangeBegins, TypeOK
<1>3. CASE SetupSubmits
  <2>1. ASSUME NEW p \in Passwords PROVE [req EXCEPT !.pc = "stage", !.new = p] \in Requests
    BY Zenon DEF TypeOK, Requests, Setting
  <2> QED BY Zenon, <1>3, <1>d, <2>1 DEF SetupSubmits, TypeOK
<1>4. CASE LoginVerifies
  <2>1. Failed \in Throttles
    BY DEF Failed, TypeOK, Throttles, Requests
  <2>2. req' \in Requests /\ login' \in Throttles /\ hist' \in Memories
    <3>1. CASE login' = Failed /\ Done
      BY <1>d, <2>1, <3>1
    <3>2. CASE ~(login' = Failed /\ Done)
      <4>1. PICK p \in Passwords :
              req' = [req EXCEPT !.pc = IF NeedsMigration THEN "stage" ELSE "answer",
                                 !.new = p, !.ok = ~NeedsMigration]
        BY Zenon, <1>4, <3>2 DEF LoginVerifies
      <4>2. req' \in Requests
        BY Zenon, <1>p, <4>1
      <4> QED BY Zenon, <1>4, <3>2, <4>2 DEF LoginVerifies, TypeOK
    <3> QED BY <3>1, <3>2
  <2> QED BY Zenon, <1>4, <2>2 DEF LoginVerifies, TypeOK
<1>5. CASE ChangeVerifies
  <2>1. ASSUME NEW p \in Passwords PROVE [req EXCEPT !.pc = "stage", !.new = p] \in Requests
    BY Zenon DEF TypeOK, Requests, Setting
  <2> QED BY Zenon, <1>5, <1>d, <2>1 DEF ChangeVerifies, TypeOK
<1>6. CASE SetPassword
  <2>1. ASSUME NEW pc \in Setting PROVE [req EXCEPT !.pc = pc] \in Requests
    BY DEF TypeOK, Requests
  <2>2. ASSUME NEW ok \in BOOLEAN PROVE [req EXCEPT !.pc = "answer", !.ok = ok] \in Requests
    BY Zenon DEF TypeOK, Requests
  <2>3. ASSUME NEW from, NEW field \in {"staged", "salt", "hash", "cred"},
               NEW value \in Passwords \cup {None}, NEW next \in Setting,
               Call(from, field, value, next)
        PROVE  TypeOK'
    <3>1. nvs' \in Stores
      BY <2>3 DEF Call, TypeOK, Stores
    <3>2. req' \in Requests
      BY Zenon, <2>1, <2>2, <2>3 DEF Call
    <3>3. hist' \in Memories
      BY Zenon, <2>3 DEF Call, TypeOK, Memories
    <3> QED BY <2>3, <3>1, <3>2, <3>3 DEF Call, TypeOK
  <2>4. req.new \in Passwords \cup {None}
    BY DEF TypeOK, Requests
  <2>5. CASE Stage BY <2>3, <2>4, <2>5 DEF Stage, Setting
  <2>6. CASE CheckStaged BY Zenon, <2>1, <2>2, <2>6 DEF CheckStaged, TypeOK, Setting
  <2>7. CASE Write BY <2>3, <2>4, <2>7 DEF Write, Setting
  <2>8. CASE EraseSalt BY <2>3, <2>8 DEF EraseSalt, Setting
  <2>9. CASE EraseHash BY <2>3, <2>9 DEF EraseHash, Setting
  <2>10. CASE Unstage BY <2>3, <2>10 DEF Unstage, Setting
  <2>11. CASE Commit
    <3>1. hist' \in Memories
      BY Zenon, <2>11 DEF Commit, TypeOK, Memories
    <3>2. req' \in Requests
      BY Zenon, <2>2, <2>11 DEF Commit
    <3> QED BY <2>11, <3>1, <3>2 DEF Commit, TypeOK
  <2> QED BY <1>6, <2>5, <2>6, <2>7, <2>8, <2>9, <2>10, <2>11 DEF SetPassword
<1>7. CASE Answer
  <2>1. session' \in Sessions
    BY <1>7, StartedType DEF Answer, InstallInv, TypeOK
  <2>2. [req EXCEPT !.pc = "cookie"] \in Requests
    BY DEF TypeOK, Requests
  <2>3. hist' \in Memories
    BY Zenon, <1>7, <1>d DEF Answer, TypeOK, Memories
  <2> QED BY <1>7, <1>d, <1>l, <2>1, <2>2, <2>3 DEF Answer, TypeOK
<1>8. CASE SendCookie
  <2>1. jar' \in [Browsers -> Cookies \cup {NoCookie}]
    BY <1>8 DEF SendCookie, TypeOK, Sessions
  <2> QED BY <1>8, <1>d, <2>1 DEF SendCookie, TypeOK
<1>9. CASE ResetErases
  BY Zenon, <1>9 DEF ResetErases, TypeOK, Stores, Memories
<1>10. CASE ResetCommits \/ ResetErasesWifi
  <2>1. session.active \in BOOLEAN BY DEF TypeOK, Sessions
  <2> QED BY <1>10, <2>1 DEF ResetCommits, ResetErasesWifi, ResetGoesOn, TypeOK, Memories
<1>11. CASE ResetClears
  BY <1>11, <1>s, <1>l DEF ResetClears, TypeOK
<1>12. CASE Restart
  BY <1>12, <1>s, <1>l, <1>r, <1>n DEF Restart, TypeOK
<1>13. CASE Tick
  <2>1. session' \in Sessions BY <1>13 DEF Tick, TypeOK, Sessions
  <2>2. login' \in Throttles BY <1>13 DEF Tick, TypeOK, Throttles
  <2>3. req' \in Requests BY <1>13 DEF Tick, TypeOK, Requests
  <2> QED BY <1>13, <2>1, <2>2, <2>3 DEF Tick, TypeOK
<1>14. CASE UNCHANGED vars
  BY <1>14 DEF vars, TypeOK
<1> QED BY <1>1, <1>2, <1>3, <1>4, <1>5, <1>6, <1>7, <1>8, <1>9, <1>10, <1>11, <1>12, <1>13, <1>14
        DEF Next

(* What the store holds decides the password in force. *)
LEMMA EffectiveKept ==
    ASSUME nvs'.cred = nvs.cred, nvs'.salt = nvs.salt, nvs'.hash = nvs.hash
    PROVE  Effective' = Effective
BY DEF Effective, Legacy

(* The old salt and hash do not count once there is a credential.           *)
LEMMA LegacyIgnored ==
    ASSUME nvs'.cred = nvs.cred, nvs.cred # None
    PROVE  Effective' = Effective
BY DEF Effective

(* The check of management_session_is_authorized never opens a session.     *)
LEMMA CheckedKeeps ==
    ASSUME TypeOK, NEW b \in Browsers, NEW refresh \in BOOLEAN, Checked(b, refresh).active
    PROVE  /\ session.active /\ Checked(b, refresh).shown = session.shown
           /\ Checked(b, refresh).cookie = session.cookie
           /\ session.idle > IdleLimit => Checked(b, refresh).idle = session.idle
BY DEF Checked, Authorized, NoSession, TypeOK, Sessions

(* The requests that are answered at once, and the ones that begin, leave   *)
(* the store alone and never open a session or revive an expired one.       *)
LEMMA QuickRequest ==
    ASSUME TypeOK, NEW b \in Browsers,
           Root(b) \/ Route(b) \/ Logout(b) \/ SetupBegins(b) \/ LoginBegins(b) \/ ChangeBegins(b)
    PROVE  /\ UNCHANGED <<nvs, reset, hist>>
           /\ req.pc = "idle" /\ (req' = req \/ req'.pc = "body")
           /\ session'.active =>
                /\ session.active /\ session'.shown = session.shown
                /\ session.idle > IdleLimit => session'.idle = session.idle
<1>1. CASE Root(b) BY Zenon, <1>1, CheckedKeeps DEF Root
<1>2. CASE Route(b) BY <1>2, CheckedKeeps DEF Route
<1>3. CASE Logout(b) BY <1>3 DEF Logout, NoSession
<1>4. CASE SetupBegins(b) BY <1>4 DEF SetupBegins, Begin
<1>5. CASE LoginBegins(b) BY <1>5 DEF LoginBegins, Begin
<1>6. CASE ChangeBegins(b) BY Zenon, <1>6, CheckedKeeps DEF ChangeBegins, Begin
<1> QED BY <1>1, <1>2, <1>3, <1>4, <1>5, <1>6

(* Each step of a request, of the recovery task and of the clock keeps what *)
(* the install, the session and the reset rely on.                          *)
LEMMA ManagementStep == ManagementInv /\ [Next]_vars => ManagementInv'
<1> SUFFICES ASSUME ManagementInv, [Next]_vars PROVE ManagementInv'
  OBVIOUS
<1>0. TypeOK /\ TypeOK'
  BY TypeStep DEF ManagementInv
<1> SUFFICES InstallInv' /\ ChangeAnswered' /\ SessionInv' /\ ResetInv'
  BY <1>0 DEF ManagementInv
<1>e. UNCHANGED nvs => Effective' = Effective
  BY EffectiveKept
<1> USE DEF Written, Setting
<1>d. Done => /\ req'.pc = "idle" /\ ~hist'.erased
              /\ hist'.torn = hist.torn /\ hist'.late = hist.late
  BY <1>0 DEF Done, NoRequest, TypeOK, Memories
<1>1. ASSUME NEW b \in Browsers,
             Root(b) \/ Route(b) \/ Logout(b) \/ SetupBegins(b) \/ LoginBegins(b) \/ ChangeBegins(b)
      PROVE  InstallInv' /\ ChangeAnswered' /\ SessionInv' /\ ResetInv'
  <2>1. Effective' = Effective
    BY <1>0, <1>1, <1>e, QuickRequest
  <2> QED BY <1>0, <1>1, <2>1, QuickRequest
             DEF ManagementInv, InstallInv, ChangeAnswered, SessionInv, ResetInv
<1>2. CASE SetupSubmits
  <2>1. UNCHANGED <<nvs, reset, session>> /\ Effective' = Effective
    BY Zenon, <1>2, <1>e DEF SetupSubmits
  <2>2. CASE Done
    BY <1>2, <1>d, <2>1, <2>2 DEF SetupSubmits,
       ManagementInv, InstallInv, ChangeAnswered, SessionInv, ResetInv
  <2>3. CASE ~Done
    <3>1. /\ req.pc = "body" /\ req.op = "setup" /\ UNCHANGED hist
          /\ \E p \in Passwords : req' = [req EXCEPT !.pc = "stage", !.new = p]
      BY Zenon, <1>2, <2>3 DEF SetupSubmits
    <3>2. req'.pc = "stage" /\ req'.new \in Passwords /\ req'.op = "setup"
      BY <1>0, <3>1 DEF TypeOK, Requests
    <3> QED BY <2>1, <3>1, <3>2 DEF ManagementInv, InstallInv, ChangeAnswered, SessionInv, ResetInv
  <2> QED BY <2>2, <2>3
<1>3. CASE LoginVerifies
  <2>1. UNCHANGED <<nvs, reset, session>> /\ Effective' = Effective
    BY Zenon, <1>3, <1>e DEF LoginVerifies
  <2>2. CASE Done
    BY Zenon, <1>3, <1>d, <2>1, <2>2
       DEF LoginVerifies, ManagementInv, InstallInv, ChangeAnswered, SessionInv, ResetInv
  <2>3. CASE ~Done
    <3>1. /\ req.pc = "body" /\ UNCHANGED hist
          /\ \E p \in Passwords :
               /\ Verifies(p)
               /\ req' = [req EXCEPT !.pc = IF NeedsMigration THEN "stage" ELSE "answer",
                                      !.new = p, !.ok = ~NeedsMigration]
      BY Zenon, <1>3, <2>3 DEF LoginVerifies
    <3>2. req'.pc \in {"stage", "answer"} /\ req'.new \in Passwords /\ req'.new = Effective
      BY <1>0, <3>1 DEF TypeOK, Requests, Verifies
    <3> QED BY <2>1, <3>1, <3>2 DEF ManagementInv, InstallInv, ChangeAnswered, SessionInv, ResetInv
  <2> QED BY <2>2, <2>3
<1>4. CASE ChangeVerifies
  <2>1. UNCHANGED <<nvs, reset, session>> /\ Effective' = Effective
    BY Zenon, <1>4, <1>e DEF ChangeVerifies
  <2>2. CASE Done
    BY <1>4, <1>d, <2>1, <2>2
       DEF ChangeVerifies, ManagementInv, InstallInv, ChangeAnswered, SessionInv, ResetInv
  <2>3. CASE ~Done
    <3>1. /\ req.pc = "body" /\ req.op = "change" /\ UNCHANGED hist
          /\ \E p \in Passwords : req' = [req EXCEPT !.pc = "stage", !.new = p]
      BY Zenon, <1>4, <2>3 DEF ChangeVerifies
    <3>2. req'.pc = "stage" /\ req'.new \in Passwords /\ req'.op = "change"
      BY <1>0, <3>1 DEF TypeOK, Requests
    <3> QED BY <2>1, <3>1, <3>2 DEF ManagementInv, InstallInv, ChangeAnswered, SessionInv, ResetInv
  <2> QED BY <2>2, <2>3
<1>5. ASSUME NEW from \in Setting, NEW field \in {"staged", "salt", "hash", "cred"},
             NEW value \in Passwords \cup {None}, NEW next \in Setting,
             Call(from, field, value, next), UNCHANGED nvs, req'.pc = "answer"
      PROVE  InstallInv' /\ ChangeAnswered' /\ SessionInv' /\ ResetInv'
  <2>1. UNCHANGED <<reset, session>> /\ Effective' = Effective /\ req.pc \in Setting
    BY <1>5, <1>e DEF Call
  <2>2. /\ req' = [req EXCEPT !.pc = "answer", !.ok = FALSE]
        /\ hist' = [hist EXCEPT !.torn = @ \/ (session.active /\ nvs.cred = req.new)]
    BY <1>5, <1>0 DEF Call, TypeOK, Requests
  <2>3. /\ req'.new = req.new /\ req'.op = req.op /\ ~req'.ok
        /\ hist'.late = hist.late /\ hist'.erased = hist.erased
        /\ hist'.torn <=> hist.torn \/ (session.active /\ nvs.cred = req.new)
    BY <1>0, <2>2 DEF TypeOK, Requests, Memories
  <2> QED BY <1>5, <2>1, <2>3 DEF ManagementInv, InstallInv, ChangeAnswered, SessionInv, ResetInv
<1>6. ASSUME NEW from \in Setting, NEW field \in {"staged", "salt", "hash", "cred"},
             NEW value \in Passwords \cup {None}, NEW next \in Setting,
             Call(from, field, value, next), req'.pc # "answer"
      PROVE  /\ UNCHANGED <<reset, session>>
             /\ req.pc = from /\ req'.pc = next /\ req'.new = req.new /\ req'.op = req.op
             /\ nvs' = [nvs EXCEPT ![field] = value]
             /\ hist'.torn = hist.torn /\ hist'.erased = hist.erased
             /\ hist'.late <=> hist.late \/ (reset # "idle" /\ value # None)
  <2>1. /\ nvs' = [nvs EXCEPT ![field] = value]
        /\ req' = [req EXCEPT !.pc = next]
        /\ hist' = [hist EXCEPT !.late = @ \/ (reset # "idle" /\ value # None)]
    BY Zenon, <1>6, <1>0 DEF Call, TypeOK, Requests
  <2> QED BY <1>6, <1>0, <2>1 DEF Call, TypeOK, Requests, Memories
<1>7. CASE Stage
  <2>1. CASE req'.pc = "answer"
    <3>1. UNCHANGED nvs BY <1>0, <1>7, <2>1 DEF Stage, Call, TypeOK, Requests
    <3> QED BY <1>0, <1>5, <1>7, <2>1, <3>1 DEF Stage, TypeOK, Requests
  <2>2. CASE req'.pc # "answer"
    <3>1. /\ UNCHANGED <<reset, session>>
          /\ req.pc = "stage" /\ req'.pc = "check" /\ req'.new = req.new /\ req'.op = req.op
          /\ nvs' = [nvs EXCEPT !["staged"] = req.new]
          /\ hist'.torn = hist.torn /\ hist'.erased = hist.erased
          /\ hist'.late <=> hist.late \/ (reset # "idle" /\ req.new # None)
      BY Zenon, <1>0, <1>6, <1>7, <2>2 DEF Stage, TypeOK, Requests
    <3>2. nvs'.cred = nvs.cred /\ nvs'.salt = nvs.salt /\ nvs'.hash = nvs.hash
      BY <1>0, <3>1 DEF TypeOK, Stores
    <3>3. Effective' = Effective
      BY <3>2, EffectiveKept
    <3> QED BY <3>1, <3>2, <3>3 DEF ManagementInv, InstallInv, ChangeAnswered, SessionInv, ResetInv
  <2> QED BY <2>1, <2>2
<1>8. CASE CheckStaged
  <2>1. UNCHANGED <<nvs, session, reset, hist>> /\ Effective' = Effective
    BY <1>8, <1>e DEF CheckStaged
  <2>2. /\ req.pc = "check" /\ req'.new = req.new /\ req'.op = req.op
        /\ req'.pc = "write" \/ (req'.pc = "answer" /\ ~req'.ok)
    BY <1>0, <1>8, ZenonT(30) DEF CheckStaged, TypeOK, Requests
  <2> QED BY <2>1, <2>2 DEF ManagementInv, InstallInv, ChangeAnswered, SessionInv, ResetInv
<1>9. CASE Write
  <2>1. CASE req'.pc = "answer"
    <3>1. UNCHANGED nvs BY <1>0, <1>9, <2>1 DEF Write, Call, TypeOK, Requests
    <3> QED BY <1>0, <1>5, <1>9, <2>1, <3>1 DEF Write, TypeOK, Requests
  <2>2. CASE req'.pc # "answer"
    <3>1. /\ UNCHANGED <<reset, session>>
          /\ req.pc = "write" /\ req'.pc = "salt" /\ req'.new = req.new /\ req'.op = req.op
          /\ nvs' = [nvs EXCEPT !["cred"] = req.new]
          /\ hist'.torn = hist.torn /\ hist'.erased = hist.erased
          /\ hist'.late <=> hist.late \/ (reset # "idle" /\ req.new # None)
      BY Zenon, <1>0, <1>6, <1>9, <2>2 DEF Write, TypeOK, Requests
    <3>2. /\ nvs'.cred = req.new /\ nvs'.staged = nvs.staged
          /\ nvs'.salt = nvs.salt /\ nvs'.hash = nvs.hash
      BY <1>0, <3>1 DEF TypeOK, Stores
    <3>3. Effective' = req.new
      BY <3>1, <3>2 DEF Effective, ManagementInv, InstallInv
    <3> QED BY <3>1, <3>2, <3>3 DEF ManagementInv, InstallInv, ChangeAnswered, SessionInv, ResetInv
  <2> QED BY <2>1, <2>2
<1>10. CASE EraseSalt
  <2>1. CASE req'.pc = "answer"
    <3>1. UNCHANGED nvs BY <1>0, <1>10, <2>1 DEF EraseSalt, Call, TypeOK, Requests
    <3> QED BY <1>0, <1>5, <1>10, <2>1, <3>1 DEF EraseSalt, TypeOK, Requests
  <2>2. CASE req'.pc # "answer"
    <3>1. /\ UNCHANGED <<reset, session>>
          /\ req.pc = "salt" /\ req'.pc = "hash" /\ req'.new = req.new /\ req'.op = req.op
          /\ nvs' = [nvs EXCEPT !["salt"] = None]
          /\ hist'.torn = hist.torn /\ hist'.erased = hist.erased
          /\ hist'.late <=> hist.late \/ (reset # "idle" /\ None # None)
      BY Zenon, <1>0, <1>6, <1>10, <2>2 DEF EraseSalt, TypeOK, Requests
    <3>2. nvs'.cred = nvs.cred /\ nvs'.staged = nvs.staged /\ nvs'.hash = nvs.hash /\ nvs'.salt = None
      BY <1>0, <3>1 DEF TypeOK, Stores
    <3>3. Effective' = Effective
      <4>1. CASE nvs.cred = req.new
        BY <3>1, <3>2, <4>1, LegacyIgnored DEF ManagementInv, InstallInv
      <4>2. CASE hist.erased
        BY <3>2, <4>2, EffectiveKept DEF ManagementInv, InstallInv
      <4> QED BY <3>1, <4>1, <4>2 DEF ManagementInv, InstallInv
    <3> QED BY <3>1, <3>2, <3>3 DEF ManagementInv, InstallInv, ChangeAnswered, SessionInv, ResetInv
  <2> QED BY <2>1, <2>2
<1>11. CASE EraseHash
  <2>1. CASE req'.pc = "answer"
    <3>1. UNCHANGED nvs BY <1>0, <1>11, <2>1 DEF EraseHash, Call, TypeOK, Requests
    <3> QED BY <1>0, <1>5, <1>11, <2>1, <3>1 DEF EraseHash, TypeOK, Requests
  <2>2. CASE req'.pc # "answer"
    <3>1. /\ UNCHANGED <<reset, session>>
          /\ req.pc = "hash" /\ req'.pc = "unstage" /\ req'.new = req.new /\ req'.op = req.op
          /\ nvs' = [nvs EXCEPT !["hash"] = None]
          /\ hist'.torn = hist.torn /\ hist'.erased = hist.erased
          /\ hist'.late <=> hist.late \/ (reset # "idle" /\ None # None)
      BY Zenon, <1>0, <1>6, <1>11, <2>2 DEF EraseHash, TypeOK, Requests
    <3>2. nvs'.cred = nvs.cred /\ nvs'.staged = nvs.staged /\ nvs'.salt = nvs.salt /\ nvs'.hash = None
      BY <1>0, <3>1 DEF TypeOK, Stores
    <3>3. Effective' = Effective
      <4>1. CASE nvs.cred = req.new
        BY <3>1, <3>2, <4>1, LegacyIgnored DEF ManagementInv, InstallInv
      <4>2. CASE hist.erased
        BY <3>2, <4>2, EffectiveKept DEF ManagementInv, InstallInv
      <4> QED BY <3>1, <4>1, <4>2 DEF ManagementInv, InstallInv
    <3> QED BY <3>1, <3>2, <3>3 DEF ManagementInv, InstallInv, ChangeAnswered, SessionInv, ResetInv
  <2> QED BY <2>1, <2>2
<1>12. CASE Unstage
  <2>1. CASE req'.pc = "answer"
    <3>1. UNCHANGED nvs BY <1>0, <1>12, <2>1 DEF Unstage, Call, TypeOK, Requests
    <3> QED BY <1>0, <1>5, <1>12, <2>1, <3>1 DEF Unstage, TypeOK, Requests
  <2>2. CASE req'.pc # "answer"
    <3>1. /\ UNCHANGED <<reset, session>>
          /\ req.pc = "unstage" /\ req'.pc = "commit" /\ req'.new = req.new /\ req'.op = req.op
          /\ nvs' = [nvs EXCEPT !["staged"] = None]
          /\ hist'.torn = hist.torn /\ hist'.erased = hist.erased
          /\ hist'.late <=> hist.late \/ (reset # "idle" /\ None # None)
      BY Zenon, <1>0, <1>6, <1>12, <2>2 DEF Unstage, TypeOK, Requests
    <3>2. nvs'.cred = nvs.cred /\ nvs'.salt = nvs.salt /\ nvs'.hash = nvs.hash /\ nvs'.staged = None
      BY <1>0, <3>1 DEF TypeOK, Stores
    <3>3. Effective' = Effective
      BY <3>2, EffectiveKept
    <3> QED BY <3>1, <3>2, <3>3 DEF ManagementInv, InstallInv, ChangeAnswered, SessionInv, ResetInv
  <2> QED BY <2>1, <2>2
<1>13. CASE Commit
  <2>1. UNCHANGED <<nvs, session, reset>> /\ Effective' = Effective
    BY <1>13, <1>e DEF Commit
  <2>2. PICK ok \in BOOLEAN :
           /\ req' = [req EXCEPT !.pc = "answer", !.ok = ok]
           /\ hist' = [hist EXCEPT !.torn = @ \/ (~ok /\ session.active /\ nvs.cred = req.new)]
    BY Zenon, <1>13 DEF Commit
  <2>3. /\ req.pc = "commit" /\ req'.pc = "answer" /\ req'.ok = ok
        /\ req'.new = req.new /\ req'.op = req.op
        /\ hist'.late = hist.late /\ hist'.erased = hist.erased
        /\ hist'.torn <=> hist.torn \/ (~ok /\ session.active /\ nvs.cred = req.new)
    BY <1>0, <1>13, <2>2, ZenonT(30) DEF Commit, TypeOK, Requests, Memories
  <2>4. nvs.cred = req.new /\ req.new \in Passwords => Effective = req.new
    BY DEF Effective
  <2> QED BY <2>1, <2>3, <2>4 DEF ManagementInv, InstallInv, ChangeAnswered, SessionInv, ResetInv
<1>14. CASE Answer
  <2>1. UNCHANGED <<nvs, reset>> /\ Effective' = Effective
    BY <1>14, <1>e DEF Answer
  <2>2. CASE Done
    <3>1. UNCHANGED session /\ req.pc = "answer" /\ ~req.ok
      BY <1>0, <1>14, <2>2 DEF Answer, Done, NoRequest, TypeOK, Requests
    <3> QED BY <1>d, <2>1, <2>2, <3>1 DEF ManagementInv, InstallInv, ChangeAnswered, SessionInv,
                                          ResetInv
  <2>3. CASE ~Done
    <3>1. /\ req.pc = "answer" /\ (req.ok \/ req.op = "login")
          /\ session' = Started /\ req' = [req EXCEPT !.pc = "cookie"]
          /\ hist' = [hist EXCEPT !.torn = hist.erased, !.late = @ \/ reset = "restart"]
      BY <1>14, <2>3 DEF Answer
    <3>2. /\ req'.pc = "cookie" /\ req'.new = req.new /\ session'.shown = req.new
          /\ hist'.torn = hist.erased /\ hist'.erased = hist.erased
          /\ hist'.late <=> hist.late \/ reset = "restart"
      BY Zenon, <1>0, <3>1 DEF TypeOK, Requests, Memories, Started
    <3>3. Effective = req.new \/ hist.erased
      BY <3>1 DEF ManagementInv, InstallInv, ChangeAnswered, SessionInv, ResetInv
    <3> QED BY <2>1, <3>1, <3>2, <3>3
               DEF ManagementInv, InstallInv, ChangeAnswered, SessionInv, ResetInv
  <2> QED BY <2>2, <2>3
<1>15. CASE SendCookie
  <2>1. UNCHANGED <<nvs, reset, session>> /\ Effective' = Effective /\ Done
    BY <1>15, <1>e DEF SendCookie
  <2> QED BY <1>15, <1>d, <2>1
             DEF SendCookie, ManagementInv, InstallInv, ChangeAnswered, SessionInv, ResetInv
<1>16. CASE ResetErases
  <2>1. hist'.torn = hist.torn /\ hist'.late = hist.late /\ (hist'.erased <=> req.pc # "idle")
    BY <1>0, <1>16 DEF ResetErases, TypeOK, Memories
  <2>2. /\ reset' = "commit" /\ UNCHANGED <<session, req>>
        /\ nvs'.cred = None /\ nvs'.staged = None /\ nvs'.salt = None /\ nvs'.hash = None
    BY <1>16 DEF ResetErases
  <2> QED BY <2>1, <2>2 DEF ManagementInv, InstallInv, ChangeAnswered, SessionInv, ResetInv
<1>17. CASE ResetCommits \/ ResetErasesWifi
  <2>1. /\ UNCHANGED <<nvs, session, req>> /\ Effective' = Effective
        /\ reset # "idle" /\ reset' # "restart"
        /\ hist'.late = hist.late /\ hist'.erased = hist.erased
        /\ reset' = "idle" => hist'.torn = session.active
    BY <1>0, <1>17, <1>e DEF ResetCommits, ResetErasesWifi, ResetGoesOn, TypeOK, Memories
  <2> QED BY <2>1 DEF ManagementInv, InstallInv, ChangeAnswered, SessionInv, ResetInv
<1>18. CASE ResetClears
  <2>1. UNCHANGED <<nvs, req, hist>> /\ Effective' = Effective /\ reset = "clear" /\ reset' = "restart"
                                    /\ ~session'.active
    BY <1>18, <1>e DEF ResetClears, NoSession
  <2> QED BY <2>1 DEF ManagementInv, InstallInv, ChangeAnswered, SessionInv, ResetInv
<1>19. CASE Restart
  <2>1. /\ UNCHANGED nvs /\ Effective' = Effective /\ ~session'.active /\ reset' = "idle"
        /\ req'.pc = "idle" /\ ~hist'.erased
    BY <1>19, <1>e DEF Restart, NoSession, NoRequest, NoHist
  <2> QED BY <2>1 DEF ManagementInv, InstallInv, ChangeAnswered, SessionInv, ResetInv
<1>20. CASE Tick
  <2>1. UNCHANGED <<nvs, reset, hist>> /\ Effective' = Effective
    BY <1>20, <1>e DEF Tick
  <2>2. /\ session'.active = session.active /\ session'.shown = session.shown
        /\ req'.pc = req.pc /\ req'.op = req.op /\ req'.new = req.new /\ req'.ok = req.ok
    BY <1>0, <1>20 DEF Tick, TypeOK, Sessions, Requests
  <2> QED BY <2>1, <2>2 DEF ManagementInv, InstallInv, ChangeAnswered, SessionInv, ResetInv
<1>21. CASE UNCHANGED vars
  <2>1. UNCHANGED <<nvs, session, req, reset, hist>> /\ Effective' = Effective
    BY <1>21, <1>e DEF vars
  <2> QED BY <2>1 DEF ManagementInv, InstallInv, ChangeAnswered, SessionInv, ResetInv
<1> QED BY <1>1, <1>2, <1>3, <1>4, <1>7, <1>8, <1>9, <1>10, <1>11, <1>12, <1>13, <1>14, <1>15,
           <1>16, <1>17, <1>18, <1>19, <1>20, <1>21 DEF Next, SetPassword

(* A device as it leaves the factory or an earlier release satisfies it.    *)
LEMMA ManagementInitially == Init => ManagementInv
<1> SUFFICES ASSUME Init PROVE ManagementInv
  OBVIOUS
<1>1. PICK c \in Passwords \cup {None, Foreign}, l \in Passwords \cup {None} :
        nvs = [cred |-> c, staged |-> None, salt |-> l, hash |-> l]
  BY Zenon DEF Init
<1>2. nvs \in Stores
  BY <1>1 DEF Stores
<1>3. session \in Sessions /\ login \in Throttles /\ req \in Requests /\ hist \in Memories
  BY DEF Init, NoSession, Sessions, Quiet, Throttles, NoRequest, Requests, NoHist, Memories
<1>4. TypeOK
  BY <1>2, <1>3 DEF Init, TypeOK
<1>5. ~session.active /\ reset = "idle" /\ req.pc = "idle" /\ ~hist.erased
  BY DEF Init, NoSession, NoRequest, NoHist
<1> QED BY <1>4, <1>5 DEF ManagementInv, InstallInv, ChangeAnswered, SessionInv, ResetInv,
                         Written, Setting

(* management_credentials_set_admin_password, the session it leads to and   *)
(* the factory reset agree, whatever fails and whenever power is lost: a    *)
(* success that is reported is in force, a session belongs to somebody who  *)
(* showed the password in force, a reset leaves nothing that was there.     *)
THEOREM ManagementIsSafe == Spec => []ManagementSafe
<1>1. ManagementInv => ManagementSafe
  <2> SUFFICES ASSUME ManagementInv PROVE ManagementSafe
    OBVIOUS
  <2>1. SessionMatchesPassword
    BY DEF ManagementInv, SessionInv, SessionMatchesPassword, Written
  <2>2. ResetLeavesNothing
    <3>1. DOMAIN nvs = {"cred", "staged", "salt", "hash"}
      BY DEF ManagementInv, TypeOK, Stores
    <3> QED BY <3>1 DEF ManagementInv, ResetInv, ResetLeavesNothing
  <2> QED BY <2>1, <2>2 DEF ManagementInv, ManagementSafe
<1> QED BY <1>1, ManagementInitially, ManagementStep, PTL DEF Spec

(* A session left idle beyond MANAGEMENT_SESSION_IDLE_SECONDS is never      *)
(* revived: the only way in is management_session_start, with a cookie that *)
(* no browser holds.                                                        *)
THEOREM ExpiredStaysOut == Spec => ExpiredNotRevived
<1>1. ManagementInv /\ [Next]_vars =>
        [session.active /\ session.idle > IdleLimit /\ session'.active =>
           session'.idle > IdleLimit \/ session'.cookie # session.cookie]_vars
  <2> SUFFICES ASSUME TypeOK, Next, session.active, session.idle > IdleLimit, session'.active
               PROVE  session'.idle > IdleLimit \/ session'.cookie # session.cookie
    BY DEF ManagementInv
  <2>1. ASSUME NEW b \in Browsers,
               Root(b) \/ Route(b) \/ Logout(b) \/ SetupBegins(b) \/ LoginBegins(b) \/ ChangeBegins(b)
        PROVE  session'.idle > IdleLimit
    BY <2>1, QuickRequest
  <2>2. CASE SetupSubmits \/ LoginVerifies \/ ChangeVerifies \/ SetPassword \/ SendCookie \/ ResetErases
             \/ ResetCommits \/ ResetErasesWifi
    BY Zenon, <2>2
       DEF SetupSubmits, LoginVerifies, ChangeVerifies, SetPassword, Stage, CheckStaged, Write,
       EraseSalt, EraseHash, Unstage, Commit, Call, SendCookie, ResetErases, ResetCommits,
       ResetErasesWifi, ResetGoesOn
  <2>3. CASE Answer
    <3>1. session' = Started \/ session' = session
      BY <2>3 DEF Answer
    <3> QED BY <3>1, FreshCookie
  <2>4. CASE ResetClears \/ Restart
    BY <2>4 DEF ResetClears, Restart, NoSession
  <2>5. CASE Tick
    BY <2>5 DEF Tick, TypeOK, Sessions
  <2> QED BY <2>1, <2>2, <2>3, <2>4, <2>5 DEF Next
<1> QED BY <1>1, ManagementInitially, ManagementStep, PTL DEF Spec, ExpiredNotRevived

-----------------------------------------------------------------------------
(* The refinement: CredentialRegister holds the password in force, the one  *)
(* that a request under way installs, and whether the device is being reset.*)
AskedFor == IF req.pc \in Setting THEN req.new ELSE None

(* The stored credential starts as a register that nobody is writing.       *)
LEMMA RegisterInitially == Init => Register!Init
<1> SUFFICES ASSUME Init PROVE Register!Init
  OBVIOUS
<1>1. Effective \in Passwords \cup {None}
  BY DEF Init, Effective, Legacy
<1>2. req.pc \notin Setting /\ reset = "idle"
  BY DEF Init, NoRequest, Setting
<1> QED BY <1>1, <1>2 DEF Register!Init

(* Every step of the httpd task, of the recovery task and of power is one   *)
(* step of the register or leaves it alone.                                 *)
LEMMA RegisterStep == ManagementInv /\ [Next]_vars => [Register!Next]_(Register!vars)
<1> SUFFICES ASSUME ManagementInv, [Next]_vars PROVE [Register!Next]_(Register!vars)
  OBVIOUS
<1>0. TypeOK /\ InstallInv
  BY DEF ManagementInv
<1>e. UNCHANGED nvs => Effective' = Effective
  BY EffectiveKept
<1>s. Effective' = Effective /\ AskedFor' = AskedFor /\ (reset' = "idle" <=> reset = "idle") =>
        UNCHANGED Register!vars
  BY DEF Register!vars, AskedFor
<1>a. ASSUME Effective' = Effective, reset' = reset, req.pc \notin Setting, req'.pc = "stage",
             req'.new \in Passwords
      PROVE  Register!Next
  BY <1>a DEF Register!Next, Register!Ask, Setting
<1>f. ASSUME Effective' = Effective, reset' = reset, req.pc \in Setting, req'.pc = "answer"
      PROVE  Register!Next
  <2>1. req.new # None
    BY <1>0, <1>f DEF InstallInv
  <2> QED BY <1>f, <2>1 DEF Register!Next, Register!Forget, Setting
<1>1. ASSUME NEW b \in Browsers,
             Root(b) \/ Route(b) \/ Logout(b) \/ SetupBegins(b) \/ LoginBegins(b) \/ ChangeBegins(b)
      PROVE  UNCHANGED Register!vars
  <2>1. UNCHANGED <<nvs, reset>> /\ (req' = req \/ (req.pc = "idle" /\ req'.pc = "body"))
    BY <1>0, <1>1, QuickRequest
  <2>2. AskedFor' = AskedFor
    BY <2>1 DEF AskedFor, Setting
  <2> QED BY <1>e, <1>s, <2>1, <2>2
<1>2. CASE SetupSubmits \/ ChangeVerifies
  <2>1. UNCHANGED <<nvs, reset>> /\ req.pc = "body"
    BY Zenon, <1>2 DEF SetupSubmits, ChangeVerifies
  <2>2. CASE Done
    BY <1>e, <1>s, <2>1, <2>2 DEF Done, NoRequest, AskedFor, Setting
  <2>3. CASE ~Done
    <3>1. \E p \in Passwords : req' = [req EXCEPT !.pc = "stage", !.new = p]
      BY Zenon, <1>2, <2>3 DEF SetupSubmits, ChangeVerifies
    <3>2. req'.pc = "stage" /\ req'.new \in Passwords
      BY <1>0, <3>1 DEF TypeOK, Requests
    <3> QED BY <1>a, <1>e, <2>1, <3>2 DEF Setting
  <2> QED BY <2>2, <2>3
<1>3. CASE LoginVerifies
  <2>1. UNCHANGED <<nvs, reset>> /\ req.pc = "body"
    BY Zenon, <1>3 DEF LoginVerifies
  <2>2. CASE Done
    BY <1>e, <1>s, <2>1, <2>2 DEF Done, NoRequest, AskedFor, Setting
  <2>3. CASE ~Done
    <3>1. \E p \in Passwords : req' = [req EXCEPT !.pc = IF NeedsMigration THEN "stage" ELSE "answer",
                                                  !.new = p, !.ok = ~NeedsMigration]
      BY Zenon, <1>3, <2>3 DEF LoginVerifies
    <3>2. req'.pc \in {"stage", "answer"} /\ req'.new \in Passwords
      BY <1>0, <3>1 DEF TypeOK, Requests
    <3>3. CASE req'.pc = "stage"
      BY <1>a, <1>e, <2>1, <3>2, <3>3 DEF Setting
    <3>4. CASE req'.pc = "answer"
      BY <1>e, <1>s, <2>1, <3>4 DEF AskedFor, Setting
    <3> QED BY <3>2, <3>3, <3>4
  <2> QED BY <2>2, <2>3
<1>4. ASSUME NEW from \in Setting, NEW field \in {"staged", "salt", "hash", "cred"},
             NEW value \in Passwords \cup {None}, NEW next \in Setting,
             Call(from, field, value, next)
      PROVE  \/ Register!Next
             \/ /\ nvs' = [nvs EXCEPT ![field] = value]
                /\ req.pc = from /\ req'.pc = next /\ req'.new = req.new /\ reset' = reset
  <2>1. CASE nvs' = [nvs EXCEPT ![field] = value] /\ req' = [req EXCEPT !.pc = next]
    BY <1>0, <1>4, <2>1 DEF Call, TypeOK, Requests
  <2>2. CASE req' = [req EXCEPT !.pc = "answer", !.ok = FALSE] /\ UNCHANGED nvs
    <3>1. req'.pc = "answer" /\ req.pc \in Setting /\ reset' = reset
      BY <1>0, <1>4, <2>2 DEF Call, TypeOK, Requests
    <3> QED BY <1>e, <1>f, <2>2, <3>1
  <2> QED BY <1>4, <2>1, <2>2 DEF Call
<1>n. req.new \in Passwords \cup {None}
  BY <1>0 DEF TypeOK, Requests
<1>5. CASE Stage \/ Unstage
  <2>1. CASE Register!Next BY <2>1
  <2>2. CASE ~Register!Next
    <3>1. /\ \E v : nvs' = [nvs EXCEPT !["staged"] = v]
          /\ req.pc \in Setting /\ req'.pc \in Setting /\ req'.new = req.new /\ reset' = reset
      BY <1>4, <1>5, <1>n, <2>2 DEF Stage, Unstage, Setting
    <3>2. nvs'.cred = nvs.cred /\ nvs'.salt = nvs.salt /\ nvs'.hash = nvs.hash
      BY <1>0, <3>1 DEF TypeOK, Stores
    <3> QED BY <1>s, <3>1, <3>2, EffectiveKept DEF AskedFor
  <2> QED BY <2>1, <2>2
<1>6. CASE CheckStaged
  <2>1. UNCHANGED <<nvs, reset>> /\ req.pc = "check"
    BY <1>6 DEF CheckStaged
  <2>2. req'.pc = "answer" \/ (req'.pc = "write" /\ req'.new = req.new)
    BY Zenon, <1>0, <1>6 DEF CheckStaged, TypeOK, Requests
  <2>3. CASE req'.pc = "answer"
    BY <1>e, <1>f, <2>1, <2>3 DEF Setting
  <2>4. CASE req'.pc = "write" /\ req'.new = req.new
    BY <1>e, <1>s, <2>1, <2>4 DEF AskedFor, Setting
  <2> QED BY <2>2, <2>3, <2>4
<1>7. CASE Write
  <2>1. CASE Register!Next BY <2>1
  <2>2. CASE ~Register!Next
    <3>1. /\ nvs' = [nvs EXCEPT !["cred"] = req.new]
          /\ req.pc = "write" /\ req'.pc = "salt" /\ req'.new = req.new /\ reset' = reset
      BY <1>4, <1>7, <1>n, <2>2 DEF Write, Setting
    <3>2. nvs'.cred = req.new
      BY <1>0, <3>1 DEF TypeOK, Stores
    <3>3. req.new \in Passwords
      BY <1>0, <3>1 DEF InstallInv, Setting
    <3>4. Effective' = req.new
      BY <3>2, <3>3 DEF Effective
    <3>5. Register!Take
      BY <3>1, <3>3, <3>4 DEF Register!Take, Setting
    <3> QED BY <3>5 DEF Register!Next
  <2> QED BY <2>1, <2>2
<1>8. CASE EraseSalt \/ EraseHash
  <2>1. CASE Register!Next BY <2>1
  <2>2. CASE ~Register!Next
    <3>1. /\ nvs' = [nvs EXCEPT !["salt"] = None] \/ nvs' = [nvs EXCEPT !["hash"] = None]
          /\ req.pc \in Written /\ req'.pc \in Setting /\ req'.new = req.new /\ reset' = reset
      BY <1>4, <1>8, <2>2 DEF EraseSalt, EraseHash, Setting, Written
    <3>2. /\ nvs'.cred = nvs.cred
          /\ nvs'.salt = nvs.salt \/ nvs'.salt = None
          /\ nvs'.hash = nvs.hash \/ nvs'.hash = None
      BY <1>0, <3>1 DEF TypeOK, Stores
    <3>3. Effective' = Effective
      <4>1. CASE nvs.cred = req.new
        BY <1>0, <3>1, <3>2, <4>1, LegacyIgnored DEF InstallInv, Setting, Written
      <4>2. CASE hist.erased
        BY <1>0, <3>2, <4>2, EffectiveKept DEF InstallInv
      <4> QED BY <1>0, <3>1, <4>1, <4>2 DEF InstallInv
    <3> QED BY <1>s, <3>1, <3>3 DEF AskedFor, Setting, Written
  <2> QED BY <2>1, <2>2
<1>9. CASE Commit
  <2>1. UNCHANGED <<nvs, reset>> /\ req.pc = "commit" /\ req'.pc = "answer"
    BY <1>0, <1>9 DEF Commit, TypeOK, Requests
  <2> QED BY <1>e, <1>f, <2>1 DEF Setting
<1>10. CASE Answer \/ SendCookie
  <2>1. UNCHANGED <<nvs, reset>> /\ req.pc \notin Setting
    BY <1>10 DEF Answer, SendCookie, Setting
  <2>2. req'.pc \notin Setting
    BY <1>0, <1>10 DEF Answer, SendCookie, Done, NoRequest, TypeOK, Requests, Setting
  <2> QED BY <1>e, <1>s, <2>1, <2>2 DEF AskedFor
<1>11. CASE ResetErases
  <2>1. Effective' = None
    BY <1>11 DEF ResetErases, Effective, Legacy
  <2>2. Register!Erase
    BY <1>11, <2>1 DEF ResetErases, Register!Erase
  <2> QED BY <2>2 DEF Register!Next
<1>12. CASE ResetCommits \/ ResetErasesWifi \/ ResetClears
  <2>1. UNCHANGED <<nvs, req>> /\ reset # "idle"
    BY <1>12 DEF ResetCommits, ResetErasesWifi, ResetGoesOn, ResetClears
  <2>2. CASE reset' = "idle"
    <3>1. Register!EraseEnds
      BY <1>e, <2>1, <2>2 DEF Register!EraseEnds
    <3> QED BY <3>1 DEF Register!Next
  <2>3. CASE reset' # "idle"
    BY <1>e, <1>s, <2>1, <2>3 DEF AskedFor
  <2> QED BY <2>2, <2>3
<1>13. CASE Restart
  <2>1. UNCHANGED nvs /\ reset' = "idle" /\ req'.pc \notin Setting
    BY <1>13 DEF Restart, NoRequest, Setting
  <2>2. CASE reset # "idle"
    <3>1. Register!EraseEnds
      BY <1>e, <2>1, <2>2 DEF Register!EraseEnds
    <3> QED BY <3>1 DEF Register!Next
  <2>3. CASE reset = "idle" /\ req.pc \in Setting
    <3>1. req.new # None
      BY <1>0, <2>3 DEF InstallInv
    <3>2. Register!Forget
      BY <1>e, <2>1, <2>3, <3>1 DEF Register!Forget
    <3> QED BY <3>2 DEF Register!Next
  <2>4. CASE reset = "idle" /\ req.pc \notin Setting
    BY <1>e, <1>s, <2>1, <2>4 DEF AskedFor
  <2> QED BY <2>2, <2>3, <2>4
<1>14. CASE Tick
  <2>1. UNCHANGED <<nvs, reset>> /\ req'.pc = req.pc /\ req'.new = req.new
    BY <1>0, <1>14 DEF Tick, TypeOK, Requests
  <2> QED BY <1>e, <1>s, <2>1 DEF AskedFor
<1>15. CASE UNCHANGED vars
  BY <1>e, <1>s, <1>15 DEF vars, AskedFor
<1> QED BY <1>1, <1>2, <1>3, <1>5, <1>6, <1>7, <1>8, <1>9, <1>10, <1>11, <1>12, <1>13, <1>14, <1>15
        DEF Next, SetPassword

(* The credential in NVS is one register: management_credentials_set_admin_ *)
(* password puts the new password in force in a single step, although it    *)
(* writes four keys and any call may fail or be the last before power goes. *)
THEOREM CredentialRefinesRegister == Spec => CredentialIsRegister
BY RegisterInitially, RegisterStep, ManagementInitially, ManagementStep, PTL
   DEF Spec, CredentialIsRegister, Register!Spec

HIDE ManagementAssumption

-----------------------------------------------------------------------------
(* A table that api_token_store_load accepts, with a secret of its own in    *)
(* every record.                                                             *)
Distinct(table) ==
    \A i, j \in TokenSlots :
       i # j /\ table[i].active /\ table[j].active => table[i].secret # table[j].secret
TableOK(table) == Loads(table) /\ Distinct(table)

(* What the request has drawn up, and what it still owes.                    *)
CopyOK ==
    /\ TableOK(tokenReq.copy)
    /\ tokenReq.op = "create" =>
         /\ Secrets(blob) \subseteq Secrets(tokenReq.copy)
         /\ tokenReq.secret \subseteq Secrets(tokenReq.copy)
    /\ tokenReq.op = "delete" =>
         /\ Secrets(blob) \subseteq Secrets(tokenReq.copy) \cup tokenReq.secret
         /\ tokenReq.secret \cap Secrets(tokenReq.copy) = {}
    /\ ~tokenLog.late => Secrets(tokenReq.copy) \cap tokenLog.dropped = {}

WrittenOK ==
    /\ tokenReq.op = "create" => tokenReq.secret \subseteq Secrets(blob) \cup tokenLog.erased
    /\ tokenReq.op = "delete" => tokenReq.secret \subseteq tokenLog.dropped

LogOK ==
    /\ tokenLog.deleted \subseteq tokenLog.dropped
    /\ tokenLog.shown \subseteq Secrets(blob) \cup tokenLog.dropped \cup tokenLog.erased
    /\ ~tokenLog.late => Secrets(blob) \cap (tokenLog.dropped \cup tokenLog.erased) = {}

TokenInv ==
    /\ TokenTypeOK /\ TableOK(blob) /\ LogOK
    /\ tokenReq.pc # "idle" => tokenReq.op \in {"create", "delete"}
    /\ tokenReq.pc = "save" => CopyOK
    /\ tokenReq.pc \in {"commit", "answer"} => WrittenOK

Tables == [TokenSlots -> TokenRecords]

(* Nothing is accepted from an empty table.                                  *)
LEMMA EmptyTable ==
    ASSUME NEW table, table = [i \in TokenSlots |-> Inactive]
    PROVE  table \in Tables /\ TableOK(table) /\ Secrets(table) = {}
BY DEF Tables, TokenRecords, TableOK, Loads, Distinct, Secrets, Inactive, TokenSlots

Added(table, slot, name, id, secret) ==
    [table EXCEPT ![slot] = [active |-> TRUE, name |-> name, id |-> id, secret |-> secret]]

FreshId(table, id) == \A i \in TokenSlots : table[i].active => table[i].id # id

(* A record in a free slot adds its secret and disturbs no other.            *)
LEMMA RecordAdded ==
    ASSUME NEW table \in Tables, TableOK(table), NEW slot \in Available(table),
           NEW name \in TokenNames, NEW id \in TokenIds, NEW secret \in TokenSecrets,
           ~NameExists(table, name), FreshId(table, id), secret \notin Secrets(table)
    PROVE  /\ Added(table, slot, name, id, secret) \in Tables
           /\ TableOK(Added(table, slot, name, id, secret))
           /\ Secrets(Added(table, slot, name, id, secret)) = Secrets(table) \cup {secret}
<1> DEFINE new == Added(table, slot, name, id, secret)
           r == [active |-> TRUE, name |-> name, id |-> id, secret |-> secret]
<1>0. r \in TokenRecords /\ r.active /\ r.name = name /\ r.id = id /\ r.secret = secret
  BY DEF TokenRecords
<1>1. slot \in TokenSlots /\ ~table[slot].active
  BY DEF Available
<1>2. new[slot] = r /\ \A i \in TokenSlots : i # slot => new[i] = table[i]
  BY <1>1 DEF Tables, Added
<1>3. new \in Tables
  BY <1>0, <1>1 DEF Tables, Added
<1> HIDE DEF r, new
<1>4. Secrets(new) = Secrets(table) \cup {secret}
  BY <1>0, <1>1, <1>2 DEF Secrets
<1>5. \A i \in TokenSlots : i # slot /\ table[i].active =>
          ~NamesEqual(table[i].name, name) /\ table[i].id # id /\ table[i].secret # secret
  BY DEF NameExists, Secrets, FreshId
<1>6. Loads(new)
  <2> SUFFICES ASSUME NEW i \in TokenSlots, NEW j \in TokenSlots, i < j, new[i].active, new[j].active
               PROVE  ~NamesEqual(new[i].name, new[j].name) /\ new[i].id # new[j].id
    BY DEF Loads
  <2>1. CASE i = slot
    <3>1. j # slot /\ new[j] = table[j] /\ new[i].name = name /\ new[i].id = id
      BY <1>0, <1>2, <2>1 DEF TokenSlots
    <3> QED BY <1>5, <3>1 DEF NamesEqual
  <2>2. CASE j = slot
    <3>1. i # slot /\ new[i] = table[i] /\ new[j].name = name /\ new[j].id = id
      BY <1>0, <1>2, <2>2 DEF TokenSlots
    <3> QED BY <1>5, <3>1 DEF NamesEqual
  <2>3. CASE i # slot /\ j # slot
    BY <1>2, <2>3 DEF Loads, TableOK
  <2> QED BY <2>1, <2>2, <2>3
<1>7. Distinct(new)
  BY <1>0, <1>1, <1>2, <1>5 DEF Distinct, TableOK
<1> QED BY <1>3, <1>4, <1>6, <1>7 DEF TableOK, new

(* A record taken out takes its secret with it; the others move up.          *)
LEMMA RecordRemoved ==
    ASSUME NEW table \in Tables, TableOK(table), NEW slot \in TokenSlots, table[slot].active
    PROVE  /\ Without(table, slot) \in Tables /\ TableOK(Without(table, slot))
           /\ Secrets(Without(table, slot)) = Secrets(table) \ {table[slot].secret}
<1> DEFINE new == Without(table, slot)
           Old(i) == IF i < slot THEN i ELSE i + 1
<1>0. TokenCapacity \in Nat \ {0}
  BY TokenAssumption
<1>1. new \in Tables
  <2>1. Inactive \in TokenRecords
    BY DEF TokenRecords
  <2>2. ASSUME NEW i \in TokenSlots, i < TokenCapacity PROVE table[i + 1] \in TokenRecords
    <3>1. i + 1 \in TokenSlots
      BY <1>0, <2>2 DEF TokenSlots
    <3> QED BY <3>1 DEF Tables
  <2>3. ASSUME NEW i \in TokenSlots PROVE table[i] \in TokenRecords
    BY DEF Tables
  <2> QED BY <2>1, <2>2, <2>3 DEF Without, Tables
<1>2. \A i \in TokenSlots : new[i] = IF i < slot THEN table[i]
                                     ELSE IF i < TokenCapacity THEN table[i + 1] ELSE Inactive
  BY DEF Without
<1>3. \A i \in TokenSlots : new[i].active =>
         Old(i) \in TokenSlots /\ Old(i) # slot /\ new[i] = table[Old(i)]
  BY <1>0, <1>2 DEF TokenSlots, Inactive
<1>4. \A j \in TokenSlots : j # slot =>
         \E i \in TokenSlots : Old(i) = j /\ new[i] = table[j]
  <2> TAKE j \in TokenSlots
  <2> HAVE j # slot
  <2>1. CASE j < slot
    BY <2>1, <1>2 DEF TokenSlots
  <2>2. CASE j > slot
    <3>1. j - 1 \in TokenSlots /\ ~(j - 1 < slot) /\ j - 1 < TokenCapacity /\ (j - 1) + 1 = j
      BY <2>2, <1>0 DEF TokenSlots
    <3> QED BY <1>2, <3>1
  <2> QED BY <2>1, <2>2 DEF TokenSlots
<1>5. \A i, j \in TokenSlots : i < j => Old(i) < Old(j)
  BY DEF TokenSlots
<1> HIDE DEF new, Old
<1>6. Loads(new)
  BY <1>3, <1>5 DEF Loads, TableOK
<1>7. Distinct(new)
  <2>1. \A i, j \in TokenSlots : i # j => Old(i) # Old(j)
    BY <1>0 DEF TokenSlots, Old
  <2> QED BY <1>3, <2>1 DEF Distinct, TableOK
<1>8. Secrets(new) = Secrets(table) \ {table[slot].secret}
  BY <1>3, <1>4 DEF Secrets, Distinct, TableOK
<1> QED BY <1>1, <1>6, <1>7, <1>8 DEF new, TableOK

LEMMA IdleRequest == TokenIdle \in TokenRequests /\ TokenIdle.pc = "idle"
<1>1. TokenIdle.copy \in Tables
  BY EmptyTable DEF TokenIdle
<1> QED BY <1>1 DEF TokenIdle, TokenRequests, Tables

LEMMA SecretsType == ASSUME NEW table \in Tables PROVE Secrets(table) \subseteq TokenSecrets
<1>1. ASSUME NEW i \in TokenSlots, table[i].active PROVE table[i].secret \in TokenSecrets
  <2>1. table[i] \in TokenRecords /\ table[i] # Inactive
    BY <1>1 DEF Tables, Inactive
  <2> QED BY Zenon, <2>1 DEF TokenRecords
<1> QED BY <1>1 DEF Secrets

LEMMA TokenInitially == TokenInit => TokenInv
<1> SUFFICES ASSUME TokenInit PROVE TokenInv
  OBVIOUS
<1>1. blob \in Tables /\ TableOK(blob) /\ Secrets(blob) = {}
  BY EmptyTable DEF TokenInit
<1>2. TokenTypeOK
  BY <1>1, IdleRequest DEF TokenInit, TokenTypeOK, TokenQuiet, TokenLogs, Tables
<1> QED BY <1>1, <1>2, IdleRequest DEF TokenInit, TokenInv, LogOK, TokenQuiet

(* A request that has drawn up a table.                                      *)
LEMMA CreateKeeps ==
    ASSUME TokenInv, NEW name \in TokenNames, CreateToken(name)
    PROVE  TokenInv'
<1>0. TokenTypeOK /\ blob \in Tables /\ TableOK(blob) /\ LogOK
  BY DEF TokenInv, TokenTypeOK, Tables
<1>1. PICK slot \in Available(blob), id \in TokenIds, secret \in TokenSecrets :
          /\ \A i \in TokenSlots : blob[i].active => blob[i].id # id
          /\ secret \notin DrawnSecrets
          /\ tokenReq' = [pc |-> "save", op |-> "create", secret |-> {secret},
                copy |-> [blob EXCEPT ![slot] =
                            [active |-> TRUE, name |-> name, id |-> id, secret |-> secret]]]
  BY Zenon DEF CreateToken
<1>2. ~NameExists(blob, name) /\ UNCHANGED <<blob, tokenLog>>
  BY DEF CreateToken
<1> DEFINE new == Added(blob, slot, name, id, secret)
<1>3. secret \notin Secrets(blob) /\ secret \notin tokenLog.dropped
  BY <1>1 DEF DrawnSecrets
<1>a. FreshId(blob, id)
  BY <1>1 DEF FreshId
<1>5. tokenReq' = [pc |-> "save", op |-> "create", secret |-> {secret}, copy |-> new]
  BY <1>1 DEF Added
<1>b. /\ blob \in Tables /\ TableOK(blob) /\ slot \in Available(blob) /\ ~NameExists(blob, name)
      /\ FreshId(blob, id) /\ secret \notin Secrets(blob)
  BY Zenon, <1>0, <1>1, <1>2, <1>3, <1>a
<1>4. new \in Tables /\ TableOK(new) /\ Secrets(new) = Secrets(blob) \cup {secret}
  BY <1>b, RecordAdded
<1> HIDE DEF new
<1>6. TokenTypeOK'
  BY <1>0, <1>2, <1>4, <1>5 DEF TokenTypeOK, TokenRequests, Tables
<1>7. CopyOK'
  BY <1>0, <1>2, <1>3, <1>4, <1>5 DEF CopyOK, LogOK
<1>8. TableOK(blob)' /\ LogOK'
  BY <1>0, <1>2 DEF LogOK
<1> QED BY <1>5, <1>6, <1>7, <1>8 DEF TokenInv

LEMMA DeleteKeeps ==
    ASSUME TokenInv, NEW slot \in TokenSlots, DeleteToken(slot)
    PROVE  TokenInv'
<1>0. TokenTypeOK /\ blob \in Tables /\ TableOK(blob) /\ LogOK
  BY DEF TokenInv, TokenTypeOK, Tables
<1> DEFINE new == Without(blob, slot)
           secret == blob[slot].secret
<1>1. /\ tokenReq' = [pc |-> "save", op |-> "delete", secret |-> {secret}, copy |-> new]
      /\ UNCHANGED <<blob, tokenLog>> /\ blob[slot].active
  BY DEF DeleteToken
<1>2. new \in Tables /\ TableOK(new) /\ Secrets(new) = Secrets(blob) \ {secret}
  BY <1>0, <1>1, RecordRemoved
<1>3. secret \in Secrets(blob) /\ Secrets(blob) \subseteq TokenSecrets
  BY <1>0, <1>1, SecretsType DEF Secrets
<1> HIDE DEF new, secret
<1>4. TokenTypeOK'
  BY <1>0, <1>1, <1>2, <1>3 DEF TokenTypeOK, TokenRequests, Tables
<1>5. CopyOK'
  BY <1>0, <1>1, <1>2, <1>3 DEF CopyOK, LogOK
<1>6. TableOK(blob)' /\ LogOK'
  BY <1>0, <1>1 DEF LogOK
<1> QED BY <1>1, <1>4, <1>5, <1>6 DEF TokenInv

(* nvs_set_blob puts the copy in force.                                      *)
LEMMA SaveKeeps ==
    ASSUME TokenInv, SaveTokens
    PROVE  TokenInv'
<1>0. TokenTypeOK /\ TableOK(blob) /\ LogOK /\ CopyOK /\ tokenReq.pc = "save"
      /\ tokenReq.op \in {"create", "delete"}
  BY DEF TokenInv, SaveTokens
<1>1. CASE tokenReq' = TokenIdle /\ UNCHANGED <<blob, tokenLog>>
  BY <1>0, <1>1, IdleRequest DEF TokenInv, TokenTypeOK, LogOK
<1>2. CASE /\ blob' = tokenReq.copy
           /\ tokenReq' = [tokenReq EXCEPT !.pc = "commit"]
           /\ tokenLog' = [tokenLog EXCEPT
                !.dropped = @ \cup (IF tokenReq.op = "delete" THEN tokenReq.secret ELSE {}),
                !.late = @ \/ Secrets(tokenReq.copy) \cap tokenLog.erased # {}]
  <2> DEFINE more == tokenLog.dropped \cup (IF tokenReq.op = "delete" THEN tokenReq.secret ELSE {})
             late == tokenLog.late \/ Secrets(tokenReq.copy) \cap tokenLog.erased # {}
  <2>1. late \in BOOLEAN
    BY Zenon
  <2>2. tokenLog' = [tokenLog EXCEPT !.dropped = more, !.late = late]
    BY <1>2
  <2>3. more \subseteq TokenSecrets
    BY <1>0 DEF TokenTypeOK, TokenRequests, TokenLogs
  <2>l. ~late => ~tokenLog.late /\ Secrets(tokenReq.copy) \cap tokenLog.erased = {}
    OBVIOUS
  <2>m. tokenLog.dropped \subseteq more /\ (tokenReq.op = "delete" => more = tokenLog.dropped \cup tokenReq.secret)
        /\ (tokenReq.op = "create" => more = tokenLog.dropped)
    BY Zenon
  <2> HIDE DEF more, late
  <2>4. /\ tokenLog' \in TokenLogs /\ tokenLog'.dropped = more /\ tokenLog'.late = late
        /\ tokenLog'.shown = tokenLog.shown /\ tokenLog'.deleted = tokenLog.deleted
        /\ tokenLog'.erased = tokenLog.erased
    BY Zenon, <1>0, <2>1, <2>2, <2>3 DEF TokenTypeOK, TokenLogs
  <2>5. /\ tokenReq' \in TokenRequests /\ tokenReq'.pc = "commit" /\ tokenReq'.op = tokenReq.op
        /\ tokenReq'.secret = tokenReq.secret
    BY <1>0, <1>2 DEF TokenTypeOK, TokenRequests
  <2>6. TokenTypeOK'
    BY <1>0, <1>2, <2>4, <2>5 DEF TokenTypeOK, TokenRequests
  <2>7. LogOK'
    BY <1>0, <1>2, <2>4, <2>l, <2>m DEF LogOK, CopyOK
  <2>8. WrittenOK'
    BY <1>0, <1>2, <2>4, <2>5, <2>m DEF WrittenOK, CopyOK
  <2>9. TableOK(blob)'
    BY <1>0, <1>2 DEF CopyOK
  <2> QED BY <1>0, <2>5, <2>6, <2>7, <2>8, <2>9 DEF TokenInv
<1> QED BY <1>1, <1>2 DEF SaveTokens

LEMMA CommitKeeps == ASSUME TokenInv, CommitTokens PROVE TokenInv'
<1>0. TokenTypeOK /\ TableOK(blob) /\ LogOK /\ WrittenOK /\ tokenReq.pc = "commit"
      /\ tokenReq.op \in {"create", "delete"} /\ UNCHANGED <<blob, tokenLog>>
  BY DEF TokenInv, CommitTokens
<1>1. CASE tokenReq' = TokenIdle
  BY <1>0, <1>1, IdleRequest DEF TokenInv, TokenTypeOK, LogOK
<1>2. CASE tokenReq' = [tokenReq EXCEPT !.pc = "answer"]
  <2>1. /\ tokenReq' \in TokenRequests /\ tokenReq'.pc = "answer" /\ tokenReq'.op = tokenReq.op
        /\ tokenReq'.secret = tokenReq.secret
    BY <1>0, <1>2 DEF TokenTypeOK, TokenRequests
  <2> QED BY <1>0, <2>1 DEF TokenInv, TokenTypeOK, LogOK, WrittenOK
<1> QED BY <1>1, <1>2 DEF CommitTokens

(* The answer: what is shown is in the table, what is called deleted is out. *)
LEMMA AnswerKeeps == ASSUME TokenInv, AnswerToken PROVE TokenInv'
<1>0. TokenTypeOK /\ TableOK(blob) /\ LogOK /\ WrittenOK /\ tokenReq.pc = "answer"
      /\ tokenReq.op \in {"create", "delete"} /\ UNCHANGED blob /\ tokenReq' = TokenIdle
  BY DEF TokenInv, AnswerToken
<1>1. CASE tokenReq.op = "create"
  <2>1. tokenLog' = [tokenLog EXCEPT !.shown = tokenLog.shown \cup (tokenReq.secret \ tokenLog.erased)]
    BY <1>1 DEF AnswerToken
  <2>2. /\ tokenLog' \in TokenLogs /\ tokenLog'.dropped = tokenLog.dropped
        /\ tokenLog'.late = tokenLog.late /\ tokenLog'.deleted = tokenLog.deleted
        /\ tokenLog'.erased = tokenLog.erased
        /\ tokenLog'.shown = tokenLog.shown \cup (tokenReq.secret \ tokenLog.erased)
    BY <1>0, <2>1 DEF TokenTypeOK, TokenLogs, TokenRequests
  <2> QED BY <1>0, <1>1, <2>2, IdleRequest DEF TokenInv, TokenTypeOK, LogOK, WrittenOK
<1>2. CASE tokenReq.op = "delete"
  <2>1. tokenLog' = [tokenLog EXCEPT !.deleted = tokenLog.deleted \cup tokenReq.secret]
    BY <1>2 DEF AnswerToken
  <2>2. /\ tokenLog' \in TokenLogs /\ tokenLog'.dropped = tokenLog.dropped
        /\ tokenLog'.late = tokenLog.late /\ tokenLog'.shown = tokenLog.shown
        /\ tokenLog'.erased = tokenLog.erased
        /\ tokenLog'.deleted = tokenLog.deleted \cup tokenReq.secret
    BY <1>0, <2>1 DEF TokenTypeOK, TokenLogs, TokenRequests
  <2> QED BY <1>0, <1>2, <2>2, IdleRequest DEF TokenInv, TokenTypeOK, LogOK, WrittenOK
<1> QED BY <1>0, <1>1, <1>2

(* The factory reset empties the table; a request under way keeps its copy.  *)
LEMMA EraseKeeps == ASSUME TokenInv, EraseTokens PROVE TokenInv'
<1>0. TokenTypeOK /\ TableOK(blob) /\ LogOK /\ UNCHANGED tokenReq
  BY DEF TokenInv, EraseTokens
<1>1. blob' \in Tables /\ TableOK(blob') /\ Secrets(blob') = {}
  BY EmptyTable DEF EraseTokens
<1>2. Secrets(blob) \subseteq TokenSecrets
  BY <1>0, SecretsType DEF TokenTypeOK, Tables
<1>3. tokenLog' = [tokenLog EXCEPT !.erased = tokenLog.erased \cup Secrets(blob),
                                   !.shown = tokenLog.shown \ Secrets(blob)]
  BY DEF EraseTokens
<1>4. /\ tokenLog' \in TokenLogs /\ tokenLog'.dropped = tokenLog.dropped
      /\ tokenLog'.late = tokenLog.late /\ tokenLog'.deleted = tokenLog.deleted
      /\ tokenLog'.erased = tokenLog.erased \cup Secrets(blob)
      /\ tokenLog'.shown = tokenLog.shown \ Secrets(blob)
  BY Zenon, <1>0, <1>2, <1>3 DEF TokenTypeOK, TokenLogs
<1>5. TokenTypeOK'
  BY <1>0, <1>1, <1>4 DEF TokenTypeOK, Tables
<1>6. LogOK'
  BY <1>0, <1>1, <1>4 DEF LogOK
<1>7. tokenReq.pc = "save" => CopyOK'
  BY <1>0, <1>1, <1>4 DEF TokenInv, CopyOK
<1>8. tokenReq.pc \in {"commit", "answer"} => WrittenOK'
  BY Zenon, <1>0, <1>1, <1>4 DEF TokenInv, WrittenOK
<1> QED BY <1>0, <1>1, <1>5, <1>6, <1>7, <1>8 DEF TokenInv

LEMMA TokenStep == TokenInv /\ [TokenNext]_tokenVars => TokenInv'
<1> SUFFICES ASSUME TokenInv, [TokenNext]_tokenVars PROVE TokenInv'
  OBVIOUS
<1>1. CASE UNCHANGED tokenVars
  BY <1>1 DEF tokenVars, TokenInv, TokenTypeOK, LogOK, CopyOK, WrittenOK
<1>2. CASE TokenRestart
  BY <1>2, IdleRequest DEF TokenRestart, TokenInv, TokenTypeOK, LogOK
<1> QED BY <1>1, <1>2, CreateKeeps, DeleteKeeps, SaveKeeps, CommitKeeps, AnswerKeeps, EraseKeeps
        DEF TokenNext

(* Whatever fails, restarts or erases: api_token_store_load accepts what is  *)
(* stored, a token that was shown works until it is deleted or erased, and   *)
(* one whose deletion was answered or that was erased does not, but for a    *)
(* copy written back after the erasure.                                      *)
THEOREM TokensAreSafe == TokenSpec => []TokensSafe
<1>1. TokenInv => TokensSafe
  BY DEF TokenInv, TokensSafe, TokensLoad, ShownIsAccepted, DeletedStaysOut, ErasedStaysOut,
         Accepted, LogOK, TableOK
<1> QED BY <1>1, TokenInitially, TokenStep, PTL DEF TokenSpec
=============================================================================
