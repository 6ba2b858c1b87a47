----------------------------- MODULE UpsdTables ------------------------------
(***************************************************************************)
(* The tables of upsd: the UPSes of ups.conf (server/conf.c), the users of *)
(* upsd.users (server/user.c) and who is logged into which UPS (netuser.c, *)
(* netmisc.c).  A reload rebuilds the first two under the third.           *)
(*                                                                         *)
(* UPS names are compared without regard to case by every command and by   *)
(* ups_create, exactly by do_upsconf_args and kick_login_clients: Folded   *)
(* maps a name to its lower case.  A pass of mainloop reloads if it was    *)
(* asked to, cleans up and serves the sockets.                             *)
(***************************************************************************)
EXTENDS Integers, Sequences, SequencesExt, FiniteSets, TLC

CONSTANTS
    Hosts,          \* client hosts
    Folded,         \* from the names in use to their lower case
    UpsFiles,       \* contents of ups.conf: sequences of sections
    UserFiles,      \* contents of upsd.users: sequences of settings
    Logins          \* <<user name, password>> pairs that clients present

ConfNames == {"upsd.conf", "ups.conf", "upsd.users"}
Nobody == <<>>
Unset == "none"

ASSUME TablesAssumption ==
    /\ IsFiniteSet(Hosts)
    /\ \A n \in DOMAIN Folded : Folded[n] \in DOMAIN Folded /\ Folded[Folded[n]] = Folded[n]

VARIABLES
    files,      \* what ups.conf and upsd.users held when they were last read
    upstab,     \* the list at firstups
    users,      \* the list at users, by name
    sess,       \* per host: its nut_ctype_t
    daemon      \* where mainloop is, and whether upsd still runs

tabvars == <<files, upstab, users, sess, daemon>>

UpsNames == DOMAIN Folded

TablesTypeOK ==
    /\ files \in [ups : UpsFiles, users : UserFiles]
    /\ \A i \in DOMAIN upstab :
        upstab[i] \in [name : UpsNames, fn : STRING \X UpsNames, up : BOOLEAN, fsd : BOOLEAN,
                       numlogins : Int, retain : BOOLEAN]
    /\ sess \in [Hosts -> [on : BOOLEAN, user : Logins \cup {Nobody},
                           loginups : UpsNames \cup {Unset}]]
    /\ daemon \in [pc : {"top", "serve"}, runs : BOOLEAN]

-----------------------------------------------------------------------------
(* get_ups_ptr: the entry of a name, whatever its case; 0 if there is none. *)
UpsPtr(t, n) ==
    LET found == {i \in DOMAIN t : Folded[t[i].name] = Folded[n]}
    IN  IF found = {} THEN 0 ELSE CHOOSE i \in found : \A j \in found : i <= j

(* do_upsconf_args: a repeated section adds to the entry of that very name. *)
Listed(file) ==
    FoldLeft(LAMBDA t, s :
                IF \E i \in DOMAIN t : t[i].name = s.name
                THEN [i \in DOMAIN t |->
                        IF t[i].name # s.name THEN t[i]
                        ELSE [t[i] EXCEPT !.driver = IF s.driver = Unset THEN @ ELSE s.driver,
                                          !.port = @ \/ s.port]]
                ELSE <<s>> \o t,
             <<>>, file)

(* ups_create, which refuses a name that is in use. *)
Created(t, s) ==
    IF UpsPtr(t, s.name) # 0 THEN t
    ELSE <<[name |-> s.name, fn |-> <<s.driver, s.name>>, up |-> FALSE, fsd |-> FALSE,
            numlogins |-> 0, retain |-> TRUE]>> \o t

Updated_Restarts(t, s) ==
    [t EXCEPT ![UpsPtr(t, s.name)] = [@ EXCEPT !.up = FALSE, !.fsd = FALSE,
                                               !.fn = <<s.driver, s.name>>, !.retain = TRUE]]

(* ups_update: a new socket name drops the connection, nothing else. *)
Updated(t, s) ==
    [t EXCEPT ![UpsPtr(t, s.name)] =
        [@ EXCEPT !.up = @ /\ t[UpsPtr(t, s.name)].fn = <<s.driver, s.name>>,
                  !.fn = <<s.driver, s.name>>, !.retain = TRUE]]

(* upsconf_add: incomplete entries are skipped. *)
Added(reloading, t, file) ==
    FoldLeft(LAMBDA tab, s :
                IF s.driver = Unset \/ ~s.port THEN tab
                ELSE IF reloading /\ UpsPtr(tab, s.name) # 0 THEN Updated(tab, s)
                ELSE Created(tab, s),
             t, Listed(file))

-----------------------------------------------------------------------------
(* user_parse_arg, one setting at a time; a repeated section is refused and *)
(* leaves curr_user where it was.                                           *)
UpsmonActions(type) == IF type = "primary" THEN {"LOGIN", "MASTER", "FSD"} ELSE {"LOGIN"}

Granted(u, l) ==
    CASE l.key = "password" -> [u EXCEPT !.password = IF @ = Unset THEN l.val ELSE @]
      [] l.key = "actions" -> [u EXCEPT !.actions = @ \cup {l.val}]
      [] l.key = "instcmds" -> [u EXCEPT !.cmds = @ \cup {l.val}]
      [] l.key = "upsmon" -> [u EXCEPT !.actions = @ \cup UpsmonActions(l.val)]

UserLine(acc, l) ==
    IF l.key = "section"
    THEN IF l.val \in DOMAIN acc.tab THEN acc
         ELSE [cur |-> l.val,
               tab |-> acc.tab @@ (l.val :> [password |-> Unset, actions |-> {}, cmds |-> {}])]
    ELSE IF acc.cur = Unset THEN acc
    ELSE [acc EXCEPT !.tab[acc.cur] = Granted(@, l)]

(* user_flush and user_load. *)
LoadedUsers(file) ==
    FoldLeft(UserLine, [cur |-> Unset, tab |-> [n \in {} |-> Unset]], file).tab

Knows(who) ==
    /\ who # Nobody
    /\ who[1] \in DOMAIN users /\ users[who[1]].password = who[2]

(* user_checkaction and user_checkinstcmd, against the table of the moment. *)
CheckAction(who, action) ==
    Knows(who) /\ action \in users[who[1]].actions

CheckInstcmd(who, cmd) ==
    Knows(who) /\ users[who[1]].cmds \cap {cmd, "all"} # {}

-----------------------------------------------------------------------------
Gone == [on |-> FALSE, user |-> Nobody, loginups |-> Unset]

(* client_disconnect with declogins, for the clients of hs. *)
LoggedOut(t, hs) ==
    [i \in DOMAIN t |->
        [t[i] EXCEPT !.numlogins = @ -
            Cardinality({h \in hs : sess[h].loginups # Unset /\ UpsPtr(t, sess[h].loginups) = i})]]
Dropped(hs) == [h \in Hosts |-> IF h \in hs THEN Gone ELSE sess[h]]

(* upsd starts with every file readable and at least one UPS (num_ups). *)
TablesInit ==
    /\ files \in [ups : {f \in UpsFiles : Added(FALSE, <<>>, f) # <<>>}, users : UserFiles]
    /\ upstab = Added(FALSE, <<>>, files.ups)
    /\ users = LoadedUsers(files.users)
    /\ sess = [h \in Hosts |-> Gone]
    /\ daemon = [pc |-> "top", runs |-> TRUE]

-----------------------------------------------------------------------------
Kicked_Nobody(t) == {h \in Hosts : FALSE}

(* kick_login_clients, for the entries conf_reload does not keep. *)
Kicked(t) ==
    {h \in Hosts : \E i \in DOMAIN t : ~t[i].retain /\ sess[h].loginups = t[i].name}

(* conf_reload, with what the files hold by now and those that cannot be   *)
(* opened: without upsd.conf nothing is done, without ups.conf upsd exits, *)
(* without upsd.users the old users stay.                                  *)
Reloaded(ups, us, missing) ==
    LET t == Added(TRUE, [i \in DOMAIN upstab |-> [upstab[i] EXCEPT !.retain = FALSE]], ups)
    IN  IF "upsd.conf" \in missing THEN UNCHANGED <<files, upstab, users, sess>>
        ELSE /\ upstab' = SelectSeq(LoggedOut(t, Kicked(t)), LAMBDA e : e.retain)
             /\ sess' = Dropped(Kicked(t))
             /\ users' = IF "upsd.users" \in missing THEN users ELSE LoadedUsers(us)
             /\ files' = [ups |-> ups, users |-> IF "upsd.users" \in missing THEN files.users ELSE us]

(* The top of mainloop, without a reload and with one. *)
TablesPassBegins ==
    /\ daemon.runs /\ daemon.pc = "top"
    /\ daemon' = [daemon EXCEPT !.pc = "serve"]
    /\ UNCHANGED <<files, upstab, users, sess>>

Reloads ==
    /\ daemon.runs /\ daemon.pc = "top"
    /\ \E ups \in UpsFiles, us \in UserFiles, missing \in {{}} \cup {{c} : c \in ConfNames} :
        IF "ups.conf" \in missing
        THEN /\ daemon' = [daemon EXCEPT !.runs = FALSE]
             /\ UNCHANGED <<files, upstab, users, sess>>
        ELSE /\ Reloaded(ups, us, missing)
             /\ daemon' = [daemon EXCEPT !.pc = "serve"]

TablesPassEnds ==
    /\ daemon.runs /\ daemon.pc = "serve"
    /\ daemon' = [daemon EXCEPT !.pc = "top"]
    /\ UNCHANGED <<files, upstab, users, sess>>

-----------------------------------------------------------------------------
Serves == daemon.runs /\ daemon.pc = "serve"

Connects(h) ==
    /\ Serves /\ ~sess[h].on
    /\ sess' = [sess EXCEPT ![h].on = TRUE]
    /\ UNCHANGED <<files, upstab, users, daemon>>

(* client_disconnect, for a client that leaves or is shed. *)
Leaves(h) ==
    /\ Serves /\ sess[h].on
    /\ upstab' = LoggedOut(upstab, {h})
    /\ sess' = Dropped({h})
    /\ UNCHANGED <<files, users, daemon>>

(* USERNAME and PASSWORD, each accepted once, then SET TRACKING ON. *)
Authenticates(h) ==
    /\ Serves /\ sess[h].on /\ sess[h].user = Nobody
    /\ \E who \in Logins : sess' = [sess EXCEPT ![h].user = who]
    /\ UNCHANGED <<files, upstab, users, daemon>>

(* LOGIN *)
LogsIn(h) ==
    /\ Serves /\ sess[h].on /\ sess[h].loginups = Unset
    /\ CheckAction(sess[h].user, "LOGIN")
    /\ \E n \in UpsNames :
        /\ UpsPtr(upstab, n) # 0
        /\ upstab' = [upstab EXCEPT ![UpsPtr(upstab, n)].numlogins = @ + 1]
        /\ sess' = [sess EXCEPT ![h].loginups = upstab[UpsPtr(upstab, n)].name]
    /\ UNCHANGED <<files, users, daemon>>

(* FSD *)
SetsFsd(h) ==
    /\ Serves /\ sess[h].on /\ CheckAction(sess[h].user, "FSD")
    /\ \E n \in UpsNames :
        /\ UpsPtr(upstab, n) # 0
        /\ upstab' = [upstab EXCEPT ![UpsPtr(upstab, n)].fsd = TRUE]
    /\ UNCHANGED <<files, users, sess, daemon>>

-----------------------------------------------------------------------------
(* sstate_connect and the loss of a driver's connection. *)
DriverLinks ==
    /\ Serves
    /\ \E i \in DOMAIN upstab : upstab' = [upstab EXCEPT ![i].up = ~@]
    /\ UNCHANGED <<files, users, sess, daemon>>

TablesNext ==
    \/ TablesPassBegins \/ Reloads \/ TablesPassEnds \/ DriverLinks
    \/ \E h \in Hosts :
        Connects(h) \/ Leaves(h) \/ Authenticates(h) \/ LogsIn(h) \/ SetsFsd(h)

TablesSpec == TablesInit /\ [][TablesNext]_tabvars

-----------------------------------------------------------------------------
(* Whoever is logged in is logged into a UPS of the table, and every UPS   *)
(* counts its logins exactly, across reloads that rename, redefine and     *)
(* delete (delete_ups: "make sure nobody stays logged into this thing").   *)
LoginsFollowTable ==
    /\ \A h \in Hosts : sess[h].loginups # Unset => UpsPtr(upstab, sess[h].loginups) # 0
    /\ \A i \in DOMAIN upstab :
        upstab[i].numlogins = Cardinality({h \in Hosts : sess[h].loginups = upstab[i].name})

(* No two sections of ups.conf have names that differ only in case. *)
Distinct(file) ==
    \A i, j \in DOMAIN file : Folded[file[i].name] = Folded[file[j].name] => file[i].name = file[j].name

(* After a reload upsd has the UPSes, the drivers and the users that a     *)
(* restart with the same files would give it (conf_reload).                *)
ReloadIsRestart ==
    /\ users = LoadedUsers(files.users)
    /\ Distinct(files.ups) =>
        {<<Folded[e.name], e.fn>> : e \in ToSet(upstab)} =
        {<<Folded[e.name], e.fn>> : e \in ToSet(Added(FALSE, <<>>, files.ups))}

(* upsd's tables, under every reload. *)
TablesSafe == TablesTypeOK /\ LoginsFollowTable /\ ReloadIsRestart

(* A forced shutdown is never taken back while its UPS is in the table: no *)
(* command, redefinition or loss of the driver clears it (net_fsd).        *)
FsdSticks ==
    [][\A i \in DOMAIN upstab : upstab[i].fsd =>
        \/ \E j \in DOMAIN upstab' : upstab'[j].name = upstab[i].name /\ upstab'[j].fsd
        \/ \A j \in DOMAIN upstab' : upstab'[j].name # upstab[i].name]_tabvars
=============================================================================
