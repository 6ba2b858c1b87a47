------------------------------ MODULE UpsdProofs ------------------------------
(***************************************************************************)
(* The command tracking of upsd, and its sessions: the list of clients,    *)
(* the logins that are counted and the service that every connection gets. *)
(***************************************************************************)
EXTENDS UpsdClients, UpsdTracking, FiniteSetTheorems, TLAPS

(* Facts about sequences, for any sequences: the solver knows them of single  *)
(* ones, and the proofs below cite them by name.                              *)

(* A sequence is a function from an interval. *)
LEMMA LenProperties ==
    ASSUME NEW S, NEW s \in Seq(S)
    PROVE  Len(s) \in Nat /\ s \in [1..Len(s) -> S] /\ DOMAIN s = 1..Len(s)
OBVIOUS

(* What is in a concatenation, and where. *)
LEMMA ConcatProperties ==
    ASSUME NEW S, NEW s \in Seq(S), NEW t \in Seq(S)
    PROVE  /\ s \o t \in Seq(S)
           /\ Len(s \o t) = Len(s) + Len(t)
           /\ \A i \in 1..Len(s) + Len(t) :
                 (s \o t)[i] = IF i <= Len(s) THEN s[i] ELSE t[i - Len(s)]
OBVIOUS

(* What is in a part of a sequence, and where. *)
LEMMA SubSeqProperties ==
    ASSUME NEW S, NEW s, NEW m \in Int, NEW n \in Int, \A i \in m..n : s[i] \in S
    PROVE  /\ SubSeq(s, m, n) \in Seq(S)
           /\ Len(SubSeq(s, m, n)) = IF m <= n THEN n - m + 1 ELSE 0
           /\ \A i \in 1..n - m + 1 : SubSeq(s, m, n)[i] = s[m + i - 1]
OBVIOUS

(* One element more. *)
LEMMA AppendProperties ==
    ASSUME NEW S, NEW s \in Seq(S), NEW e \in S
    PROVE  /\ Append(s, e) \in Seq(S)
           /\ Append(s, e) # << >>
           /\ Len(Append(s, e)) = Len(s) + 1
           /\ \A i \in 1..Len(s) : Append(s, e)[i] = s[i]
           /\ Append(s, e)[Len(s) + 1] = e
OBVIOUS

-----------------------------------------------------------------------------
(* One command: listed from the request until TRACKINGDELAY later, with the  *)
(* verdict upsd was told of, which is what the driver did.                   *)
Tracked(id) ==
    /\ id > wire.last => id \notin ListedIds \cup wire.sent \cup wire.told /\ wire.age[id] = 0
    /\ id <= wire.last /\ id \notin ListedIds => wire.age[id] > Delay
    /\ id \in ListedIds =>
         /\ track[id].age = wire.age[id]
         /\ track[id].status \in Verdicts => <<id, track[id].status>> \in wire.done
         /\ id \in wire.told => track[id].status # "PENDING"
         /\ pass = "serve" => track[id].age <= Delay

TrackInv ==
    /\ TrackTypeOK
    /\ tracks.on # {} => tracks.enabled
    /\ wire.back \subseteq wire.done /\ \A r \in wire.done : r[1] <= wire.last
    /\ \A id \in Ids : Tracked(id)

LEMMA TrackInitially == TrackInit => TrackInv
<1> SUFFICES ASSUME TrackInit PROVE TrackInv
  OBVIOUS
<1>1. ListedIds = {}
  BY DEF TrackInit, ListedIds
<1>2. TrackTypeOK
  BY TrackingAssumption DEF TrackInit, TrackTypeOK, Wires, Ids
<1>3. ASSUME NEW id \in Ids PROVE Tracked(id)
  BY <1>1 DEF TrackInit, Tracked, Ids
<1> QED BY <1>1, <1>2, <1>3 DEF TrackInit, TrackInv

(* An id is listed exactly when it has an entry.                             *)
LEMMA UnlistedIsNone == Unlisted \notin TrackEntries
BY DEF Unlisted, TrackEntries, Verdicts

LEMMA ListedHasEntry ==
    ASSUME TrackTypeOK, NEW id \in Ids
    PROVE  /\ id \in ListedIds <=> track[id] \in TrackEntries
           /\ id \notin ListedIds <=> track[id] = Unlisted
BY UnlistedIsNone DEF TrackTypeOK, ListedIds

(* What a command's entry says does not depend on what else changed.         *)
LEMMA TrackedKept ==
    ASSUME TrackTypeOK, TrackTypeOK', NEW id \in Ids, Tracked(id), track'[id] = track[id],
           wire'.age[id] = wire.age[id], wire.last <= wire'.last, wire.done \subseteq wire'.done,
           id <= wire'.last => id <= wire.last,
           wire'.sent \subseteq wire.sent \cup {wire'.last},
           wire'.told = wire.told, pass' = "serve" => pass = "serve"
    PROVE  Tracked(id)'
<1>1. id \in ListedIds <=> id \in ListedIds'
  BY DEF ListedIds
<1>2. wire.last \in Int /\ wire'.last \in Int /\ id \in Int
  BY TrackingAssumption DEF TrackTypeOK, Wires, Ids
<1>3. id > wire'.last => id > wire.last
  BY <1>2
<1> QED BY <1>1, <1>2, <1>3 DEF Tracked

LEMMA PassBeginsKeeps == ASSUME TrackInv, TrackPassBegins PROVE TrackInv'
<1>0. TrackTypeOK /\ UNCHANGED <<wire, tracks>> /\ pass' = "serve"
  BY DEF TrackInv, TrackPassBegins
<1>1. link' \in [up : BOOLEAN, stale : BOOLEAN]
  <2>1. link \in [up : BOOLEAN, stale : BOOLEAN]
    BY DEF TrackInv, TrackTypeOK
  <2>2. CASE link.up
    BY Zenon, <2>2 DEF TrackPassBegins
  <2>3. CASE ~link.up
    <3>1. link' = link \/ link' = [up |-> TRUE, stale |-> link.stale]
      BY <2>3 DEF TrackPassBegins
    <3>2. link.stale \in BOOLEAN
      BY <2>1, Zenon
    <3>3. [up |-> TRUE, stale |-> link.stale] \in [up : BOOLEAN, stale : BOOLEAN]
      BY <3>2, Zenon
    <3> QED BY <2>1, <3>1, <3>3, Zenon
  <2> QED BY <2>2, <2>3
<1>u. Unlisted.age = 0 /\ Delay >= 0 /\ Delay \in Int
  BY TrackingAssumption DEF Unlisted
<1>2. track' = [id \in Ids |-> IF track[id].age <= Delay THEN track[id] ELSE Unlisted]
  BY DEF TrackPassBegins, TrackingCleaned
<1>3. TrackTypeOK'
  BY <1>0, <1>1, <1>2 DEF TrackTypeOK
<1>4. ASSUME NEW id \in Ids PROVE Tracked(id)'
  <2>0. Tracked(id) /\ id \in Int /\ wire.last \in Int /\ wire.age[id] \in Int
    BY TrackingAssumption DEF TrackInv, TrackTypeOK, Wires, Ids
  <2>1. track'[id] = IF track[id].age <= Delay THEN track[id] ELSE Unlisted
    BY <1>2
  <2>2. id \notin ListedIds => id \notin ListedIds'
    BY <1>0, <1>u, <2>1 DEF ListedIds
  <2>3. id \in ListedIds' => id \in ListedIds /\ track'[id] = track[id] /\ track[id].age <= Delay
    BY <1>u, <2>1 DEF ListedIds
  <2>4. id \in ListedIds /\ id \notin ListedIds' => ~(track[id].age <= Delay)
    BY <2>1 DEF ListedIds
  <2> QED BY <1>0, <1>u, <2>0, <2>2, <2>3, <2>4 DEF Tracked
<1> QED BY <1>0, <1>3, <1>4 DEF TrackInv

LEMMA TickKeeps == ASSUME TrackInv, TrackTick PROVE TrackInv'
<1>0. /\ TrackTypeOK /\ UNCHANGED <<link, tracks, pass>> /\ pass = "top"
      /\ \A id \in ListedIds : track[id].age <= Delay
  BY DEF TrackInv, TrackTick
<1> DEFINE ages == [id \in Ids |->
                     IF id <= wire.last /\ wire.age[id] <= Delay THEN wire.age[id] + 1 ELSE wire.age[id]]
<1>1. wire' = [wire EXCEPT !.age = ages]
  BY <1>0 DEF TrackTick, TrackTypeOK, Wires
<1>2. ages \in [Ids -> 0 .. Delay + 1]
  BY <1>0, TrackingAssumption DEF TrackTypeOK, Wires
<1>3. \A id \in Ids : ages[id] = IF id <= wire.last /\ wire.age[id] <= Delay
                                 THEN wire.age[id] + 1 ELSE wire.age[id]
  OBVIOUS
<1> HIDE DEF ages
<1>4. /\ wire' \in Wires /\ wire'.age = ages /\ wire'.last = wire.last /\ wire'.sent = wire.sent
      /\ wire'.done = wire.done /\ wire'.back = wire.back /\ wire'.told = wire.told
  BY <1>0, <1>1, <1>2 DEF TrackTypeOK, Wires
<1>5. ASSUME NEW id \in Ids
      PROVE  /\ id \in ListedIds => track'[id] = [status |-> track[id].status, age |-> track[id].age + 1]
                                    /\ track'[id] \in TrackEntries
             /\ id \notin ListedIds => track'[id] = Unlisted
  <2>1. CASE id \in ListedIds
    <3>1. track[id] \in TrackEntries /\ track[id].age <= Delay
      BY <1>0, <2>1, ListedHasEntry
    <3>2. track'[id] = [track[id] EXCEPT !.age = track[id].age + 1]
      BY <2>1 DEF TrackTick
    <3>3. track'[id] = [status |-> track[id].status, age |-> track[id].age + 1]
      BY <3>1, <3>2 DEF TrackEntries
    <3> QED BY <2>1, <3>1, <3>3, TrackingAssumption DEF TrackEntries
  <2>2. CASE id \notin ListedIds
    BY <2>2 DEF TrackTick
  <2> QED BY <2>1, <2>2
<1>6. track' \in [Ids -> TrackEntries \cup {Unlisted}]
  <2>1. ASSUME NEW id \in Ids PROVE track'[id] \in TrackEntries \cup {Unlisted}
    BY Zenon, <1>5
  <2>2. track' = [id \in Ids |-> track'[id]]
    BY DEF TrackTick
  <2> QED BY <2>1, <2>2
<1>7. TrackTypeOK'
  BY <1>0, <1>4, <1>6 DEF TrackTypeOK
<1>8. ASSUME NEW id \in Ids PROVE Tracked(id)'
  <2>0. Tracked(id) /\ id \in Int /\ wire.last \in Int /\ wire.age[id] \in Int /\ Delay \in Nat
    BY TrackingAssumption DEF TrackInv, TrackTypeOK, Wires, Ids
  <2>1. id \in ListedIds <=> id \in ListedIds'
    <3>1. Unlisted \notin TrackEntries
      BY UnlistedIsNone
    <3>2. id \in ListedIds' <=> track'[id] # Unlisted
      BY DEF ListedIds
    <3> QED BY Zenon, <1>5, <3>1, <3>2
  <2>2. id \in ListedIds => track'[id].status = track[id].status /\ track'[id].age = track[id].age + 1
                            /\ track[id].age <= Delay
    <3> SUFFICES ASSUME id \in ListedIds
                 PROVE  /\ track'[id].status = track[id].status /\ track'[id].age = track[id].age + 1
                        /\ track[id].age <= Delay
      OBVIOUS
    <3>1. track'[id] = [status |-> track[id].status, age |-> track[id].age + 1]
      BY <1>5
    <3> QED BY <1>0, <3>1
  <2>3. wire'.age[id] = IF id <= wire.last /\ wire.age[id] <= Delay THEN wire.age[id] + 1 ELSE wire.age[id]
    BY <1>3, <1>4
  <2>4. id \in ListedIds => Tracked(id)'
    BY <1>0, <1>4, <2>0, <2>1, <2>2, <2>3 DEF Tracked
  <2>5. id \notin ListedIds => Tracked(id)'
    BY <1>0, <1>4, <2>0, <2>1, <2>3 DEF Tracked
  <2> QED BY <2>4, <2>5
<1> QED BY <1>0, <1>4, <1>7, <1>8 DEF TrackInv

(* A command gets the next id, and an entry before it is sent.               *)
LEMMA PassesOnKeeps == ASSUME TrackInv, PassesOn PROVE TrackInv'
<1> DEFINE new == wire.last + 1
<1>0. TrackTypeOK /\ UNCHANGED <<tracks, pass>> /\ wire.last < MaxIds /\ tracks.enabled
  BY DEF TrackInv, PassesOn
<1>1. new \in Ids /\ new \in Int /\ wire.last \in Int /\ wire.last >= 0
  BY <1>0, TrackingAssumption DEF TrackTypeOK, Wires, Ids
<1>2. track' = [track EXCEPT ![new] = [status |-> "PENDING", age |-> 0]]
  BY <1>0 DEF PassesOn, TrackingAdd
<1>3. /\ wire' = [wire EXCEPT !.last = new, !.sent = wire'.sent, !.back = wire'.back]
      /\ wire'.sent \subseteq wire.sent \cup {new} /\ wire'.back \subseteq wire.back
  <2>1. CASE wire' = [wire EXCEPT !.last = @ + 1, !.sent = @ \cup {new}]
    BY Zenon, <1>0, <2>1 DEF TrackTypeOK, Wires
  <2>2. CASE wire' = [wire EXCEPT !.last = @ + 1, !.sent = {}, !.back = {}]
    BY <1>0, <2>2 DEF TrackTypeOK, Wires
  <2> QED BY <2>1, <2>2 DEF PassesOn
<1>4. /\ wire' \in Wires /\ wire'.last = new /\ wire'.sent \subseteq wire.sent \cup {new}
      /\ wire'.back \subseteq wire.back /\ wire'.done = wire.done /\ wire'.told = wire.told
      /\ wire'.age = wire.age
  <2> DEFINE sent == wire'.sent
             back == wire'.back
  <2>1. new \in 0 .. MaxIds /\ sent \subseteq Ids /\ back \subseteq Ids \X Verdicts
    <3>1. wire.sent \subseteq Ids /\ wire.back \subseteq Ids \X Verdicts
      BY <1>0 DEF TrackTypeOK, Wires
    <3>2. new \in 0 .. MaxIds
      BY <1>0, <1>1, TrackingAssumption
    <3> QED BY <1>1, <1>3, <3>1, <3>2
  <2>2. /\ wire' = [wire EXCEPT !.last = new, !.sent = sent, !.back = back]
        /\ sent \subseteq wire.sent \cup {new} /\ back \subseteq wire.back
    BY <1>3
  <2> HIDE DEF new, sent, back
  <2> QED BY Zenon, <1>0, <2>1, <2>2 DEF TrackTypeOK, Wires
<1>5. link' \in [up : BOOLEAN, stale : BOOLEAN]
  BY Zenon, <1>0 DEF PassesOn, SstateLost, TrackTypeOK
<1>6. [status |-> "PENDING", age |-> 0] \in TrackEntries
  BY TrackingAssumption DEF TrackEntries
<1>7. TrackTypeOK'
  BY <1>0, <1>1, <1>2, <1>4, <1>5, <1>6 DEF TrackTypeOK
<1> HIDE DEF new
<1>8. ASSUME NEW id \in Ids PROVE Tracked(id)'
  <2>0. Tracked(id) /\ id \in Int
    BY DEF TrackInv, Ids
  <2>1. CASE id = new
    <3>1. track'[id] = [status |-> "PENDING", age |-> 0]
      BY <1>0, <1>2, <2>1 DEF TrackTypeOK
    <3>2. id > wire.last
      BY <1>1, <2>1 DEF new
    <3>3. id \notin wire.told /\ wire.age[id] = 0
      BY <2>0, <3>2 DEF Tracked
    <3>4. id \in ListedIds'
      <4>1. track'[id] # Unlisted
        BY <1>6, <3>1, UnlistedIsNone
      <4> QED BY <4>1 DEF ListedIds
    <3>5. track'[id].status = "PENDING" /\ "PENDING" \notin Verdicts /\ track'[id].age = 0
      BY <3>1 DEF Verdicts
    <3>6. wire'.last = id /\ wire'.age[id] = 0 /\ id \notin wire'.told /\ Delay >= 0 /\ ~(id > id)
      BY <1>4, <2>0, <2>1, <3>3, TrackingAssumption
    <3> QED BY <3>4, <3>5, <3>6 DEF Tracked
  <2>2. CASE id # new
    <3>1. track'[id] = track[id]
      BY <1>0, <1>2, <2>2 DEF TrackTypeOK
    <3>2. id <= wire'.last => id <= wire.last
      BY <1>1, <1>4, <2>0, <2>2 DEF new
    <3>3. wire.last <= wire'.last
      BY <1>1, <1>4 DEF new
    <3> QED BY <1>0, <1>4, <1>7, <2>0, <3>1, <3>2, <3>3, TrackedKept
  <2> QED BY <2>1, <2>2
<1>9. \A r \in wire'.done : r[1] <= wire'.last
  <2> SUFFICES ASSUME NEW r \in wire.done PROVE r[1] <= new
    BY <1>4
  <2>1. r[1] <= wire.last /\ r[1] \in Int
    BY <1>0 DEF TrackInv, TrackTypeOK, Wires, Ids
  <2> QED BY <1>1, <2>1 DEF new
<1> QED BY <1>0, <1>4, <1>7, <1>8, <1>9 DEF TrackInv

(* The driver's verdict, sent back while upsd is connected.                  *)
LEMMA DriverActsKeeps == ASSUME TrackInv, DriverActs PROVE TrackInv'
<1>0. TrackTypeOK /\ UNCHANGED <<track, link, tracks, pass>>
  BY DEF TrackInv, DriverActs
<1>1. PICK id \in wire.sent, v \in Verdicts :
        wire' = [wire EXCEPT !.sent = @ \ {id}, !.done = @ \cup {<<id, v>>},
                             !.back = IF link.up THEN @ \cup {<<id, v>>} ELSE @]
  BY Zenon DEF DriverActs
<1> DEFINE back == IF link.up THEN wire.back \cup {<<id, v>>} ELSE wire.back
<1>2. wire' = [wire EXCEPT !.sent = wire.sent \ {id}, !.done = wire.done \cup {<<id, v>>}, !.back = back]
  BY <1>1
<1>3. id \in Ids /\ <<id, v>> \in Ids \X Verdicts /\ wire.back \subseteq wire.done
  BY <1>0 DEF TrackInv, TrackTypeOK, Wires
<1>4. back \subseteq wire.done \cup {<<id, v>>} /\ back \subseteq Ids \X Verdicts
  BY <1>0, <1>3 DEF TrackTypeOK, Wires
<1> HIDE DEF back
<1>5. /\ wire' \in Wires /\ wire'.last = wire.last /\ wire'.sent = wire.sent \ {id}
      /\ wire'.done = wire.done \cup {<<id, v>>} /\ wire'.back = back /\ wire'.told = wire.told
      /\ wire'.age = wire.age
  BY Zenon, <1>0, <1>2, <1>3, <1>4 DEF TrackTypeOK, Wires
<1>6. TrackTypeOK'
  BY <1>0, <1>5 DEF TrackTypeOK
<1>n. wire.last \in Int /\ id \in Int
  BY <1>0, <1>3, TrackingAssumption DEF TrackTypeOK, Wires, Ids
<1>7. id <= wire.last
  <2>1. Tracked(id) /\ id \in wire.sent
    BY <1>3 DEF TrackInv
  <2>2. ~(id > wire.last)
    BY <2>1 DEF Tracked
  <2> QED BY <1>n, <2>2
<1>8. ASSUME NEW i \in Ids PROVE Tracked(i)'
  BY <1>0, <1>5, <1>6, <1>n, TrackedKept DEF TrackInv
<1>9. \A r \in wire'.done : r[1] <= wire'.last
  BY <1>5, <1>7 DEF TrackInv
<1> QED BY <1>0, <1>4, <1>5, <1>6, <1>8, <1>9 DEF TrackInv

LEMMA LinkDropsKeeps == ASSUME TrackInv, LinkDrops PROVE TrackInv'
<1>0. TrackTypeOK /\ UNCHANGED <<track, tracks, pass>> /\ link' = [link EXCEPT !.up = FALSE]
  BY DEF TrackInv, LinkDrops, SstateLost
<1>1. PICK kept \in {{}, wire.sent} : wire' = [wire EXCEPT !.sent = kept, !.back = {}]
  BY Zenon DEF LinkDrops
<1>2. /\ wire' \in Wires /\ wire'.last = wire.last /\ wire'.sent \subseteq wire.sent
      /\ wire'.done = wire.done /\ wire'.back = {} /\ wire'.told = wire.told /\ wire'.age = wire.age
  BY Zenon, <1>0, <1>1 DEF TrackTypeOK, Wires
<1>3. TrackTypeOK'
  BY Zenon, <1>0, <1>2 DEF TrackTypeOK
<1>n. wire.last \in Int
  BY <1>0, TrackingAssumption DEF TrackTypeOK, Wires
<1>4. ASSUME NEW i \in Ids PROVE Tracked(i)'
  BY <1>0, <1>2, <1>3, <1>n, TrackedKept DEF TrackInv
<1> QED BY <1>0, <1>2, <1>3, <1>4 DEF TrackInv

(* A TRACKING line: the verdict goes to its own entry, if that is listed.    *)
LEMMA DriverReportsKeeps == ASSUME TrackInv, DriverReports PROVE TrackInv'
<1>0. TrackTypeOK /\ UNCHANGED <<link, tracks, pass>>
  BY DEF TrackInv, DriverReports
<1>1. PICK r \in wire.back :
        /\ track' = TrackingSet(r[1], r[2])
        /\ wire' = [wire EXCEPT !.back = @ \ {r}, !.told = @ \cup {r[1]}]
  BY Zenon DEF DriverReports
<1>2. /\ r \in wire.done /\ r[1] \in Ids /\ r[2] \in Verdicts /\ r = <<r[1], r[2]>>
      /\ r[1] <= wire.last
  BY <1>0 DEF TrackInv, TrackTypeOK, Wires
<1>3. /\ wire' \in Wires /\ wire'.last = wire.last /\ wire'.sent = wire.sent
      /\ wire'.done = wire.done /\ wire'.back = wire.back \ {r} /\ wire'.told = wire.told \cup {r[1]}
      /\ wire'.age = wire.age
  <2>1. wire' = [wire EXCEPT !.back = wire.back \ {r}, !.told = wire.told \cup {r[1]}]
    BY <1>1
  <2> QED BY Zenon, <1>0, <1>2, <2>1 DEF TrackTypeOK, Wires
<1>4. /\ r[1] \in ListedIds => /\ track'[r[1]] = [status |-> r[2], age |-> track[r[1]].age]
                               /\ track'[r[1]] \in TrackEntries
      /\ r[1] \notin ListedIds => track' = track
      /\ \A id \in Ids : id # r[1] => track'[id] = track[id]
      /\ track' \in [Ids -> TrackEntries \cup {Unlisted}]
  <2>1. CASE r[1] \in ListedIds
    <3>1. track[r[1]] \in TrackEntries
      BY <1>0, <1>2, <2>1, ListedHasEntry
    <3>2. [status |-> r[2], age |-> track[r[1]].age] \in TrackEntries
      BY <1>2, <3>1 DEF TrackEntries
    <3>3. track' = [track EXCEPT ![r[1]] = [status |-> r[2], age |-> track[r[1]].age]]
      BY <1>1, <2>1 DEF TrackingSet
    <3>4. track \in [Ids -> TrackEntries \cup {Unlisted}]
      BY <1>0 DEF TrackTypeOK
    <3> QED BY <1>2, <2>1, <3>2, <3>3, <3>4
  <2>2. CASE r[1] \notin ListedIds
    BY <1>0, <1>1, <2>2 DEF TrackingSet, TrackTypeOK
  <2> QED BY <2>1, <2>2
<1>5. TrackTypeOK'
  BY <1>0, <1>3, <1>4 DEF TrackTypeOK
<1>n. wire.last \in Int /\ \A id \in Ids : id \in Int
  BY <1>0, TrackingAssumption DEF TrackTypeOK, Wires, Ids
<1>6. ASSUME NEW id \in Ids PROVE Tracked(id)'
  <2>0. Tracked(id)
    BY DEF TrackInv
  <2>1. CASE id = r[1] /\ id \in ListedIds
    <3>1. id \in ListedIds'
      BY <1>4, <2>1, UnlistedIsNone DEF ListedIds
    <3>2. track'[id].status = r[2] /\ track'[id].age = track[id].age /\ r[2] # "PENDING"
      <4>1. track'[id] = [status |-> r[2], age |-> track[id].age]
        BY <1>4, <2>1
      <4>2. r[2] # "PENDING"
        BY Zenon, <1>2 DEF Verdicts
      <4> QED BY <4>1, <4>2
    <3>3. ~(id > wire.last)
      BY <1>2, <1>n, <2>1
    <3> QED BY <1>0, <1>2, <1>3, <2>0, <2>1, <3>1, <3>2, <3>3 DEF Tracked
  <2>2. CASE id = r[1] /\ id \notin ListedIds
    <3>1. id \notin ListedIds'
      BY <1>4, <2>2 DEF ListedIds
    <3>2. ~(id > wire.last)
      BY <1>2, <1>n, <2>2
    <3> QED BY <1>3, <2>0, <2>2, <3>1, <3>2 DEF Tracked
  <2>3. CASE id # r[1]
    <3>1. id \in ListedIds <=> id \in ListedIds'
      BY <1>4, <2>3 DEF ListedIds
    <3> QED BY <1>0, <1>3, <1>4, <2>0, <2>3, <3>1 DEF Tracked
  <2> QED BY <2>1, <2>2, <2>3
<1> QED BY <1>0, <1>3, <1>5, <1>6 DEF TrackInv

(* Steps that leave the list and the commands alone.                         *)
LEMMA SwitchesKeep ==
    ASSUME TrackInv, UNCHANGED <<track, wire, link>>, pass' \in {"top", pass},
           tracks' \in [on : SUBSET Askers, enabled : BOOLEAN], tracks'.on # {} => tracks'.enabled
    PROVE  TrackInv'
<1>0. TrackTypeOK /\ TrackTypeOK'
  BY DEF TrackInv, TrackTypeOK
<1>n. wire.last \in Int
  BY <1>0, TrackingAssumption DEF TrackTypeOK, Wires
<1>1. ASSUME NEW id \in Ids PROVE Tracked(id)'
  BY <1>0, <1>n, TrackedKept DEF TrackInv
<1> QED BY <1>0, <1>1 DEF TrackInv

LEMMA TrackStep == TrackInv /\ [TrackNext]_trackVars => TrackInv'
<1> SUFFICES ASSUME TrackInv, [TrackNext]_trackVars PROVE TrackInv'
  OBVIOUS
<1>0. tracks \in [on : SUBSET Askers, enabled : BOOLEAN] /\ (tracks.on # {} => tracks.enabled)
  BY DEF TrackInv, TrackTypeOK
<1>1. CASE UNCHANGED trackVars
  BY <1>0, <1>1, SwitchesKeep DEF trackVars
<1>2. CASE TrackPassEnds
  BY <1>0, <1>2, SwitchesKeep DEF TrackPassEnds
<1>3. ASSUME NEW c \in Askers, SetsTrackingOn(c) PROVE TrackInv'
  <2>1. tracks' = [on |-> tracks.on \cup {c}, enabled |-> TRUE]
    BY <1>3 DEF SetsTrackingOn
  <2> QED BY <1>0, <1>3, <2>1, SwitchesKeep DEF SetsTrackingOn
<1>4. ASSUME NEW c \in Askers, SetsTrackingOff(c) PROVE TrackInv'
  <2>1. tracks' \in [on : SUBSET Askers, enabled : BOOLEAN]
        /\ tracks'.on = tracks.on \ {c} /\ tracks'.enabled = tracks.enabled
    BY <1>0, <1>4 DEF SetsTrackingOff
  <2> QED BY <1>0, <1>4, <2>1, SwitchesKeep DEF SetsTrackingOff
<1>5. CASE SendsInstcmd \/ SendsSet
  BY <1>5, PassesOnKeeps DEF SendsInstcmd, SendsSet
<1> QED BY <1>1, <1>2, <1>3, <1>4, <1>5, PassBeginsKeeps, TickKeeps, DriverActsKeeps,
           LinkDropsKeeps, DriverReportsKeeps DEF TrackNext

(* For any number of commands, clients and lost connections: GET TRACKING    *)
(* says of a command only what the driver did with it, an id that was given  *)
(* out is known for TRACKINGDELAY, and no entry outlives that.               *)
THEOREM TrackingIsSafe == TrackSpec => []TrackingSafe
<1>1. TrackInv => TrackingSafe
  <2> SUFFICES ASSUME TrackInv PROVE TrackingSafe
    OBVIOUS
  <2>0. TrackTypeOK /\ wire.last \in Int /\ \A id \in Ids : id \in Int /\ wire.age[id] \in Int
    BY TrackingAssumption DEF TrackInv, TrackTypeOK, Wires, Ids
  <2>1. TrackingTrue
    <3>1. ASSUME NEW id \in Ids, TrackingGet(id) \in Verdicts \ {"ERR UNKNOWN"}
          PROVE  <<id, TrackingGet(id)>> \in wire.done
      BY Zenon, <3>1 DEF TrackInv, Tracked, TrackingGet
    <3>2. ASSUME NEW id \in wire.told PROVE TrackingGet(id) # "PENDING"
      <4>1. id \in Ids
        BY <2>0 DEF TrackTypeOK, Wires
      <4> QED BY Zenon, <3>2, <4>1 DEF TrackInv, Tracked, TrackingGet
    <3> QED BY Zenon, <3>1, <3>2 DEF TrackingTrue
  <2>2. TrackingKept
    <3> SUFFICES ASSUME NEW id \in 1 .. wire.last, wire.age[id] <= Delay PROVE id \in ListedIds
      BY DEF TrackingKept
    <3>1. id \in Ids /\ id <= wire.last
      BY <2>0, TrackingAssumption DEF TrackTypeOK, Wires, Ids
    <3>2. ~(wire.age[id] > Delay)
      BY <2>0, <3>1, TrackingAssumption
    <3> QED BY Zenon, <3>1, <3>2 DEF TrackInv, Tracked
  <2>3. TrackingBounded
    BY Zenon DEF TrackInv, Tracked, TrackingBounded, ListedIds
  <2> QED BY <2>0, <2>1, <2>2, <2>3 DEF TrackingSafe
<1> QED BY <1>1, TrackInitially, TrackStep, PTL DEF TrackSpec

-----------------------------------------------------------------------------
(* No client is in the list twice.                                           *)
Injective(s) == \A i, j \in DOMAIN s : s[i] = s[j] => i = j

(* The list is the open connections; what poll is asked about or has found   *)
(* is still open when it is served; the listener is only asked about when    *)
(* the list has room for one more.                                           *)
ListInv ==
    /\ Injective(list) /\ ListSound
    /\ loop.pc = "scan" => loop.ready = {}
    /\ loop.pc = "poll" =>
         /\ loop.ready = {}
         /\ Members(loop.fds) \cap Clients \subseteq Open
         /\ "server" \in Members(loop.fds) => Len(list) < MaxConn
    /\ loop.pc = "serve" =>
         /\ loop.ready \cap Clients \subseteq Open
         /\ "server" \in loop.ready => Len(list) < MaxConn

(* A command that has waited for a tick is looked at before the pass ends.   *)
WaitInv ==
    \A k \in Clients : client[k].waited >= 1 =>
       /\ client[k].conn = "open" /\ client[k].inbox # None /\ client[k].waited = 1
       /\ ~loop.passed
       /\ loop.pc = "poll" => k \in Members(loop.fds)
       /\ loop.pc = "serve" => k \in loop.ready

LoginInv == LoginsCounted /\ \A k \in Clients : client[k].login => client[k].conn = "open"

SessionInv == TypeOK /\ ListInv /\ LoginInv

-----------------------------------------------------------------------------
(* Unlinking the i-th client keeps the order and the others.                 *)
LEMMA LinkedOutKeeps ==
    ASSUME NEW s \in Seq(Clients), NEW i \in DOMAIN s, Injective(s),
           NEW t, t = LinkedOut(s, i)
    PROVE  /\ t \in Seq(Clients) /\ Injective(t)
           /\ Len(t) = Len(s) - 1 /\ Members(t) = Members(s) \ {s[i]}
<1> DEFINE a == SubSeq(s, 1, i - 1)
           b == SubSeq(s, i + 1, Len(s))
<1>0. Len(s) \in Nat /\ DOMAIN s = 1 .. Len(s) /\ i \in 1 .. Len(s)
      /\ \A j \in 1 .. Len(s) : s[j] \in Clients
  BY LenProperties
<1>1. a \in Seq(Clients) /\ Len(a) = i - 1 /\ \A j \in 1 .. i - 1 : a[j] = s[j]
  <2>1. \A j \in 1 .. i - 1 : s[j] \in Clients
    BY <1>0
  <2> QED BY <1>0, <2>1, SubSeqProperties
<1>2. b \in Seq(Clients) /\ Len(b) = Len(s) - i /\ \A j \in 1 .. Len(s) - i : b[j] = s[i + j]
  <2>1. \A j \in i + 1 .. Len(s) : s[j] \in Clients
    BY <1>0
  <2> QED BY <1>0, <2>1, SubSeqProperties
<1> HIDE DEF a, b
<1>3. t = a \o b
  BY DEF LinkedOut, a, b
<1>4. /\ t \in Seq(Clients) /\ Len(t) = Len(s) - 1 /\ DOMAIN t = 1 .. Len(s) - 1
      /\ \A j \in 1 .. Len(s) - 1 : t[j] = IF j < i THEN s[j] ELSE s[j + 1]
  <2>1. /\ t \in Seq(Clients) /\ Len(t) = Len(s) - 1
        /\ \A j \in 1 .. Len(s) - 1 : t[j] = IF j <= i - 1 THEN a[j] ELSE b[j - (i - 1)]
    <3>1. /\ a \o b \in Seq(Clients) /\ Len(a \o b) = Len(a) + Len(b)
          /\ \A j \in 1 .. Len(a) + Len(b) : (a \o b)[j] = IF j <= Len(a) THEN a[j] ELSE b[j - Len(a)]
      BY Zenon, <1>1, <1>2, ConcatProperties
    <3>2. Len(a) + Len(b) = Len(s) - 1
      BY <1>0, <1>1, <1>2
    <3> QED BY <1>1, <1>3, <3>1, <3>2
  <2>2. ASSUME NEW j \in 1 .. Len(s) - 1 PROVE t[j] = IF j < i THEN s[j] ELSE s[j + 1]
    <3>1. CASE j < i
      <4>1. j \in 1 .. i - 1 /\ j <= i - 1
        BY <1>0, <3>1
      <4> QED BY Zenon, <1>1, <2>1, <3>1, <4>1
    <3>2. CASE ~(j < i)
      <4>1. j - (i - 1) \in 1 .. Len(s) - i /\ i + (j - (i - 1)) = j + 1 /\ ~(j <= i - 1)
        BY <1>0, <3>2
      <4> QED BY Zenon, <1>2, <2>1, <3>2, <4>1
    <3> QED BY <3>1, <3>2
  <2> QED BY <2>1, <2>2, LenProperties
<1> DEFINE at(j) == IF j < i THEN j ELSE j + 1
<1>a. ASSUME NEW j \in 1 .. Len(s) - 1 PROVE at(j) \in 1 .. Len(s) /\ at(j) # i /\ t[j] = s[at(j)]
  BY <1>0, <1>4
<1>b. ASSUME NEW j \in 1 .. Len(s) - 1, NEW k \in 1 .. Len(s) - 1, at(j) = at(k) PROVE j = k
  BY <1>0, <1>b
<1> HIDE DEF at
<1>5. Injective(t)
  <2> SUFFICES ASSUME NEW j \in 1 .. Len(s) - 1, NEW k \in 1 .. Len(s) - 1, t[j] = t[k] PROVE j = k
    BY <1>4 DEF Injective
  <2>1. s[at(j)] = s[at(k)] /\ at(j) \in 1 .. Len(s) /\ at(k) \in 1 .. Len(s)
    BY <1>a
  <2>2. at(j) = at(k)
    BY <1>0, <2>1 DEF Injective
  <2> QED BY <1>b, <2>2
<1>6. ASSUME NEW j \in 1 .. Len(s) - 1 PROVE t[j] \in Members(s) /\ t[j] # s[i]
  <2>1. at(j) \in DOMAIN s /\ at(j) # i /\ t[j] = s[at(j)]
    BY <1>0, <1>a
  <2> QED BY <1>0, <2>1 DEF Members, Injective
<1>7. \A j \in 1 .. Len(s) : j # i => s[j] \in Members(t)
  <2> TAKE j \in 1 .. Len(s)
  <2> HAVE j # i
  <2>1. CASE j < i
    BY <2>1, <1>0, <1>4 DEF Members
  <2>2. CASE j > i
    <3>1. j - 1 \in DOMAIN t /\ t[j - 1] = s[j]
      BY <2>2, <1>0, <1>4
    <3> QED BY <3>1 DEF Members
  <2> QED BY <2>1, <2>2, <1>0
<1>8. Members(t) = Members(s) \ {s[i]}
  BY <1>0, <1>4, <1>6, <1>7 DEF Members
<1> QED BY <1>4, <1>5, <1>8

(* client_connect puts the new client in front.                              *)
LEMMA LinkedIn ==
    ASSUME NEW s \in Seq(Clients), Injective(s), NEW k \in Clients, k \notin Members(s),
           NEW t, t = <<k>> \o s
    PROVE  /\ t \in Seq(Clients) /\ Injective(t)
           /\ Len(t) = Len(s) + 1 /\ Members(t) = Members(s) \cup {k}
<1>0. Len(s) \in Nat /\ DOMAIN s = 1 .. Len(s) /\ \A j \in 1 .. Len(s) : s[j] \in Clients
  BY LenProperties
<1>1. <<k>> \in Seq(Clients) /\ Len(<<k>>) = 1 /\ <<k>>[1] = k
  OBVIOUS
<1>2. /\ t \in Seq(Clients) /\ Len(t) = Len(s) + 1
      /\ \A j \in 1 .. Len(s) + 1 : t[j] = IF j <= 1 THEN <<k>>[j] ELSE s[j - 1]
  BY <1>0, <1>1, ConcatProperties
<1>3. DOMAIN t = 1 .. Len(s) + 1 /\ t[1] = k /\ \A j \in 1 .. Len(s) : t[j + 1] = s[j]
  BY <1>0, <1>1, <1>2, LenProperties
<1>4. \A j \in 2 .. Len(s) + 1 : t[j] = s[j - 1] /\ t[j] \in Members(s)
  <2> SUFFICES ASSUME NEW j \in 2 .. Len(s) + 1 PROVE t[j] = s[j - 1] /\ t[j] \in Members(s)
    OBVIOUS
  <2>1. j - 1 \in DOMAIN s /\ j \in 1 .. Len(s) + 1 /\ ~(j <= 1)
    BY <1>0
  <2>2. t[j] = s[j - 1]
    BY <1>2, <2>1
  <2> QED BY <2>1, <2>2 DEF Members
<1>5. Injective(t)
  <2> SUFFICES ASSUME NEW i \in DOMAIN t, NEW j \in DOMAIN t, t[i] = t[j] PROVE i = j
    BY DEF Injective
  <2>1. CASE i = 1 \/ j = 1
    BY <2>1, <1>0, <1>3, <1>4
  <2>2. CASE i # 1 /\ j # 1
    <3>1. s[i - 1] = s[j - 1] /\ i - 1 \in DOMAIN s /\ j - 1 \in DOMAIN s
      BY <2>2, <1>0, <1>3, <1>4
    <3> QED BY <3>1, <1>0, <1>3 DEF Injective
  <2> QED BY <2>1, <2>2
<1>6. Members(t) = Members(s) \cup {k}
  <2>1. \A x \in Members(s) : x \in Members(t)
    <3> TAKE x \in Members(s)
    <3>1. PICK j \in 1 .. Len(s) : s[j] = x
      BY <1>0 DEF Members
    <3>2. j + 1 \in DOMAIN t /\ t[j + 1] = x
      BY <1>0, <1>3, <3>1
    <3> QED BY Zenon, <3>2 DEF Members
  <2>2. k \in Members(t)
    BY <1>0, <1>3 DEF Members
  <2>3. \A x \in Members(t) : x = k \/ x \in Members(s)
    <3> TAKE x \in Members(t)
    <3>1. PICK j \in 1 .. Len(s) + 1 : t[j] = x
      BY <1>3 DEF Members
    <3> QED BY <3>1, <1>0, <1>3, <1>4
  <2> QED BY <2>1, <2>2, <2>3
<1> QED BY <1>2, <1>5, <1>6

(* fds[] holds listed clients, the driver and perhaps the listener, which is *)
(* in it only when every client is and there was room left.                  *)
LEMMA PolledHolds ==
    ASSUME NEW d \in {"down", "new", "up"}, list \in Seq(Clients), NEW fds, fds = Polled(d, list)
    PROVE  /\ fds \in Seq(Sockets) /\ Len(fds) <= MaxConn
           /\ Members(fds) \cap Clients \subseteq Members(list)
           /\ "server" \in Members(fds) => Len(list) < MaxConn
           /\ Len(list) < MaxConn => Members(list) \subseteq Members(fds)
<1> DEFINE drv == DriverFds(d)
           n == MaxConn - Len(drv)
           m == IF n < Len(list) THEN n ELSE Len(list)
           kept == Taken(list, n)
           most == drv \o kept
<1>0. /\ MaxConn \in Nat /\ MaxConn >= 1 /\ "driver" \notin Clients /\ "server" \notin Clients
      /\ Len(list) \in Nat /\ DOMAIN list = 1 .. Len(list)
      /\ \A j \in 1 .. Len(list) : list[j] \in Clients
  BY ClientsAssumption, LenProperties
<1>1. /\ drv \in Seq(Sockets) /\ Len(drv) \in 0 .. 1
      /\ \A j \in 1 .. Len(drv) : drv[j] = "driver"
  <2>1. CASE d = "up"
    BY <2>1 DEF DriverFds, Sockets
  <2>2. CASE d # "up"
    BY <2>2 DEF DriverFds, Sockets
  <2> QED BY <2>1, <2>2
<1> HIDE DEF drv
<1>2. n \in Nat /\ m \in Nat /\ m <= Len(list) /\ m <= n
  BY <1>0, <1>1
<1>3. kept \in Seq(Sockets) /\ Len(kept) = m /\ \A j \in 1 .. m : kept[j] = list[j]
  <2>1. \A j \in 1 .. m : list[j] \in Sockets
    BY <1>0, <1>2 DEF Sockets
  <2>2. kept = SubSeq(list, 1, m)
    BY DEF Taken
  <2> HIDE DEF m, n, kept
  <2> QED BY <2>1, <2>2, <1>2, SubSeqProperties
<1> HIDE DEF kept
<1>4. /\ most \in Seq(Sockets) /\ Len(most) = Len(drv) + m
      /\ \A j \in 1 .. Len(drv) + m :
            most[j] = IF j <= Len(drv) THEN drv[j] ELSE kept[j - Len(drv)]
  BY <1>1, <1>2, <1>3, ConcatProperties, SMTT(30)
<1> HIDE DEF most, m
<1>5. Len(most) \in Nat /\ DOMAIN most = 1 .. Len(most) /\ Len(most) <= MaxConn
  BY <1>0, <1>1, <1>2, <1>4, LenProperties
<1>6. \A j \in 1 .. Len(most) : most[j] = "driver" \/ most[j] \in Members(list)
  <2> SUFFICES ASSUME NEW j \in 1 .. Len(most) PROVE most[j] = "driver" \/ most[j] \in Members(list)
    OBVIOUS
  <2>1. CASE j <= Len(drv)
    BY <1>1, <1>4, <2>1
  <2>2. CASE ~(j <= Len(drv))
    <3>1. j - Len(drv) \in 1 .. m /\ j - Len(drv) \in 1 .. Len(list)
      BY <1>0, <1>1, <1>2, <1>4, <2>2
    <3>2. most[j] = list[j - Len(drv)]
      BY <1>3, <1>4, <2>2, <3>1
    <3> QED BY <1>0, <3>1, <3>2 DEF Members
  <2> QED BY <2>1, <2>2
<1>7. Len(list) < MaxConn => Members(list) \subseteq Members(most)
  <2> SUFFICES ASSUME Len(list) < MaxConn, NEW x \in Members(list) PROVE x \in Members(most)
    OBVIOUS
  <2>1. PICK j \in 1 .. Len(list) : list[j] = x
    BY <1>0 DEF Members
  <2>2. m = Len(list)
    BY <1>0, <1>1 DEF m
  <2>3. Len(drv) + j \in DOMAIN most /\ most[Len(drv) + j] = x
    <3>1. Len(drv) + j \in 1 .. Len(drv) + m /\ ~(Len(drv) + j <= Len(drv)) /\ (Len(drv) + j) - Len(drv) = j
          /\ j \in 1 .. m
      BY <1>0, <1>1, <1>2, <2>2
    <3> QED BY <1>3, <1>4, <1>5, <2>1, <3>1
  <2> QED BY <2>3 DEF Members
<1>8. CASE Len(most) < MaxConn
  <2>1. fds = Append(most, "server")
    BY <1>8 DEF Polled, most, kept, n, drv
  <2>2. "server" \in Sockets
    BY DEF Sockets
  <2>3. /\ fds \in Seq(Sockets) /\ Len(fds) = Len(most) + 1
        /\ \A j \in 1 .. Len(most) : fds[j] = most[j]
        /\ fds[Len(most) + 1] = "server"
    BY <2>1, <2>2, <1>4, AppendProperties
  <2>4. DOMAIN fds = 1 .. Len(most) + 1
    BY <2>3, LenProperties
  <2>5. Members(fds) \cap Clients \subseteq Members(list)
    <3> SUFFICES ASSUME NEW j \in 1 .. Len(most) + 1, fds[j] \in Clients
                 PROVE  fds[j] \in Members(list)
      BY <2>4 DEF Members
    <3> QED BY <1>0, <1>5, <1>6, <2>3
  <2>6. Members(most) \subseteq Members(fds)
    BY <2>3, <2>4, <1>5 DEF Members
  <2>7. Len(list) < MaxConn
    BY <1>8, <1>0, <1>1, <1>2, <1>4 DEF m
  <2>8. Len(fds) <= MaxConn
    BY <1>8, <1>0, <1>5, <2>3
  <2> QED BY <2>3, <2>5, <2>6, <2>7, <2>8, <1>7
<1>9. CASE ~(Len(most) < MaxConn)
  <2>1. fds = most
    BY <1>9 DEF Polled, most, kept, n, drv
  <2>2. Members(fds) \cap Clients \subseteq Members(list) /\ "server" \notin Members(fds)
    <3>1. "server" \notin Members(list)
      BY <1>0 DEF Members
    <3> QED BY <1>0, <1>5, <1>6, <2>1, <3>1 DEF Members
  <2> QED BY <2>1, <2>2, <1>4, <1>5, <1>7
<1> QED BY <1>8, <1>9

-----------------------------------------------------------------------------
(* The count does not change where nobody's login does.                      *)
LEMMA LoginsKept ==
    ASSUME LoginInv, ups'.numlogins = ups.numlogins,
           \A k \in Clients : /\ client'[k].login = client[k].login
                              /\ client[k].conn = "open" => client'[k].conn = "open"
    PROVE  LoginInv'
<1>1. {k \in Clients : client'[k].login} = {k \in Clients : client[k].login}
  OBVIOUS
<1> QED BY Zenon, <1>1 DEF LoginInv, LoginsCounted

(* A step that leaves the list and the loop alone, and opens or closes       *)
(* nothing.                                                                  *)
LEMMA ListKept ==
    ASSUME ListInv, UNCHANGED <<list, loop>>,
           \A k \in Clients : client'[k].conn = "open" <=> client[k].conn = "open"
    PROVE  ListInv'
<1>1. Open' = Open
  BY DEF Open
<1>2. list' = list /\ loop' = loop
  OBVIOUS
<1>3. ListSound' /\ Injective(list')
  BY <1>1, <1>2 DEF ListInv, ListSound
<1> QED BY <1>1, <1>2, <1>3 DEF ListInv

(* A socket has been served; the client, if it is one, is still there.       *)
LEMMA ServedKept ==
    ASSUME TypeOK, ListInv, NEW s, Serving(s), Served(s), UNCHANGED list,
           \A k \in Clients : client'[k].conn = "open" <=> client[k].conn = "open"
    PROVE  ListInv' /\ loop' \in LoopStates /\ Len(loop'.fds) <= MaxConn
<1>1. Open' = Open
  BY DEF Open
<1>2. /\ loop.pc = "serve" /\ loop'.pc = "serve" /\ loop'.ready = loop.ready \ {s}
      /\ loop'.fds = loop.fds /\ loop' \in LoopStates
  BY DEF Serving, Served, TypeOK, LoopStates
<1>3. loop'.ready \cap Clients \subseteq Open /\ ("server" \in loop'.ready => Len(list) < MaxConn)
  BY <1>2 DEF ListInv
<1>4. ListSound' /\ Injective(list')
  BY <1>1 DEF ListInv, ListSound
<1>5. Len(loop'.fds) <= MaxConn
  BY <1>2 DEF TypeOK
<1> QED BY <1>1, <1>2, <1>3, <1>4, <1>5 DEF ListInv

(* client_disconnect takes one client out of the list, and its login out of  *)
(* the count.                                                                *)
LEMMA DisconnectKeeps ==
    ASSUME SessionInv, NEW k \in Open, Disconnects(k)
    PROVE  /\ client' \in [Clients -> ClientStates] /\ list' \in Seq(Clients)
           /\ ups' \in [driver : {"down", "new", "up"}, numlogins : Int]
           /\ Injective(list') /\ ListSound' /\ Len(list') = Len(list) - 1
           /\ Open' = Open \ {k} /\ LoginInv'
<1>0. TypeOK /\ ListInv /\ ListSound /\ LoginInv /\ k \in Clients
  BY DEF SessionInv, ListInv, Open
<1>f. Fresh \in ClientStates /\ Fresh.conn = "none" /\ Fresh.login = FALSE
  BY ClientsAssumption DEF Fresh, ClientStates
<1>1. /\ client' \in [Clients -> ClientStates] /\ client'[k] = Fresh
      /\ \A j \in Clients : j # k => client'[j] = client[j]
  BY <1>0, <1>f DEF Disconnects, TypeOK
<1>2. Open' = Open \ {k}
  BY <1>1, <1>f DEF Open
<1> DEFINE i == CHOOSE i \in DOMAIN list : list[i] = k
<1>3. i \in DOMAIN list /\ list[i] = k
  BY <1>0 DEF ListSound, Members
<1>4. list' = LinkedOut(list, i)
  BY DEF Disconnects
<1> HIDE DEF i
<1>5. /\ list' \in Seq(Clients) /\ Injective(list')
      /\ Len(list') = Len(list) - 1 /\ Members(list') = Members(list) \ {k}
  BY <1>0, <1>3, <1>4, LinkedOutKeeps DEF TypeOK, ListInv
<1>6. IsFiniteSet(Clients)
  BY ClientsAssumption
<1>7. IsFiniteSet(Open) /\ Cardinality(Open) \in Nat
  BY <1>6, FS_Subset, FS_CardinalityType DEF Open
<1>8. Cardinality(Open \ {k}) = Cardinality(Open) - 1
  BY <1>7, FS_RemoveElement
<1>9. ListSound'
  <2>1. Len(list) \in Nat /\ MaxConn \in Nat
    BY <1>0, ClientsAssumption, LenProperties DEF TypeOK
  <2> QED BY <1>0, <1>2, <1>5, <1>8, <2>1 DEF ListSound
<1> DEFINE In == {j \in Clients : client[j].login}
<1>10. IsFiniteSet(In) /\ Cardinality(In) \in Nat
  BY <1>6, FS_Subset, FS_CardinalityType
<1>11. {j \in Clients : client'[j].login} = In \ {k}
  BY <1>1, <1>f
<1>12. Cardinality(In \ {k}) = IF client[k].login THEN Cardinality(In) - 1 ELSE Cardinality(In)
  BY <1>0, <1>10, FS_RemoveElement
<1>13. ups.numlogins = Cardinality(In)
  BY <1>0 DEF LoginInv, LoginsCounted
<1> HIDE DEF In
<1>14. ups' = [ups EXCEPT !.numlogins = IF client[k].login THEN ups.numlogins - 1 ELSE ups.numlogins]
  BY DEF Disconnects
<1>15. ups' \in [driver : {"down", "new", "up"}, numlogins : Int]
  BY <1>0, <1>14 DEF TypeOK
<1>16. ups'.numlogins = Cardinality(In \ {k})
  BY <1>0, <1>12, <1>13, <1>14 DEF TypeOK
<1>17. LoginInv'
  <2>1. LoginsCounted'
    BY <1>11, <1>16 DEF LoginsCounted
  <2>2. \A j \in Clients : client'[j].login => client'[j].conn = "open"
    BY <1>0, <1>1, <1>f DEF LoginInv
  <2> QED BY <2>1, <2>2 DEF LoginInv
<1> QED BY <1>1, <1>2, <1>5, <1>9, <1>15, <1>17

(* An answer, or its failure, leaves the connection to the next scan.        *)
LEMMA AnsweredKeeps ==
    ASSUME TypeOK, NEW k \in Clients, NEW c \in ClientStates, Answered(k, c)
    PROVE  /\ client' \in [Clients -> ClientStates] /\ UNCHANGED list
           /\ client'[k].conn = c.conn /\ client'[k].login = c.login
           /\ client'[k].waited = 0
           /\ \A j \in Clients : j # k => client'[j] = client[j]
<1>1. PICK ok \in BOOLEAN : client' = [client EXCEPT ![k] =
            [c EXCEPT !.idle = 0, !.inbox = None, !.waited = 0, !.zeroed = c.zeroed \/ ~ok]]
  BY Zenon DEF Answered
<1>2. (c.zeroed \/ ~ok) \in BOOLEAN
  BY Zenon
<1> DEFINE z == c.zeroed \/ ~ok
           d == [c EXCEPT !.idle = 0, !.inbox = None, !.waited = 0, !.zeroed = z]
<1>3. 0 \in 0 .. Limit + 1
  BY ClientsAssumption
<1> HIDE DEF z
<1>4. d \in ClientStates /\ d.conn = c.conn /\ d.login = c.login /\ d.waited = 0
  <2>1. z \in BOOLEAN /\ None \in Commands \cup {None} /\ 0 \in 0 .. 2
    BY <1>2 DEF z
  <2> QED BY Zenon, <1>3, <2>1 DEF ClientStates
<1>5. client' = [client EXCEPT ![k] = d]
  BY <1>1 DEF z
<1> HIDE DEF d
<1> QED BY <1>4, <1>5 DEF TypeOK, Answered

(* One command of an accepted client: what the handler makes of the client,  *)
(* and that nothing else changes.                                            *)
HandledStep(k) ==
    /\ client' \in [Clients -> ClientStates] /\ UNCHANGED list
    /\ Serving(k) /\ Served(k)
    /\ client'[k].conn = client[k].conn /\ client'[k].waited = 0
    /\ \A j \in Clients : j # k => client'[j] = client[j]

LEMMA CommandsKeep ==
    ASSUME TypeOK, ListInv, LoginInv, NEW k \in Clients,
           \/ HandlesQuery(k) \/ HandlesGarbled(k) \/ HandlesAuth(k)
           \/ HandlesLogin(k) \/ HandlesLogout(k)
    PROVE  /\ HandledStep(k) /\ LoginInv'
           /\ ups' \in [driver : {"down", "new", "up"}, numlogins : Int]
<1>0. client[k] \in ClientStates /\ ups \in [driver : {"down", "new", "up"}, numlogins : Int]
  BY DEF TypeOK
<1>1. CASE HandlesQuery(k)
  <2>1. HandledStep(k) /\ client'[k].login = client[k].login /\ UNCHANGED ups
    BY <1>0, <1>1, AnsweredKeeps DEF HandlesQuery, Handling, HandledStep
  <2> QED BY <2>1, <1>0, LoginsKept DEF HandledStep
<1>2. CASE HandlesGarbled(k)
  <2> DEFINE d == [client[k] EXCEPT !.inbox = None, !.waited = 0]
  <2>1. d \in ClientStates /\ d.conn = client[k].conn /\ d.login = client[k].login /\ d.waited = 0
    <3>1. None \in Commands \cup {None} /\ 0 \in 0 .. 2
      OBVIOUS
    <3> QED BY Zenon, <1>0, <3>1 DEF ClientStates
  <2>2. client' = [client EXCEPT ![k] = d]
    BY Zenon, <1>2 DEF HandlesGarbled, TypeOK
  <2> HIDE DEF d
  <2>3. HandledStep(k) /\ client'[k].login = client[k].login /\ UNCHANGED ups
    BY Zenon, <1>2, <2>1, <2>2 DEF HandlesGarbled, Handling, HandledStep, TypeOK
  <2> QED BY <2>3, <1>0, LoginsKept DEF HandledStep
<1>3. CASE HandlesAuth(k)
  <2> DEFINE c == [client[k] EXCEPT !.auth = TRUE]
  <2>1. c \in ClientStates /\ c.conn = client[k].conn /\ c.login = client[k].login
    BY Zenon, <1>0 DEF ClientStates
  <2>2. Answered(k, c) /\ Serving(k) /\ Served(k) /\ UNCHANGED ups
    BY <1>3 DEF HandlesAuth, Handling
  <2> HIDE DEF c
  <2>3. HandledStep(k) /\ client'[k].login = client[k].login
    BY Zenon, <2>1, <2>2, AnsweredKeeps DEF HandledStep
  <2> QED BY Zenon, <2>2, <2>3, <1>0, LoginsKept DEF HandledStep
<1>4. CASE HandlesLogout(k)
  <2> DEFINE c == [client[k] EXCEPT !.zeroed = TRUE]
  <2>1. c \in ClientStates /\ c.conn = client[k].conn /\ c.login = client[k].login
    BY Zenon, <1>0 DEF ClientStates
  <2>2. Answered(k, c) /\ Serving(k) /\ Served(k) /\ UNCHANGED ups
    BY <1>4 DEF HandlesLogout, Handling
  <2> HIDE DEF c
  <2>3. HandledStep(k) /\ client'[k].login = client[k].login
    BY Zenon, <2>1, <2>2, AnsweredKeeps DEF HandledStep
  <2> QED BY Zenon, <2>2, <2>3, <1>0, LoginsKept DEF HandledStep
<1>5. CASE HandlesLogin(k)
  <2> DEFINE granted == client[k].auth /\ ~client[k].login /\ LoginAllowed
             after == client[k].login \/ granted
             c == [client[k] EXCEPT !.login = after]
             In == {j \in Clients : client[j].login}
  <2>0. granted \in BOOLEAN /\ after \in BOOLEAN
    BY Zenon
  <2>a. Answered(k, c) /\ Serving(k) /\ Served(k)
        /\ ups' = [ups EXCEPT !.numlogins = IF granted THEN ups.numlogins + 1 ELSE ups.numlogins]
    BY <1>5 DEF HandlesLogin, Handling
  <2>b. (granted => ~client[k].login /\ after) /\ (~granted => after = client[k].login)
    BY <1>0 DEF ClientStates
  <2> HIDE DEF granted, after
  <2>1. c \in ClientStates /\ c.conn = client[k].conn /\ c.login = after
    BY <1>0, <2>0 DEF ClientStates
  <2> HIDE DEF c
  <2>2. HandledStep(k) /\ client'[k].login = after
    BY <2>1, <2>a, AnsweredKeeps DEF HandledStep
  <2>3. k \in Open
    BY <2>a DEF Serving, ListInv
  <2>4. IsFiniteSet(In) /\ Cardinality(In) \in Nat
    BY ClientsAssumption, FS_Subset, FS_CardinalityType
  <2>5. ups.numlogins = Cardinality(In)
    BY DEF LoginInv, LoginsCounted
  <2>6. CASE granted
    <3>1. {j \in Clients : client'[j].login} = In \cup {k} /\ k \notin In
      BY Zenon, <2>2, <2>b, <2>6 DEF HandledStep
    <3>2. Cardinality(In \cup {k}) = Cardinality(In) + 1
      BY <2>4, <3>1, FS_AddElement
    <3> HIDE DEF In
    <3>3. /\ ups' \in [driver : {"down", "new", "up"}, numlogins : Int]
          /\ ups'.numlogins = Cardinality(In) + 1
      BY <1>0, <2>a, <2>5, <2>6
    <3>4. LoginsCounted'
      BY Zenon, <3>1, <3>2, <3>3 DEF LoginsCounted
    <3>5. \A j \in Clients : client'[j].login => client'[j].conn = "open"
      BY Zenon, <2>2, <2>3 DEF HandledStep, LoginInv, Open
    <3> QED BY <2>2, <3>3, <3>4, <3>5 DEF LoginInv
  <2>7. CASE ~granted
    <3>1. client'[k].login = client[k].login
      BY <2>2, <2>b, <2>7
    <3>2. ups' \in [driver : {"down", "new", "up"}, numlogins : Int] /\ ups'.numlogins = ups.numlogins
      BY <1>0, <2>a, <2>7
    <3> QED BY Zenon, <2>2, <3>1, <3>2, LoginsKept DEF HandledStep
  <2> QED BY <2>6, <2>7
<1> QED BY <1>1, <1>2, <1>3, <1>4, <1>5

-----------------------------------------------------------------------------
LEMMA SessionInitially == Init => SessionInv /\ WaitInv
<1> SUFFICES ASSUME Init PROVE SessionInv /\ WaitInv
  OBVIOUS
<1>f. Fresh \in ClientStates /\ Fresh.conn = "none" /\ Fresh.login = FALSE /\ Fresh.waited = 0
  BY ClientsAssumption DEF Fresh, ClientStates
<1>1. \A k \in Clients : client[k] = Fresh
  BY DEF Init
<1>2. Open = {} /\ {k \in Clients : client[k].login} = {}
  BY <1>1, <1>f DEF Open
<1>3. TypeOK
  BY <1>f, ClientsAssumption DEF Init, TypeOK, LoopStates
<1>4. list = << >> /\ Len(list) = 0 /\ DOMAIN list = {} /\ Members(list) = {}
  BY DEF Init, Members
<1>5. ListInv
  BY <1>2, <1>4, FS_EmptySet, ClientsAssumption DEF ListInv, ListSound, Injective, Init
<1>6. LoginInv
  BY Zenon, <1>1, <1>2, <1>f, FS_EmptySet DEF LoginInv, LoginsCounted, Init
<1> QED BY <1>1, <1>f, <1>3, <1>5, <1>6 DEF SessionInv, WaitInv

(* The steps of mainloop.                                                    *)
LEMMA ShedsKeep ==
    ASSUME SessionInv, NEW k \in Clients, Sheds(k)
    PROVE  SessionInv'
<1>1. k \in Open /\ Disconnects(k) /\ UNCHANGED loop /\ loop.pc = "scan" /\ loop.ready = {}
  BY DEF SessionInv, ListInv, ListSound, Sheds
<1>2. /\ client' \in [Clients -> ClientStates] /\ list' \in Seq(Clients)
      /\ ups' \in [driver : {"down", "new", "up"}, numlogins : Int]
      /\ Injective(list') /\ ListSound' /\ LoginInv'
  BY <1>1, DisconnectKeeps
<1>3. TypeOK'
  BY <1>1, <1>2 DEF SessionInv, TypeOK
<1>4. ListInv'
  BY <1>1, <1>2 DEF ListInv, Injective
<1> QED BY <1>2, <1>3, <1>4 DEF SessionInv

LEMMA ReadsEndKeeps ==
    ASSUME SessionInv, NEW k \in Clients, ReadsEnd(k)
    PROVE  SessionInv'
<1>0. TypeOK /\ ListInv
  BY DEF SessionInv
<1>1. /\ k \in Open /\ Disconnects(k) /\ loop.pc = "serve"
      /\ loop' = [loop EXCEPT !.ready = loop.ready \ {k}]
  BY <1>0 DEF ListInv, ReadsEnd, Serving, Served
<1>2. /\ client' \in [Clients -> ClientStates] /\ list' \in Seq(Clients)
      /\ ups' \in [driver : {"down", "new", "up"}, numlogins : Int]
      /\ Injective(list') /\ ListSound' /\ LoginInv'
      /\ Open' = Open \ {k} /\ Len(list') = Len(list) - 1
  BY <1>1, DisconnectKeeps
<1>3. /\ loop' \in LoopStates /\ loop'.pc = "serve" /\ loop'.fds = loop.fds
      /\ loop'.ready = loop.ready \ {k}
  BY <1>0, <1>1 DEF TypeOK, LoopStates
<1>4. TypeOK'
  BY <1>0, <1>2, <1>3 DEF TypeOK
<1>5. loop'.ready \cap Clients \subseteq Open'
  BY <1>0, <1>1, <1>2, <1>3 DEF ListInv
<1>6. "server" \in loop'.ready => Len(list') < MaxConn
  <2>1. Len(list) \in Nat /\ MaxConn \in Nat
    BY <1>0, ClientsAssumption, LenProperties DEF TypeOK
  <2> QED BY <1>0, <1>1, <1>2, <1>3, <2>1 DEF ListInv
<1>7. ListInv'
  BY <1>2, <1>3, <1>5, <1>6 DEF ListInv, Injective
<1> QED BY <1>2, <1>4, <1>7 DEF SessionInv

LEMMA ScanKeeps ==
    ASSUME SessionInv, Scan
    PROVE  /\ SessionInv' /\ loop'.pc = "poll" /\ loop'.passed = loop.passed
           /\ UNCHANGED client
           /\ Len(list) < MaxConn => Open \subseteq Members(loop'.fds)
<1>0. TypeOK /\ ListInv /\ ListSound /\ LoginInv
  BY DEF SessionInv, ListInv
<1>1. PICK d \in ScannedDriver : /\ ups' = [ups EXCEPT !.driver = d]
                                 /\ loop' = [loop EXCEPT !.pc = "poll", !.fds = Polled(d, list)]
  BY Zenon DEF Scan
<1>2. UNCHANGED <<client, list>> /\ loop.pc = "scan" /\ loop.ready = {}
  BY <1>0 DEF Scan, ListInv
<1>3. d \in {"down", "new", "up"}
  BY DEF ScannedDriver
<1> DEFINE fds == Polled(d, list)
<1>4. /\ fds \in Seq(Sockets) /\ Len(fds) <= MaxConn
      /\ Members(fds) \cap Clients \subseteq Members(list)
      /\ "server" \in Members(fds) => Len(list) < MaxConn
      /\ Len(list) < MaxConn => Members(list) \subseteq Members(fds)
  BY <1>0, <1>3, PolledHolds DEF TypeOK
<1>5. loop' = [loop EXCEPT !.pc = "poll", !.fds = fds]
  BY <1>1
<1> HIDE DEF fds
<1>6. /\ loop' \in LoopStates /\ loop'.pc = "poll" /\ loop'.fds = fds
      /\ loop'.ready = loop.ready /\ loop'.passed = loop.passed
  BY Zenon, <1>0, <1>4, <1>5 DEF TypeOK, LoopStates
<1>7. ups' \in [driver : {"down", "new", "up"}, numlogins : Int] /\ ups'.numlogins = ups.numlogins
  BY Zenon, <1>0, <1>1, <1>3 DEF TypeOK
<1>8. TypeOK'
  BY <1>0, <1>2, <1>4, <1>6, <1>7 DEF TypeOK
<1>9. LoginInv'
  BY <1>0, <1>2, <1>7, LoginsKept
<1>10. Open' = Open /\ Members(list) = Open
  BY <1>0, <1>2 DEF Open, ListSound
<1>11. ListInv'
  <2>1. ListSound' /\ Injective(list')
    BY <1>0, <1>2, <1>10 DEF ListSound, ListInv
  <2> QED BY <2>1, <1>2, <1>4, <1>6, <1>10 DEF ListInv, Injective, ListSound
<1> QED BY <1>2, <1>4, <1>6, <1>8, <1>9, <1>10, <1>11 DEF SessionInv

LEMMA PollKeeps ==
    ASSUME SessionInv, Poll
    PROVE  /\ SessionInv' /\ loop'.pc = "serve" /\ loop'.passed = loop.passed
           /\ UNCHANGED client
           /\ loop'.ready = {s \in Members(loop.fds) : Readable(s)}
<1>0. TypeOK /\ ListInv /\ ListSound /\ LoginInv
  BY DEF SessionInv, ListInv
<1> DEFINE ready == {s \in Members(loop.fds) : Readable(s)}
<1>1. loop.fds \in Seq(Sockets)
  BY <1>0 DEF TypeOK, LoopStates
<1>2. Members(loop.fds) \subseteq Sockets
  BY <1>1, LenProperties DEF Members
<1>3. ready \in SUBSET Sockets /\ ready \subseteq Members(loop.fds)
  BY <1>2
<1>4. loop' = [loop EXCEPT !.ready = ready, !.pc = "serve"] /\ loop.pc = "poll"
      /\ UNCHANGED <<client, list, ups>>
  BY DEF Poll
<1>r. ready = {s \in Members(loop.fds) : Readable(s)}
  OBVIOUS
<1> HIDE DEF ready
<1>5. /\ loop' \in LoopStates /\ loop'.pc = "serve" /\ loop'.fds = loop.fds
      /\ loop'.ready = ready /\ loop'.passed = loop.passed
  BY Zenon, <1>0, <1>3, <1>4 DEF TypeOK, LoopStates
<1>6. TypeOK'
  BY <1>0, <1>4, <1>5 DEF TypeOK
<1>7. LoginInv'
  BY <1>0, <1>4, LoginsKept
<1>8. Open' = Open
  BY <1>4 DEF Open
<1>9. ListInv'
  <2>1. ListSound' /\ Injective(list')
    BY <1>0, <1>4, <1>8 DEF ListSound, ListInv
  <2>2. ready \cap Clients \subseteq Open /\ ("server" \in ready => Len(list) < MaxConn)
    BY <1>0, <1>3, <1>4 DEF ListInv
  <2> QED BY <2>1, <2>2, <1>4, <1>5, <1>8 DEF ListInv, Injective, ListSound
<1> QED BY <1>4, <1>5, <1>6, <1>7, <1>9, <1>r DEF SessionInv

LEMMA AcceptsKeep ==
    ASSUME SessionInv, Accepts
    PROVE  SessionInv'
<1>0. TypeOK /\ ListInv /\ ListSound /\ LoginInv
  BY DEF SessionInv, ListInv
<1>1. PICK k \in Clients : /\ client[k].conn = "backlog"
                           /\ client' = [client EXCEPT ![k].conn = "open"]
                           /\ list' = <<k>> \o list
  BY Zenon DEF Accepts
<1>2. /\ loop.pc = "serve" /\ "server" \in loop.ready
      /\ loop' = [loop EXCEPT !.ready = loop.ready \ {"server"}] /\ UNCHANGED ups
  BY DEF Accepts, Serving, Served
<1> DEFINE c == [client[k] EXCEPT !.conn = "open"]
<1>3. c \in ClientStates /\ c.conn = "open" /\ c.login = client[k].login
  <2>1. client[k] \in ClientStates
    BY <1>0 DEF TypeOK
  <2> QED BY <2>1, SMTT(30) DEF ClientStates
<1>4. client' = [client EXCEPT ![k] = c]
  BY <1>0, <1>1 DEF TypeOK
<1> HIDE DEF c
<1>5. /\ client' \in [Clients -> ClientStates] /\ client'[k] = c
      /\ \A j \in Clients : j # k => client'[j] = client[j]
  BY <1>0, <1>3, <1>4 DEF TypeOK
<1>6. Open' = Open \cup {k} /\ k \notin Open /\ k \notin Members(list)
  BY <1>0, <1>1, <1>3, <1>5 DEF Open, ListSound
<1>7. /\ list' \in Seq(Clients) /\ Injective(list')
      /\ Len(list') = Len(list) + 1 /\ Members(list') = Members(list) \cup {k}
  BY Zenon, <1>0, <1>1, <1>6, LinkedIn DEF TypeOK, ListInv
<1>8. Len(list) \in Nat /\ MaxConn \in Nat /\ Len(list) < MaxConn
  BY <1>0, <1>2, ClientsAssumption, LenProperties DEF TypeOK, ListInv
<1>9. Cardinality(Open \cup {k}) = Cardinality(Open) + 1
  <2>1. IsFiniteSet(Open)
    BY ClientsAssumption, FS_Subset DEF Open
  <2> QED BY Zenon, <2>1, <1>6, FS_AddElement
<1>10. ListSound'
  BY <1>0, <1>6, <1>7, <1>8, <1>9 DEF ListSound
<1>11. /\ loop' \in LoopStates /\ loop'.pc = "serve" /\ loop'.fds = loop.fds
       /\ loop'.ready = loop.ready \ {"server"}
  BY <1>0, <1>2 DEF TypeOK, LoopStates
<1>12. TypeOK'
  BY <1>0, <1>2, <1>5, <1>7, <1>11 DEF TypeOK
<1>13. LoginInv'
  BY <1>0, <1>1, <1>2, <1>3, <1>5, LoginsKept
<1>14. loop'.ready \cap Clients \subseteq Open'
  BY <1>0, <1>2, <1>6, <1>11 DEF ListInv
<1>15. ListInv'
  BY <1>7, <1>10, <1>11, <1>14 DEF ListInv, Injective
<1> QED BY <1>12, <1>13, <1>15 DEF SessionInv

(* The steps of the clients, of the driver's socket and of the clock.        *)
OthersStep ==
    \/ Tick \/ DriverDrops
    \/ \E k \in Clients : ClientDials(k) \/ ClientSends(k) \/ ClientHangsUp(k)

(* A client that dials, sends or hangs up changes one field of its state.    *)
LEMMA ChangedClient ==
    ASSUME NEW x \in ClientStates, NEW y, NEW cmd \in Commands \cup {None},
           \/ y = [x EXCEPT !.conn = "backlog"]
           \/ y = [x EXCEPT !.inbox = cmd]
           \/ y = [x EXCEPT !.fin = TRUE]
    PROVE  /\ y \in ClientStates /\ y.login = x.login
           /\ (y = [x EXCEPT !.conn = "backlog"] => y.conn = "backlog")
           /\ (y = [x EXCEPT !.inbox = cmd] \/ y = [x EXCEPT !.fin = TRUE] => y.conn = x.conn)
<1>1. ASSUME y = [x EXCEPT !.conn = "backlog"]
      PROVE  y \in ClientStates /\ y.login = x.login /\ y.conn = "backlog"
  <2>1. y \in ClientStates
    BY <1>1, SMTT(30) DEF ClientStates
  <2>2. y.login = x.login /\ y.conn = "backlog"
    BY <1>1, SMTT(30) DEF ClientStates
  <2> QED BY <2>1, <2>2
<1>2. ASSUME y = [x EXCEPT !.inbox = cmd]
      PROVE  y \in ClientStates /\ y.login = x.login /\ y.conn = x.conn
  <2>1. y \in ClientStates
    BY <1>2, SMTT(30) DEF ClientStates
  <2>2. y.login = x.login /\ y.conn = x.conn
    BY <1>2, SMTT(30) DEF ClientStates
  <2> QED BY <2>1, <2>2
<1>3. ASSUME y = [x EXCEPT !.fin = TRUE]
      PROVE  y \in ClientStates /\ y.login = x.login /\ y.conn = x.conn
  <2>1. y \in ClientStates
    <3>1. TRUE \in BOOLEAN
      OBVIOUS
    <3>2. \A b \in BOOLEAN : [x EXCEPT !.fin = b] \in ClientStates
      BY ZenonT(30) DEF ClientStates
    <3> QED BY <1>3, <3>1, <3>2, Zenon
  <2>2. y.login = x.login /\ y.conn = x.conn
    BY <1>3, SMTT(30) DEF ClientStates
  <2> QED BY <2>1, <2>2
<1> QED BY <1>1, <1>2, <1>3

LEMMA OthersKeep ==
    ASSUME SessionInv, OthersStep
    PROVE  SessionInv'
<1>0. TypeOK /\ ListInv /\ LoginInv
  BY DEF SessionInv
<1> SUFFICES /\ client' \in [Clients -> ClientStates] /\ UNCHANGED list
             /\ \A k \in Clients : /\ client'[k].login = client[k].login
                                   /\ client'[k].conn = "open" <=> client[k].conn = "open"
             /\ ups' \in [driver : {"down", "new", "up"}, numlogins : Int]
             /\ ups'.numlogins = ups.numlogins
             /\ loop' \in LoopStates /\ loop'.pc = loop.pc /\ loop'.fds = loop.fds
             /\ loop'.ready = loop.ready
  <2>1. TypeOK' /\ LoginInv'
    BY <1>0, LoginsKept DEF TypeOK
  <2>2. Open' = Open
    BY DEF Open
  <2>3. ListInv'
    BY <1>0, <2>2 DEF ListInv, ListSound, Injective, Members
  <2> QED BY <2>1, <2>3 DEF SessionInv
<1> USE <1>0 DEF TypeOK
<1>1. ASSUME NEW k \in Clients, NEW c \in ClientStates, client' = [client EXCEPT ![k] = c],
             c.login = client[k].login, c.conn = "open" <=> client[k].conn = "open"
      PROVE  /\ client' \in [Clients -> ClientStates]
             /\ \A j \in Clients : /\ client'[j].login = client[j].login
                                   /\ client'[j].conn = "open" <=> client[j].conn = "open"
  BY <1>1
<1>2. CASE Tick
  <2> DEFINE after(k) ==
        [client[k] EXCEPT
            !.idle = IF client[k].conn = "open" THEN Sooner(client[k].idle, Limit + 1)
                     ELSE client[k].idle,
            !.waited = IF client[k].conn = "open" /\ client[k].inbox # None
                       THEN Sooner(client[k].waited, 2) ELSE client[k].waited]
  <2>1. ASSUME NEW k \in Clients
        PROVE  after(k) \in ClientStates /\ after(k).login = client[k].login
               /\ after(k).conn = client[k].conn
    <3>1. client[k] \in ClientStates
      OBVIOUS
    <3>2. Sooner(client[k].idle, Limit + 1) \in 0 .. Limit + 1
      BY <3>1, ClientsAssumption DEF Sooner, ClientStates
    <3>3. Sooner(client[k].waited, 2) \in 0 .. 2
      BY <3>1 DEF Sooner, ClientStates
    <3> QED BY Zenon, <3>1, <3>2, <3>3 DEF ClientStates
  <2>2. client' = [k \in Clients |-> after(k)] /\ loop' = [loop EXCEPT !.passed = FALSE]
        /\ UNCHANGED <<list, ups>>
    BY Zenon, <1>2 DEF Tick
  <2> HIDE DEF after
  <2> QED BY Zenon, <2>1, <2>2 DEF LoopStates
<1>3. CASE DriverDrops
  BY <1>3 DEF DriverDrops
<1>4. ASSUME NEW k \in Clients, ClientDials(k) PROVE /\ client' \in [Clients -> ClientStates]
             /\ \A j \in Clients : /\ client'[j].login = client[j].login
                                   /\ client'[j].conn = "open" <=> client[j].conn = "open"
  <2> DEFINE c == [client[k] EXCEPT !.conn = "backlog"]
  <2>1. c \in ClientStates /\ c.login = client[k].login /\ c.conn = "backlog"
    <3>1. client[k] \in ClientStates /\ None \in Commands \cup {None}
      BY <1>0
    <3> QED BY Zenon, <3>1, ChangedClient
  <2>2. client' = [client EXCEPT ![k] = c] /\ client[k].conn = "none"
    BY <1>4 DEF ClientDials
  <2> HIDE DEF c
  <2> QED BY <2>1, <2>2, <1>1
<1>5. ASSUME NEW k \in Clients, ClientSends(k) PROVE /\ client' \in [Clients -> ClientStates]
             /\ \A j \in Clients : /\ client'[j].login = client[j].login
                                   /\ client'[j].conn = "open" <=> client[j].conn = "open"
  <2>0. PICK cmd \in Commands : client' = [client EXCEPT ![k].inbox = cmd]
    BY Zenon, <1>5 DEF ClientSends
  <2> DEFINE c == [client[k] EXCEPT !.inbox = cmd]
  <2>1. c \in ClientStates /\ c.login = client[k].login /\ c.conn = client[k].conn
    <3>1. client[k] \in ClientStates /\ None \in Commands \cup {None}
      BY <1>0
    <3> QED BY <3>1, ChangedClient
  <2>2. client' = [client EXCEPT ![k] = c]
    BY <2>0
  <2> HIDE DEF c
  <2> QED BY <2>1, <2>2, <1>1
<1>6. ASSUME NEW k \in Clients, ClientHangsUp(k) PROVE /\ client' \in [Clients -> ClientStates]
             /\ \A j \in Clients : /\ client'[j].login = client[j].login
                                   /\ client'[j].conn = "open" <=> client[j].conn = "open"
  <2> DEFINE c == [client[k] EXCEPT !.fin = TRUE]
  <2>1. c \in ClientStates /\ c.login = client[k].login /\ c.conn = client[k].conn
    <3>1. client[k] \in ClientStates /\ None \in Commands \cup {None}
      BY <1>0
    <3> QED BY Zenon, <3>1, ChangedClient
  <2>2. client' = [client EXCEPT ![k] = c]
    BY <1>6 DEF ClientHangsUp
  <2> HIDE DEF c
  <2> QED BY <2>1, <2>2, <1>1
<1>7. ASSUME NEW k \in Clients, ClientDials(k) \/ ClientSends(k) \/ ClientHangsUp(k)
      PROVE  UNCHANGED <<list, ups, loop>>
  BY <1>7 DEF ClientDials, ClientSends, ClientHangsUp
<1> QED BY <1>2, <1>3, <1>4, <1>5, <1>6, <1>7 DEF OthersStep, DriverDrops

LEMMA PassEndsKeeps ==
    ASSUME SessionInv, PassEnds
    PROVE  SessionInv'
<1>0. TypeOK /\ ListInv /\ ListSound /\ LoginInv
  BY DEF SessionInv, ListInv
<1>1. /\ loop' = [loop EXCEPT !.pc = "scan", !.fds = <<>>, !.passed = TRUE]
      /\ UNCHANGED <<client, list, ups>> /\ loop.ready = {}
  BY DEF PassEnds
<1>2. loop' \in LoopStates /\ loop'.pc = "scan" /\ loop'.ready = {} /\ loop'.fds = <<>>
  <2>1. << >> \in Seq(Sockets)
    OBVIOUS
  <2> QED BY Zenon, <1>0, <1>1, <2>1 DEF TypeOK, LoopStates
<1>3. TypeOK'
  BY <1>0, <1>1, <1>2, ClientsAssumption DEF TypeOK
<1>4. Open' = Open
  BY <1>1 DEF Open
<1>5. ListInv' /\ LoginInv'
  BY <1>0, <1>1, <1>2, <1>4, LoginsKept DEF ListInv, ListSound, Injective, Members
<1> QED BY <1>3, <1>5 DEF SessionInv

Commands5(k) ==
    \/ HandlesQuery(k) \/ HandlesGarbled(k) \/ HandlesAuth(k)
    \/ HandlesLogin(k) \/ HandlesLogout(k)

LEMMA SessionStep == SessionInv /\ [Next]_vars => SessionInv'
<1> SUFFICES ASSUME SessionInv, [Next]_vars PROVE SessionInv'
  OBVIOUS
<1>1. CASE UNCHANGED vars
  <2>1. Open' = Open
    BY <1>1 DEF vars, Open
  <2> QED BY <1>1, <2>1 DEF vars, SessionInv, TypeOK, ListInv, ListSound, Injective, Members,
                        LoginInv, LoginsCounted
<1>2. CASE Next
  <2>1. CASE Scan BY Zenon, <2>1, ScanKeeps
  <2>2. CASE Poll BY <2>2, PollKeeps
  <2>3. CASE Accepts BY <2>3, AcceptsKeep
  <2>4. CASE PassEnds BY <2>4, PassEndsKeeps
  <2>5. CASE OthersStep BY <2>5, OthersKeep
  <2>6. ASSUME NEW k \in Clients, Sheds(k) PROVE SessionInv' BY <2>6, ShedsKeep
  <2>7. ASSUME NEW k \in Clients, ReadsEnd(k) PROVE SessionInv' BY <2>7, ReadsEndKeeps
  <2>8. ASSUME NEW k \in Clients, Commands5(k) PROVE SessionInv'
    <3>0. TypeOK /\ ListInv /\ LoginInv
      BY DEF SessionInv
    <3>1. /\ HandledStep(k) /\ LoginInv'
          /\ ups' \in [driver : {"down", "new", "up"}, numlogins : Int]
      BY <3>0, <2>8, CommandsKeep DEF Commands5
    <3>2. \A j \in Clients : client'[j].conn = "open" <=> client[j].conn = "open"
      BY <3>1 DEF HandledStep
    <3>3. ListInv' /\ loop' \in LoopStates /\ Len(loop'.fds) <= MaxConn
      BY <3>0, <3>1, <3>2, ServedKept DEF HandledStep
    <3>4. TypeOK'
      BY <3>0, <3>1, <3>3 DEF TypeOK, HandledStep
    <3> QED BY <3>1, <3>3, <3>4 DEF SessionInv
  <2> QED BY <1>2, <2>1, <2>2, <2>3, <2>4, <2>5, <2>6, <2>7, <2>8
             DEF Next, Upsd, OthersStep, Commands5
<1> QED BY <1>1, <1>2

-----------------------------------------------------------------------------
(* What a step must do for WaitInv: nobody's wait grows but by a tick.       *)
Waits(k) ==
    /\ client[k].conn = "open" /\ client[k].inbox # None /\ client[k].waited = 1
    /\ ~loop.passed
    /\ loop.pc = "poll" => k \in Members(loop.fds)
    /\ loop.pc = "serve" => k \in loop.ready

LEMMA WaitStep ==
    SessionInv /\ WaitInv /\ Cardinality(Clients) < MaxConn /\ [Next]_vars => WaitInv'
<1> SUFFICES ASSUME SessionInv, WaitInv, Cardinality(Clients) < MaxConn, [Next]_vars,
                    NEW k \in Clients, client'[k].waited >= 1
             PROVE  Waits(k)'
  BY DEF WaitInv, Waits
<1>0. TypeOK /\ ListInv /\ ListSound /\ client[k] \in ClientStates
  BY DEF SessionInv, ListInv, TypeOK
<1>w. client[k].waited >= 1 => Waits(k)
  BY DEF WaitInv, Waits
<1>f. Fresh.waited = 0
  BY DEF Fresh
<1>1. CASE UNCHANGED vars
  BY <1>1, <1>w DEF vars, Waits, Members
<1>2. CASE Scan
  <2>1. Len(list) < MaxConn
    <3>1. IsFiniteSet(Clients) /\ Open \in SUBSET Clients
      BY ClientsAssumption DEF Open
    <3>2. Cardinality(Open) <= Cardinality(Clients) /\ Cardinality(Open) \in Nat
          /\ Cardinality(Clients) \in Nat
      BY <3>1, FS_Subset, FS_CardinalityType
    <3> QED BY <1>0, <3>2, ClientsAssumption DEF ListSound
  <2>2. /\ loop'.pc = "poll" /\ loop'.passed = loop.passed /\ UNCHANGED client
        /\ Open \subseteq Members(loop'.fds)
    BY <1>2, <2>1, ScanKeeps
  <2>3. Waits(k) /\ k \in Open
    BY <1>w, <2>2 DEF Waits, Open
  <2> QED BY <2>2, <2>3 DEF Waits, Members
<1>3. CASE Poll
  <2>1. /\ loop'.pc = "serve" /\ loop'.passed = loop.passed /\ UNCHANGED client
        /\ loop'.ready = {s \in Members(loop.fds) : Readable(s)}
    BY <1>3, PollKeeps
  <2>2. Waits(k) /\ k \in Members(loop.fds) /\ Readable(k)
    BY <1>3, <1>w, <2>1 DEF Waits, Poll, Readable
  <2> QED BY <2>1, <2>2 DEF Waits
<1>4. CASE Accepts
  <2>1. PICK j \in Clients : /\ client[j].conn = "backlog"
                             /\ client' = [client EXCEPT ![j].conn = "open"]
    BY Zenon, <1>4 DEF Accepts
  <2>2. loop.pc = "serve" /\ loop' = [loop EXCEPT !.ready = loop.ready \ {"server"}]
    BY <1>4 DEF Accepts, Serving, Served
  <2>3. client'[k].waited = client[k].waited /\ client'[k].inbox = client[k].inbox
        /\ (client[k].conn = "open" => client'[k].conn = "open")
    BY <1>0, <2>1 DEF TypeOK, ClientStates
  <2>4. /\ loop'.pc = "serve" /\ loop'.passed = loop.passed
        /\ loop'.ready = loop.ready \ {"server"}
    BY <1>0, <2>2 DEF TypeOK, LoopStates
  <2>5. Waits(k) /\ k # "server"
    BY <1>w, <2>3, ClientsAssumption
  <2> QED BY <2>2, <2>3, <2>4, <2>5 DEF Waits
<1>5. CASE PassEnds
  BY <1>5, <1>w DEF PassEnds, Waits
<1>6. ASSUME NEW j \in Clients, Sheds(j) PROVE Waits(k)'
  <2>1. client' = [client EXCEPT ![j] = Fresh] /\ UNCHANGED loop
    BY <1>6 DEF Sheds, Disconnects
  <2>2. client'[k] = client[k]
    BY <1>0, <1>f, <2>1 DEF TypeOK
  <2> QED BY <1>w, <2>1, <2>2 DEF Waits, Members
<1>7. ASSUME NEW j \in Clients, ReadsEnd(j) PROVE Waits(k)'
  <2>1. /\ client' = [client EXCEPT ![j] = Fresh] /\ loop.pc = "serve"
        /\ loop' = [loop EXCEPT !.ready = loop.ready \ {j}]
    BY <1>7 DEF ReadsEnd, Disconnects, Serving, Served
  <2>2. client'[k] = client[k] /\ k # j
    BY <1>0, <1>f, <2>1 DEF TypeOK
  <2>3. loop'.pc = "serve" /\ loop'.passed = loop.passed /\ loop'.ready = loop.ready \ {j}
    BY <1>0, <2>1 DEF TypeOK, LoopStates
  <2> QED BY <1>w, <2>1, <2>2, <2>3 DEF Waits
<1>8. ASSUME NEW j \in Clients, Commands5(j) PROVE Waits(k)'
  <2>1. HandledStep(j)
    BY <1>0, <1>8, CommandsKeep DEF Commands5, SessionInv
  <2>2. k # j /\ client'[k] = client[k]
    BY <2>1 DEF HandledStep
  <2>3. loop.pc = "serve" /\ loop' = [loop EXCEPT !.ready = loop.ready \ {j}]
    BY <2>1 DEF HandledStep, Serving, Served
  <2>4. loop'.pc = "serve" /\ loop'.passed = loop.passed /\ loop'.ready = loop.ready \ {j}
    BY <1>0, <2>3 DEF TypeOK, LoopStates
  <2> QED BY <1>w, <2>2, <2>3, <2>4 DEF Waits
<1>9. CASE Tick
  <2>1. /\ loop.pc = "scan" /\ loop.passed /\ loop' = [loop EXCEPT !.passed = FALSE]
        /\ client'[k] = [client[k] EXCEPT
             !.idle = IF client[k].conn = "open" THEN Sooner(client[k].idle, Limit + 1)
                      ELSE client[k].idle,
             !.waited = IF client[k].conn = "open" /\ client[k].inbox # None
                        THEN Sooner(client[k].waited, 2) ELSE client[k].waited]
    BY Zenon, <1>9 DEF Tick
  <2>2. client[k].waited = 0
    BY <1>0, <1>w, <2>1 DEF Waits, ClientStates
  <2>3. /\ client'[k].conn = client[k].conn /\ client'[k].inbox = client[k].inbox
        /\ client'[k].waited = IF client[k].conn = "open" /\ client[k].inbox # None THEN 1 ELSE 0
    BY <1>0, <2>1, <2>2 DEF ClientStates, Sooner
  <2>4. loop'.pc = "scan" /\ ~loop'.passed
    BY <1>0, <2>1 DEF TypeOK, LoopStates
  <2> QED BY <2>3, <2>4 DEF Waits
<1>10. CASE DriverDrops
  BY <1>10, <1>w DEF DriverDrops, Waits, Members
<1>11. ASSUME NEW j \in Clients, ClientDials(j) \/ ClientSends(j) \/ ClientHangsUp(j)
       PROVE  Waits(k)'
  <2>1. UNCHANGED loop /\ client'[k].waited = client[k].waited
    BY <1>0, <1>11 DEF ClientDials, ClientSends, ClientHangsUp, TypeOK, ClientStates
  <2>2. Waits(k)
    BY <1>w, <2>1
  <2>3. client'[k].conn = client[k].conn /\ client'[k].inbox = client[k].inbox
    <3>1. CASE ClientDials(j)
      BY <3>1, <1>0, <2>2 DEF ClientDials, TypeOK, ClientStates, Waits
    <3>2. CASE ClientSends(j)
      BY <3>2, <1>0, <2>2 DEF ClientSends, TypeOK, ClientStates, Waits
    <3>3. CASE ClientHangsUp(j)
      BY <3>3, <1>0, <2>2 DEF ClientHangsUp, TypeOK, ClientStates, Waits
    <3> QED BY <1>11, <3>1, <3>2, <3>3
  <2> QED BY <2>1, <2>2, <2>3 DEF Waits, Members
<1> QED BY Zenon, <1>1, <1>2, <1>3, <1>4, <1>5, <1>6, <1>7, <1>8, <1>9, <1>10, <1>11
        DEF Next, Upsd, Commands5

(* client_connect and client_disconnect keep firstclient's list to the open  *)
(* connections, each once, and mainloop accepts no more than MAXCONN: with   *)
(* any number of clients that come, go, fall silent and fail to be answered. *)
THEOREM ListIsSound == Spec => []ListSound
<1>1. SessionInv => ListSound
  BY DEF SessionInv, ListInv
<1> QED BY <1>1, SessionInitially, SessionStep, PTL DEF Spec

(* numlogins is the number of clients that hold a login, however they leave; *)
(* and when MAXCONN leaves a slot for every client and the driver, mainloop  *)
(* reads a command before the second tick after it came.                     *)
THEOREM SessionsAreSafe == Cardinality(Clients) < MaxConn => (Spec => []SessionsSafe)
<1> SUFFICES ASSUME Cardinality(Clients) < MaxConn PROVE Spec => []SessionsSafe
  OBVIOUS
<1>1. SessionInv /\ WaitInv => SessionsSafe
  <2> SUFFICES ASSUME SessionInv, WaitInv PROVE AcceptedIsServed
    BY DEF SessionsSafe, SessionInv, LoginInv
  <2> SUFFICES ASSUME NEW k \in Clients PROVE client[k].waited <= 1
    BY DEF AcceptedIsServed, Open
  <2>1. client[k].waited \in 0 .. 2
    BY DEF SessionInv, TypeOK, ClientStates
  <2> QED BY <2>1 DEF WaitInv
<1>2. SessionInv /\ WaitInv /\ [Next]_vars => SessionInv' /\ WaitInv'
  BY SessionStep, WaitStep
<1> QED BY <1>1, <1>2, SessionInitially, PTL DEF Spec
=============================================================================
