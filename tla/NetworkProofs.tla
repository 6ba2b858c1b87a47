----------------------------- MODULE NetworkProofs ----------------------------
(***************************************************************************)
(* The services on the network, in this order: the DNS server of the       *)
(* portal (DnsServer), the start of the HTTPS server and its identity      *)
(* (HttpsStart) and the network settings (WifiProvision) - for any number  *)
(* of starts, networks and retries.  Each part has its inductive           *)
(* invariant, a lemma for each action, and the theorems.                   *)
(***************************************************************************)
EXTENDS DnsServer, HttpsStart, WifiProvision, TLAPS

-----------------------------------------------------------------------------
(* The DNS server of the captive portal *)

(* The handle's task field is set exactly as long as its worker has not    *)
(* passed the critical section at "finished".                              *)
AtWork == {"open", "loop", "closed"}

(* The portal holds one handle or none, and a stop works on one handle.    *)
OneOwner ==
    /\ \A g, h \in Handles : g \in portal /\ h \in portal => g = h
    /\ dnsStop.pc = "idle" <=> dnsStop.on = {}
    /\ \A g, h \in Handles : g \in dnsStop.on /\ h \in dnsStop.on => g = h

(* HandleFreedOnce is not inductive: it does not say who is to free.  The  *)
(* duty moves with the handle, from the portal to the stop, and from there *)
(* to the worker when the stop gives up while the task field is still set. *)
Duty(h) ==
    /\ dns[h].state = "unborn" <=> dns[h].worker = "none"
    /\ dns[h].state = "unborn" =>
         ~dns[h].running /\ ~dns[h].deferred /\ dns[h].freed = 0
    /\ dns[h].task <=> dns[h].worker \in AtWork
    /\ dns[h].given => dns[h].worker \in {"leaving", "cleanup", "gone"}
    /\ dns[h].running <=> h \in portal
    /\ h \in portal => h \notin dnsStop.on /\ ~dns[h].deferred /\ dns[h].freed = 0
    /\ h \in dnsStop.on =>
         /\ dns[h].state = "started" /\ ~dns[h].deferred /\ dns[h].freed = 0
         /\ dnsStop.pc = "free" => dns[h].worker \in {"leaving", "gone"}
    /\ dns[h].worker = "cleanup" => dns[h].deferred
    /\ dns[h].deferred =>
         /\ dns[h].worker \in AtWork \cup {"cleanup", "gone"}
         /\ dns[h].freed = IF dns[h].worker = "gone" THEN 1 ELSE 0
    /\ dns[h].state = "started" /\ ~dns[h].deferred /\ h \notin portal \cup dnsStop.on =>
         dns[h].freed = 1 /\ dns[h].worker \in {"leaving", "gone"}

DnsInv == DnsTypeOK /\ OneOwner /\ \A h \in Handles : Duty(h)

(* dns_server_start has not been called yet: nobody owes anything.         *)
LEMMA DnsInitially == DnsInit => DnsInv
<1> SUFFICES ASSUME DnsInit PROVE DnsInv
  OBVIOUS
<1> USE DEF DnsInit, Unborn, NoStop
<1>1. DnsTypeOK
  BY DEF DnsTypeOK, Fields
<1>2. OneOwner
  BY DEF OneOwner
<1>3. ASSUME NEW h \in Handles PROVE Duty(h)
  BY DEF Duty, AtWork
<1> QED BY <1>1, <1>2, <1>3 DEF DnsInv

(* Every step keeps the types.  No handle is freed a third time because     *)
(* none is freed while it has been freed before.                            *)
LEMMA DnsTypeStep == DnsInv /\ [DnsNext]_dnsVars => DnsTypeOK'
<1> SUFFICES ASSUME DnsInv, [DnsNext]_dnsVars PROVE DnsTypeOK'
  OBVIOUS
<1>1. CASE UNCHANGED dnsVars
  BY <1>1 DEF dnsVars, DnsInv, DnsTypeOK
<1>2. CASE DnsNext
  <2> PICK h \in Handles : DnsStart(h) \/ StopBegins(h) \/ DnsWorker(h) \/ DnsStopper(h)
    BY <1>2 DEF DnsNext
  <2>0. DnsTypeOK /\ Duty(h)
    BY DEF DnsInv
  <2>t. dns[h] \in Fields
    BY <2>0 DEF DnsTypeOK
  <2>f. dns[h].worker = "cleanup" \/ h \in dnsStop.on => dns[h].freed = 0
    BY <2>0 DEF Duty
  <2> USE <2>0 DEF DnsTypeOK
  <2>1. CASE DnsStart(h)
    <3>1. dns'[h] \in Fields BY <2>1 DEF DnsStart, Fields, Born
    <3> QED BY <2>1, <3>1 DEF DnsStart
  <2>2. CASE StopBegins(h)
    <3>1. dns'[h] \in Fields BY <2>2, ZenonT(30) DEF StopBegins, Fields
    <3> QED BY <2>2, <3>1 DEF StopBegins
  <2>3. CASE WorkerOpens(h)
    <3>1. dns'[h] \in Fields BY <2>3 DEF WorkerOpens, Fields
    <3> QED BY <2>3, <3>1 DEF WorkerOpens
  <2>4. CASE WorkerStops(h)
    <3>1. dns'[h] \in Fields BY <2>4 DEF WorkerStops, Fields
    <3> QED BY <2>4, <3>1 DEF WorkerStops
  <2>5. CASE WorkerFinishes(h)
    <3>0. dns'[h] = [dns[h] EXCEPT !.worker = IF dns[h].deferred THEN "cleanup" ELSE "leaving",
                                   !.task = FALSE, !.given = TRUE]
      BY <2>5 DEF WorkerFinishes
    <3>1. dns'[h] \in Fields BY Zenon, <2>t, <3>0 DEF Fields
    <3> QED BY <2>5, <3>1 DEF WorkerFinishes
  <2>6. CASE WorkerLeaves(h)
    <3>0. dns'[h] = [[dns[h] EXCEPT !.worker = "gone"]
                       EXCEPT !.freed = IF dns[h].worker = "cleanup" THEN dns[h].freed + 1
                                        ELSE dns[h].freed]
      BY <2>6 DEF WorkerLeaves
    <3>1. (IF dns[h].worker = "cleanup" THEN dns[h].freed + 1 ELSE dns[h].freed) \in 0 .. 2
      BY <2>t, <2>f DEF Fields
    <3>2. dns'[h] \in Fields BY Zenon, <2>t, <3>0, <3>1 DEF Fields
    <3> QED BY <2>6, <3>2 DEF WorkerLeaves
  <2>7. CASE StopTakes(h)
    <3>1. dns'[h] \in Fields BY <2>7, ZenonT(30) DEF StopTakes, Fields
    <3> QED BY <2>7, <3>1 DEF StopTakes
  <2>8. CASE StopTimesOut(h) BY <2>8 DEF StopTimesOut
  <2>9. CASE StopDecides(h)
    <3>0. dns'[h] = dns[h] \/ dns'[h] = [dns[h] EXCEPT !.deferred = TRUE]
      BY Zenon, <2>9 DEF StopDecides
    <3>1. dns'[h] \in Fields BY Zenon, <2>t, <3>0 DEF Fields
    <3> QED BY <2>9, <3>1 DEF StopDecides, NoStop
  <2>10. CASE StopFrees(h)
    <3>1. dns'[h] \in Fields BY <2>10, <2>f DEF StopFrees, Fields
    <3> QED BY <2>10, <3>1 DEF StopFrees, NoStop
  <2> QED BY <2>1, <2>2, <2>3, <2>4, <2>5, <2>6, <2>7, <2>8, <2>9, <2>10
          DEF DnsWorker, DnsStopper
<1> QED BY <1>1, <1>2

(* Every step of the starter, of a stop and of any worker moves the duty   *)
(* to free along with the handle.                                          *)
LEMMA DnsStep == DnsInv /\ [DnsNext]_dnsVars => DnsInv'
<1> SUFFICES ASSUME DnsInv, [DnsNext]_dnsVars PROVE DnsInv'
  OBVIOUS
<1>0. DnsTypeOK'
  BY DnsTypeStep
<1>1. CASE UNCHANGED dnsVars
  BY <1>1 DEF dnsVars, DnsInv, DnsTypeOK, OneOwner, Duty
<1>2. CASE DnsNext
  <2> PICK h \in Handles : DnsStart(h) \/ StopBegins(h) \/ DnsWorker(h) \/ DnsStopper(h)
    BY <1>2 DEF DnsNext
  <2> USE DEF AtWork
  <2>0. DnsTypeOK /\ OneOwner /\ Duty(h)
    BY DEF DnsInv
  <2>1. CASE DnsStart(h)
    <3> USE <2>1 DEF DnsStart, Born
    <3>1. OneOwner' BY <2>0 DEF OneOwner, DnsTypeOK
    <3>2. Duty(h)' BY <2>0 DEF OneOwner, Duty, DnsTypeOK, Fields
    <3>3. ASSUME NEW g \in Handles, g # h PROVE Duty(g)'
      <4>1. Duty(g) BY DEF DnsInv
      <4> QED BY <2>0, <3>3, <4>1 DEF OneOwner, Duty, DnsTypeOK, Fields
    <3> QED BY <1>0, <3>1, <3>2, <3>3 DEF DnsInv
  <2>2. CASE StopBegins(h)
    <3> USE <2>2 DEF StopBegins
    <3>1. OneOwner' BY <2>0 DEF OneOwner, DnsTypeOK
    <3>2. Duty(h)' BY <2>0 DEF OneOwner, Duty, DnsTypeOK, Fields
    <3>3. ASSUME NEW g \in Handles, g # h PROVE Duty(g)'
      <4>1. Duty(g) BY DEF DnsInv
      <4> QED BY <2>0, <3>3, <4>1 DEF OneOwner, Duty, DnsTypeOK, Fields
    <3> QED BY <1>0, <3>1, <3>2, <3>3 DEF DnsInv
  <2>3. CASE WorkerOpens(h)
    <3> USE <2>3 DEF WorkerOpens
    <3>1. OneOwner' BY <2>0 DEF OneOwner, DnsTypeOK
    <3>2. Duty(h)' BY <2>0 DEF OneOwner, Duty, DnsTypeOK, Fields
    <3>3. ASSUME NEW g \in Handles, g # h PROVE Duty(g)'
      <4>1. Duty(g) BY DEF DnsInv
      <4> QED BY <2>0, <3>3, <4>1 DEF OneOwner, Duty, DnsTypeOK, Fields
    <3> QED BY <1>0, <3>1, <3>2, <3>3 DEF DnsInv
  <2>4. CASE WorkerStops(h)
    <3> USE <2>4 DEF WorkerStops
    <3>1. OneOwner' BY <2>0 DEF OneOwner, DnsTypeOK
    <3>2. Duty(h)' BY <2>0 DEF OneOwner, Duty, DnsTypeOK, Fields
    <3>3. ASSUME NEW g \in Handles, g # h PROVE Duty(g)'
      <4>1. Duty(g) BY DEF DnsInv
      <4> QED BY <2>0, <3>3, <4>1 DEF OneOwner, Duty, DnsTypeOK, Fields
    <3> QED BY <1>0, <3>1, <3>2, <3>3 DEF DnsInv
  <2>5. CASE WorkerFinishes(h)
    <3> USE <2>5 DEF WorkerFinishes
    <3>1. OneOwner' BY <2>0 DEF OneOwner, DnsTypeOK
    <3>2. Duty(h)' BY <2>0 DEF OneOwner, Duty, DnsTypeOK, Fields
    <3>3. ASSUME NEW g \in Handles, g # h PROVE Duty(g)'
      <4>1. Duty(g) BY DEF DnsInv
      <4> QED BY <2>0, <3>3, <4>1 DEF OneOwner, Duty, DnsTypeOK, Fields
    <3> QED BY <1>0, <3>1, <3>2, <3>3 DEF DnsInv
  <2>6. CASE WorkerLeaves(h)
    <3> USE <2>6 DEF WorkerLeaves
    <3>1. OneOwner' BY <2>0 DEF OneOwner, DnsTypeOK
    <3>2. Duty(h)' BY <2>0 DEF OneOwner, Duty, DnsTypeOK, Fields
    <3>3. ASSUME NEW g \in Handles, g # h PROVE Duty(g)'
      <4>1. Duty(g) BY DEF DnsInv
      <4> QED BY <2>0, <3>3, <4>1 DEF OneOwner, Duty, DnsTypeOK, Fields
    <3> QED BY <1>0, <3>1, <3>2, <3>3 DEF DnsInv
  <2>7. CASE StopTakes(h)
    <3> USE <2>7 DEF StopTakes
    <3>1. OneOwner' BY <2>0 DEF OneOwner, DnsTypeOK
    <3>2. Duty(h)' BY <2>0 DEF OneOwner, Duty, DnsTypeOK, Fields
    <3>3. ASSUME NEW g \in Handles, g # h PROVE Duty(g)'
      <4>1. Duty(g) BY DEF DnsInv
      <4> QED BY <2>0, <3>3, <4>1 DEF OneOwner, Duty, DnsTypeOK, Fields
    <3> QED BY <1>0, <3>1, <3>2, <3>3 DEF DnsInv
  <2>8. CASE StopTimesOut(h)
    <3> USE <2>8 DEF StopTimesOut
    <3>1. OneOwner' BY <2>0 DEF OneOwner, DnsTypeOK
    <3>2. Duty(h)' BY <2>0 DEF OneOwner, Duty, DnsTypeOK, Fields
    <3>3. ASSUME NEW g \in Handles, g # h PROVE Duty(g)'
      <4>1. Duty(g) BY DEF DnsInv
      <4> QED BY <2>0, <3>3, <4>1 DEF OneOwner, Duty, DnsTypeOK, Fields
    <3> QED BY <1>0, <3>1, <3>2, <3>3 DEF DnsInv
  <2>9. CASE StopDecides(h)
    <3> USE <2>9 DEF StopDecides, NoStop
    <3>1. OneOwner' BY <2>0 DEF OneOwner, DnsTypeOK
    <3>2. Duty(h)'
      <4>1. CASE dns[h].task BY <2>0, <4>1 DEF OneOwner, Duty, DnsTypeOK, Fields
      <4>2. CASE ~dns[h].task BY <2>0, <4>2 DEF OneOwner, Duty, DnsTypeOK, Fields
      <4> QED BY <4>1, <4>2
    <3>3. ASSUME NEW g \in Handles, g # h PROVE Duty(g)'
      <4>1. Duty(g) BY DEF DnsInv
      <4> QED BY <2>0, <3>3, <4>1 DEF OneOwner, Duty, DnsTypeOK, Fields
    <3> QED BY <1>0, <3>1, <3>2, <3>3 DEF DnsInv
  <2>10. CASE StopFrees(h)
    <3> USE <2>10 DEF StopFrees, NoStop
    <3>1. OneOwner' BY <2>0 DEF OneOwner, DnsTypeOK
    <3>2. Duty(h)' BY <2>0 DEF OneOwner, Duty, DnsTypeOK, Fields
    <3>3. ASSUME NEW g \in Handles, g # h PROVE Duty(g)'
      <4>1. Duty(g) BY DEF DnsInv
      <4> QED BY <2>0, <3>3, <4>1 DEF OneOwner, Duty, DnsTypeOK, Fields
    <3> QED BY <1>0, <3>1, <3>2, <3>3 DEF DnsInv
  <2> QED BY <2>1, <2>2, <2>3, <2>4, <2>5, <2>6, <2>7, <2>8, <2>9, <2>10
          DEF DnsWorker, DnsStopper
<1> QED BY <1>1, <1>2

(* dns_server_stop and dns_server_task agree on who frees the handle:       *)
(* whatever the timeout races with, it is freed at most once and never      *)
(* under a worker that still reads it.                                      *)
THEOREM DnsIsSafe == DnsSpec => []DnsSafe
<1>1. DnsInv => DnsSafe
  BY DEF DnsInv, DnsTypeOK, Fields, Duty, AtWork, DnsSafe, HandleFreedOnce
<1> QED BY <1>1, DnsInitially, DnsStep, PTL DEF DnsSpec

(* Nothing is leaked: once the worker of a stopped handle is gone and no    *)
(* dns_server_stop is under way, the handle has been freed.                 *)
NothingLeaked ==
    \A h \in Handles :
       dns[h].worker = "gone" /\ ~dns[h].running /\ h \notin dnsStop.on => dns[h].freed = 1

(* The duty to free is never dropped, not even when the timeout of          *)
(* dns_server_stop and the end of dns_server_task meet.                     *)
THEOREM NoHandleLeaks == DnsSpec => []NothingLeaked
<1>1. DnsInv => NothingLeaked
  BY DEF DnsInv, DnsTypeOK, Fields, Duty, NothingLeaked
<1> QED BY <1>1, DnsInitially, DnsStep, PTL DEF DnsSpec

-----------------------------------------------------------------------------
(* The start of the HTTPS management server *)

(* At most one task runs, and management_start_scheduled says whether one  *)
(* does: this is what serialises management_server_start.                  *)
OneStarter ==
    /\ \A s, t \in StartTasks : starter[s].pc # "none" /\ starter[t].pc # "none" => s = t
    /\ \A t \in StartTasks : starter[t].pc # "none" => scheduled

(* A task that has begun to load or make a pair found no server running.   *)
(* It replaces a stored key only if that could not be read.                *)
StarterInv(t) ==
    /\ starter[t].pc \in {"cert", "key", "commit", "serve"} => ~https
    /\ starter[t].pc \in {"cert", "key", "commit"} => starter[t].pair # 0
    /\ starter[t].pc \in {"cert", "key"} => certNvs.key = 0 \/ certHist.misread
    /\ starter[t].pc = "key" => certNvs.cert = starter[t].pair
    /\ starter[t].pc = "commit" => certNvs.cert = starter[t].pair /\ certNvs.key = starter[t].pair
    /\ starter[t].pc = "serve" =>
         /\ material.cert # 0
         /\ material.cert = material.key \/ (certHist.torn /\ certHist.misread)

(* A stored certificate fits the stored key, unless their replacement has  *)
(* stopped half way, or is half way.                                       *)
StoredPairFits ==
    /\ certNvs.key # 0 => certNvs.cert # 0
    /\ \/ certNvs.key = 0 \/ certNvs.cert = certNvs.key
       \/ certHist.misread /\ (certHist.torn \/ \E t \in StartTasks : starter[t].pc = "key")

(* The settings a save is bringing into use are the ones it has stored.    *)
DeviceInv == device.pc # "idle" => device.new = device.nvs

HttpsInv ==
    /\ HttpsTypeOK /\ OneStarter /\ StoredPairFits /\ ServedPairFits
    /\ \A t \in StartTasks : StarterInv(t)
    /\ DeviceInUseIsStored /\ DeviceInv

(* What the cert part of the invariant says. *)
PairInv ==
    /\ OneStarter /\ StoredPairFits /\ ServedPairFits
    /\ \A t \in StartTasks : StarterInv(t)

-----------------------------------------------------------------------------
USE HttpsAssumption

(* A device that was never started. *)
LEMMA HttpsInitially == HttpsInit => HttpsInv
<1> SUFFICES ASSUME HttpsInit PROVE HttpsInv
  OBVIOUS
<1> USE DEF HttpsInit, NoMaterial, NoTask
<1>1. 0 \in Pairs
  BY DEF Pairs
<1>2. HttpsTypeOK
  BY Zenon, <1>1 DEF HttpsTypeOK, Materials, Starters, Devices, DeviceSaving
<1>3. OneStarter /\ StoredPairFits /\ ServedPairFits
  BY DEF OneStarter, StoredPairFits, ServedPairFits
<1>4. \A t \in StartTasks : StarterInv(t)
  BY DEF StarterInv
<1>5. DeviceInUseIsStored /\ DeviceInv
  BY DEF DeviceInUseIsStored, DeviceInv
<1> QED BY <1>2, <1>3, <1>4, <1>5 DEF HttpsInv

(* The steps keep the types: pairs are numbered up to the bound.            *)
LEMMA HttpsTypeStep == HttpsTypeOK /\ [HttpsNext]_httpsVars => HttpsTypeOK'
<1> SUFFICES ASSUME HttpsTypeOK, [HttpsNext]_httpsVars PROVE HttpsTypeOK'
  OBVIOUS
<1>z. 0 \in Pairs
  BY DEF Pairs
<1>1. ASSUME NEW t \in StartTasks, GotIpSchedules(t) \/ StarterMoves(t) PROVE HttpsTypeOK'
  <2>0. starter[t] \in Starters /\ starter[t].pair \in Pairs
    BY DEF HttpsTypeOK, Starters
  <2>c. ASSUME NEW pc \in {"begin", "key", "commit", "serve"}, Continues(t, pc)
        PROVE  starter' \in [StartTasks -> Starters]
    BY <2>0, <2>c DEF Continues, HttpsTypeOK, Starters
  <2>e. ASSUME Ends(t) PROVE starter' \in [StartTasks -> Starters]
    <3>1. [pc |-> "end", pair |-> 0] \in Starters
      BY <1>z DEF Starters
    <3> QED BY <2>e, <3>1 DEF Ends, HttpsTypeOK
  <2>1. CASE GotIpSchedules(t) BY <2>1, <2>c DEF GotIpSchedules, HttpsTypeOK
  <2>2. CASE AlreadyServing(t) BY <2>2, <2>e DEF AlreadyServing, HttpsTypeOK
  <2>3. CASE LoadsPair(t) BY <2>3, <2>c DEF LoadsPair, HttpsTypeOK
  <2>4. ASSUME NEW misread \in BOOLEAN, MakesPair(t, misread) PROVE HttpsTypeOK'
    <3>1. certHist.made + 1 \in Pairs
      BY <2>4 DEF MakesPair, HttpsTypeOK, Pairs
    <3>2. certHist' \in [made : Pairs, torn : BOOLEAN, misread : BOOLEAN]
      BY Zenon, <2>4, <3>1 DEF MakesPair, HttpsTypeOK
    <3>3. [pc |-> "cert", pair |-> certHist.made + 1] \in Starters
      BY <3>1 DEF Starters
    <3>4. NoMaterial \in Materials
      BY <1>z DEF NoMaterial, Materials
    <3> QED BY <2>4, <3>2, <3>3, <3>4 DEF MakesPair, HttpsTypeOK
  <2>5. CASE CannotMake(t)
    <3>1. certHist' \in [made : Pairs, torn : BOOLEAN, misread : BOOLEAN]
      BY Zenon, <2>5 DEF CannotMake, HttpsTypeOK
    <3> QED BY <2>5, <2>e, <3>1 DEF CannotMake, HttpsTypeOK
  <2>6. CASE StoresCert(t) BY <2>0, <2>6, <2>c DEF StoresCert, HttpsTypeOK, Materials
  <2>7. CASE StoresKey(t)
    <3>1. certHist' \in [made : Pairs, torn : BOOLEAN, misread : BOOLEAN]
      BY Zenon, <2>7 DEF StoresKey, HttpsTypeOK
    <3> QED BY <2>0, <2>7, <2>c, <3>1 DEF StoresKey, HttpsTypeOK, Materials
  <2>8. CASE CommitsPair(t) BY <2>0, <2>8, <2>c DEF CommitsPair, HttpsTypeOK, Materials
  <2>9. CASE Serves(t) BY <2>9, <2>e DEF Serves, HttpsTypeOK
  <2>10. CASE StarterEnds(t)
    <3>1. NoTask \in Starters BY <1>z DEF NoTask, Starters
    <3> QED BY Zenon, <2>10, <3>1 DEF StarterEnds, HttpsTypeOK
  <2> QED BY Zenon, <1>1, <2>1, <2>2, <2>3, <2>4, <2>5, <2>6, <2>7, <2>8, <2>9, <2>10
             DEF StarterMoves
<1>2. ASSUME NEW s \in DeviceSettings, DeviceSaves(s) PROVE HttpsTypeOK'
  BY Zenon, <1>2 DEF DeviceSaves, HttpsTypeOK, Devices, DeviceSaving
<1>3. CASE DeviceCommits
  BY Zenon, <1>3 DEF DeviceCommits, HttpsTypeOK, Devices, DeviceSaving
<1>4. CASE DeviceTakesEffect
  BY Zenon, <1>4 DEF DeviceTakesEffect, HttpsTypeOK, Devices, DeviceSaving
<1>5. CASE HttpsPowerLoss
  <2>1. NoTask \in Starters /\ NoMaterial \in Materials
    BY <1>z DEF NoTask, NoMaterial, Starters, Materials
  <2>2. device' \in Devices
    BY Zenon, <1>5 DEF HttpsPowerLoss, HttpsTypeOK, Devices, DeviceSaving
  <2>3. certHist' \in [made : Pairs, torn : BOOLEAN, misread : BOOLEAN]
    BY Zenon, <1>5 DEF HttpsPowerLoss, HttpsTypeOK
  <2> QED BY Zenon, <1>5, <2>1, <2>2, <2>3 DEF HttpsPowerLoss, HttpsTypeOK
<1>6. CASE UNCHANGED httpsVars
  BY <1>6 DEF httpsVars, HttpsTypeOK
<1> QED BY <1>1, <1>2, <1>3, <1>4, <1>5, <1>6 DEF HttpsNext

(* The one starter task and power alone move the certificates; every step   *)
(* keeps the pair in NVS and the one in use in order.                       *)
LEMMA PairStep == HttpsTypeOK /\ PairInv /\ [HttpsNext]_httpsVars => PairInv'
<1> SUFFICES ASSUME HttpsTypeOK, PairInv, [HttpsNext]_httpsVars PROVE PairInv'
  OBVIOUS
<1>1. ASSUME NEW t \in StartTasks, GotIpSchedules(t) \/ StarterMoves(t) PROVE PairInv'
  <2>1. ASSUME NEW s \in StartTasks, s # t PROVE starter'[s] = starter[s] /\ starter[s].pc = "none"
    <3>1. starter'[s] = starter[s]
      BY <1>1, <2>1
         DEF GotIpSchedules, StarterMoves, AlreadyServing, LoadsPair, MakesPair, CannotMake,
         StoresCert, StoresKey, CommitsPair, Serves, StarterEnds, Continues, Ends, HttpsTypeOK
    <3>2. starter[t].pc # "none" \/ ~scheduled
      BY <1>1 DEF GotIpSchedules, StarterMoves, AlreadyServing, LoadsPair, MakesPair, CannotMake,
         StoresCert, StoresKey, CommitsPair, Serves, StarterEnds
    <3> QED BY <2>1, <3>1, <3>2 DEF PairInv, OneStarter
  <2>2. ASSUME NEW s \in StartTasks, s # t PROVE StarterInv(s)'
    BY <2>1, <2>2 DEF StarterInv
  <2>3. starter'[t].pc = "none" \/ scheduled'
    <3>1. scheduled' \/ scheduled' = scheduled \/ starter'[t].pc = "none"
      BY <1>1 DEF GotIpSchedules, StarterMoves, AlreadyServing, LoadsPair, MakesPair, CannotMake,
         StoresCert, StoresKey, CommitsPair, Serves, StarterEnds, NoTask, HttpsTypeOK
    <3>2. starter[t].pc # "none" \/ scheduled'
      BY <1>1 DEF GotIpSchedules, StarterMoves, AlreadyServing, LoadsPair, MakesPair, CannotMake,
         StoresCert, StoresKey, CommitsPair, Serves, StarterEnds
    <3> QED BY <3>1, <3>2 DEF PairInv, OneStarter
  <2>4. OneStarter'
    BY <2>1, <2>3 DEF OneStarter
  <2>5. /\ StarterInv(t) /\ StoredPairFits /\ ServedPairFits
        /\ (\E s \in StartTasks : starter[s].pc = "key") <=> starter[t].pc = "key"
    BY <2>1 DEF PairInv
  <2>6. (\E s \in StartTasks : starter'[s].pc = "key") <=> starter'[t].pc = "key"
    BY <2>1
  <2> SUFFICES StarterInv(t)' /\ StoredPairFits' /\ ServedPairFits'
    BY <2>2, <2>4 DEF PairInv
  <2> USE <2>5, <2>6 DEF StarterInv, StoredPairFits, ServedPairFits, HttpsTypeOK, Starters, Materials
  <2>7. CASE GotIpSchedules(t) BY <2>7 DEF GotIpSchedules, Continues
  <2>8. CASE AlreadyServing(t) BY <2>8 DEF AlreadyServing, Ends
  <2>9. CASE LoadsPair(t) BY <2>9 DEF LoadsPair, Continues
  <2>10. ASSUME NEW misread \in BOOLEAN, MakesPair(t, misread)
         PROVE  StarterInv(t)' /\ StoredPairFits' /\ ServedPairFits'
    <3>1. /\ starter'[t].pc = "cert" /\ starter'[t].pair # 0
          /\ certHist'.torn = certHist.torn /\ (certHist'.misread <=> certHist.misread \/ misread)
      BY <2>10 DEF MakesPair, Pairs
    <3> QED BY <2>10, <3>1 DEF MakesPair
  <2>11. CASE CannotMake(t)
    <3>1. certHist'.misread = certHist.misread /\ (certHist'.torn <=> certHist.torn \/ HalfStored(t))
      BY Zenon, <2>11 DEF CannotMake
    <3> QED BY <2>11, <3>1 DEF CannotMake, Ends, HalfStored
  <2>12. CASE StoresCert(t) BY <2>12 DEF StoresCert, Continues
  <2>13. CASE StoresKey(t)
    <3>1. certHist'.misread = certHist.misread
      BY <2>13 DEF StoresKey
    <3> QED BY <2>13, <3>1 DEF StoresKey, Continues
  <2>14. CASE CommitsPair(t) BY <2>14 DEF CommitsPair, Continues
  <2>15. CASE Serves(t) BY <2>15 DEF Serves, Ends
  <2>16. CASE StarterEnds(t) BY <2>16 DEF StarterEnds, NoTask
  <2> QED BY Zenon, <1>1, <2>7, <2>8, <2>9, <2>10, <2>11, <2>12, <2>13, <2>14, <2>15, <2>16
             DEF StarterMoves
<1>2. CASE (\E s \in DeviceSettings : DeviceSaves(s)) \/ DeviceCommits \/ DeviceTakesEffect
           \/ UNCHANGED httpsVars
  <2>1. UNCHANGED <<certNvs, material, https, scheduled, starter, certHist>>
    BY Zenon, <1>2 DEF DeviceSaves, DeviceCommits, DeviceTakesEffect, httpsVars
  <2> QED BY <2>1 DEF PairInv, OneStarter, StarterInv, StoredPairFits, ServedPairFits
<1>3. CASE HttpsPowerLoss
  <2>1. /\ \A t \in StartTasks : starter'[t].pc = "none"
        /\ ~https' /\ UNCHANGED certNvs
    BY <1>3 DEF HttpsPowerLoss, NoTask
  <2>2. /\ certHist'.misread = certHist.misread
        /\ certHist'.torn <=> certHist.torn \/ \E t \in StartTasks : HalfStored(t)
    BY Zenon, <1>3 DEF HttpsPowerLoss, HttpsTypeOK
  <2>3. OneStarter' /\ ServedPairFits' /\ \A t \in StartTasks : StarterInv(t)'
    BY <2>1 DEF OneStarter, ServedPairFits, StarterInv
  <2>4. StoredPairFits'
    BY <2>1, <2>2 DEF PairInv, StoredPairFits, HalfStored
  <2> QED BY <2>3, <2>4 DEF PairInv
<1> QED BY <1>1, <1>2, <1>3 DEF HttpsNext

(* management_device_config_save keeps the settings in use with the stored. *)
LEMMA DeviceStep ==
    HttpsTypeOK /\ DeviceInUseIsStored /\ DeviceInv /\ [HttpsNext]_httpsVars =>
        DeviceInUseIsStored' /\ DeviceInv'
<1> SUFFICES ASSUME HttpsTypeOK, DeviceInUseIsStored, DeviceInv, [HttpsNext]_httpsVars
             PROVE  DeviceInUseIsStored' /\ DeviceInv'
  OBVIOUS
<1> USE DEF HttpsTypeOK, Devices, DeviceSaving, DeviceInUseIsStored, DeviceInv
<1>1. ASSUME NEW t \in StartTasks, GotIpSchedules(t) \/ StarterMoves(t) PROVE UNCHANGED device
  BY <1>1 DEF GotIpSchedules, StarterMoves, AlreadyServing, LoadsPair, MakesPair, CannotMake,
     StoresCert, StoresKey, CommitsPair, Serves, StarterEnds
<1>2. ASSUME NEW s \in DeviceSettings, DeviceSaves(s) PROVE DeviceInUseIsStored' /\ DeviceInv'
  BY <1>2 DEF DeviceSaves
<1>3. CASE DeviceCommits BY Zenon, <1>3 DEF DeviceCommits
<1>4. CASE DeviceTakesEffect BY <1>4 DEF DeviceTakesEffect
<1>5. CASE HttpsPowerLoss BY <1>5 DEF HttpsPowerLoss
<1>6. CASE UNCHANGED httpsVars BY <1>6 DEF httpsVars
<1> QED BY <1>1, <1>2, <1>3, <1>4, <1>5, <1>6 DEF HttpsNext

(* The three together. *)
LEMMA HttpsStep == HttpsInv /\ [HttpsNext]_httpsVars => HttpsInv'
BY HttpsTypeStep, PairStep, DeviceStep DEF HttpsInv, PairInv

(* Whenever power is lost and whatever NVS call fails, the HTTPS server     *)
(* runs with a certificate and a key that fit, except after a replacement   *)
(* of an unreadable pair that was cut off, and the device settings in use   *)
(* are the stored ones (management_certificates_load_or_create,             *)
(* management_device_config_save).                                          *)
THEOREM HttpsIsSafe == HttpsSpec => []HttpsSafe
<1>1. HttpsInv => HttpsSafe
  BY DEF HttpsInv, HttpsSafe
<1> QED BY <1>1, HttpsInitially, HttpsStep, PTL DEF HttpsSpec

(* The material that a running server points to stays (wifi.c schedules one *)
(* task at a time), and so does the stored identity of a device that could  *)
(* read it.                                                                 *)
THEOREM HttpsKeepsIdentity == HttpsSpec => HttpsKept
<1>1. HttpsInv /\ [HttpsNext]_httpsVars => [https /\ https' => material' = material]_httpsVars
  <2> SUFFICES ASSUME HttpsInv, HttpsNext, https, https' PROVE material' = material
    OBVIOUS
  <2>1. ASSUME NEW t \in StartTasks, GotIpSchedules(t) \/ StarterMoves(t) PROVE material' = material
    <3>1. starter[t].pc # "commit"
      BY DEF HttpsInv, StarterInv
    <3> QED BY <2>1, <3>1 DEF GotIpSchedules, StarterMoves, AlreadyServing, LoadsPair, MakesPair,
         CannotMake, StoresCert, StoresKey, CommitsPair, Serves, StarterEnds
  <2> QED BY Zenon, <2>1
             DEF HttpsNext, DeviceSaves, DeviceCommits, DeviceTakesEffect, HttpsPowerLoss
<1>2. HttpsInv /\ [HttpsNext]_httpsVars =>
        [certNvs.cert # 0 /\ certNvs.key # 0 /\ certNvs' # certNvs => certHist.misread]_httpsVars
  <2> SUFFICES ASSUME HttpsInv, HttpsNext, certNvs.key # 0, certNvs' # certNvs PROVE certHist.misread
    OBVIOUS
  <2>1. PICK t \in StartTasks : GotIpSchedules(t) \/ StarterMoves(t)
    BY Zenon DEF HttpsNext, DeviceSaves, DeviceCommits, DeviceTakesEffect, HttpsPowerLoss
  <2>2. starter[t].pc \in {"cert", "key"}
    BY <2>1 DEF GotIpSchedules, StarterMoves, AlreadyServing, LoadsPair, MakesPair,
         CannotMake, StoresCert, StoresKey, CommitsPair, Serves, StarterEnds
  <2> QED BY <2>2 DEF HttpsInv, StarterInv
<1> QED BY <1>1, <1>2, HttpsInitially, HttpsStep, PTL
           DEF HttpsSpec, HttpsKept, MaterialKept, IdentityKept

HIDE HttpsAssumption

-----------------------------------------------------------------------------
(* Until the first attempt the station, the handlers and the portal are as   *)
(* the boot left them: nobody can post an event or submit credentials.       *)
Before ==
    \/ main.pc \in {"start", "eraseSsid", "erasePassword"}
    \/ main.pc = "connect" /\ main.kind = "pending"

Untouched == Before => sta = StaOff /\ wifi = WifiOff /\ web = WebIdle

(* The pending record is out of flash before it is tried.                    *)
Withdrawn ==
    /\ hist.attempted => nvs.pending.ssid = Unset
    /\ Before /\ main.pc \in {"erasePassword", "connect"} => nvs.pending.ssid = Unset

(* The driver knows one network only, and a lease it reports is that one's.  *)
OnlyNetwork(s, c, leased) ==
    /\ s.config = c /\ (s.state # "idle" => s.net = c)
    /\ s.state = "online" => c \in leased
    /\ \A i \in 1 .. Len(s.queue) : s.queue[i] = "gotIp" => c \in leased

(* While the pending record is tried it is that network.                     *)
Testing ==
    main.kind = "pending" =>
       /\ main.pc \in {"wait", "failed"} => OnlyNetwork(sta, main.pend, hist.leased)
       /\ main.pc \in {"connected"} \cup Saving => main.pend \in hist.leased

(* What is in flash while the first of its two keys is new.                  *)
Written ==
    /\ main.pc \in Saving => main.kind = "pending"
    /\ main.pc = "savePassword" => nvs.active.ssid \in {main.pend.ssid, Unset}
    /\ SavedWasValidated

WifiInv == WifiTypeOK /\ Untouched /\ Withdrawn /\ Testing /\ Written

-----------------------------------------------------------------------------
LEMMA SubmittedRecord ==
    /\ \A c \in Submissions : c \in Records /\ Whole(c)
    /\ Blank \in Records /\ ~Whole(Blank) /\ Blank.ssid = Unset
<1>1. ASSUME NEW c \in Submissions PROVE c \in Records /\ Whole(c)
  <2>1. c = [ssid |-> c.ssid, password |-> c.password] /\ Unset \notin {c.ssid, c.password}
    BY WifiAssumption
  <2>2. c.ssid \in Ssids /\ c.password \in Passwords
    BY DEF Ssids, Passwords
  <2>3. [ssid |-> c.ssid, password |-> c.password] \in Records
    BY <2>2 DEF Records
  <2> QED BY <2>1, <2>3 DEF Whole
<1>2. Blank \in Records /\ ~Whole(Blank) /\ Blank.ssid = Unset
  BY DEF Blank, Records, Ssids, Passwords, Whole
<1> QED BY <1>1, <1>2

(* What the boot starts from.                                                *)
LEMMA BootStates ==
    /\ StaOff \in StaStates /\ StaOff.state = "idle" /\ StaOff.queue = << >>
    /\ WifiOff \in WifiStates /\ WifiOff.portal = "off" /\ ~WifiOff.managed /\ ~WifiOff.restart
    /\ WifiOff.handler = "idle"
    /\ MainStart \in MainStates /\ MainStart.pc = "start" /\ WebIdle \in WebStates
    /\ WebIdle.pc = "idle"
<1>1. Blank \in Records /\ 0 \in 0 .. MaxRetries
  BY SubmittedRecord, WifiAssumption
<1>2. << >> \in Seq(StaEvents)
  OBVIOUS
<1> HIDE DEF Blank
<1>3. StaOff \in StaStates /\ StaOff.state = "idle" /\ StaOff.queue = << >>
  BY <1>1, <1>2 DEF StaOff, StaStates
<1>4. /\ WifiOff \in WifiStates /\ WifiOff.portal = "off" /\ ~WifiOff.managed /\ ~WifiOff.restart
      /\ WifiOff.handler = "idle"
  BY <1>1 DEF WifiOff, WifiStates
<1>5. /\ MainStart \in MainStates /\ MainStart.pc = "start" /\ WebIdle \in WebStates
      /\ WebIdle.pc = "idle"
  BY <1>1 DEF MainStart, MainStates, WebIdle, WebStates, Trying
<1> QED BY <1>3, <1>4, <1>5

(* The driver posts an event.                                                *)
LEMMA PostedEvent ==
    ASSUME NEW s \in StaStates, NEW e \in StaEvents,
           NEW st \in {"idle", "connecting", "associated", "online"}, NEW net \in Records,
           NEW t, t = [state |-> st, net |-> net, config |-> s.config, queue |-> Append(s.queue, e)]
    PROVE  /\ t \in StaStates /\ t.state = st /\ t.net = net /\ t.config = s.config
           /\ t.queue = Append(s.queue, e)
BY DEF StaStates

LEMMA PostedFor ==
    ASSUME NEW s \in StaStates, NEW e, NEW t, NEW c, NEW leased, OnlyNetwork(s, c, leased),
           t.queue = Append(s.queue, e), t.config = s.config, t.state # "idle" => t.net = c,
           (t.state = "online" \/ e = "gotIp") => c \in leased
    PROVE  OnlyNetwork(t, c, leased)
<1>0. s.queue \in Seq(StaEvents)
  BY DEF StaStates
<1> DEFINE q == Append(s.queue, e)
<1>1. /\ Len(q) = Len(s.queue) + 1 /\ q[Len(s.queue) + 1] = e /\ Len(s.queue) \in Nat
      /\ \A i \in 1 .. Len(s.queue) : q[i] = s.queue[i]
  BY <1>0
<1>2. \A i \in 1 .. Len(q) : q[i] = e \/ (i \in 1 .. Len(s.queue) /\ q[i] = s.queue[i])
  BY <1>1
<1>3. t.queue = q
  OBVIOUS
<1> HIDE DEF q
<1> QED BY <1>2, <1>3 DEF OnlyNetwork

LEMMA StationCalls ==
    ASSUME NEW s \in StaStates
    PROVE  /\ EspConnect(s) \in StaStates /\ EspDisconnect(s) \in StaStates
           /\ \A c, leased : OnlyNetwork(s, c, leased) =>
                OnlyNetwork(EspConnect(s), c, leased) /\ OnlyNetwork(EspDisconnect(s), c, leased)
<1>1. EspConnect(s) \in StaStates
  BY Zenon DEF EspConnect, StaStates
<1>2. ASSUME NEW c, NEW leased, OnlyNetwork(s, c, leased) PROVE OnlyNetwork(EspConnect(s), c, leased)
  <2>1. CASE s.state = "idle"
    <3>1. /\ EspConnect(s).state = "connecting" /\ EspConnect(s).net = s.config
          /\ EspConnect(s).config = s.config /\ EspConnect(s).queue = s.queue
      BY <2>1 DEF EspConnect, StaStates
    <3> QED BY <1>2, <3>1 DEF OnlyNetwork
  <2>2. CASE s.state # "idle"
    BY <1>2, <2>2 DEF EspConnect
  <2> QED BY <2>1, <2>2
<1>3. CASE s.state = "idle"
  BY <1>1, <1>2, <1>3 DEF EspDisconnect
<1>4. CASE s.state # "idle"
  <2>1. EspDisconnect(s) = [state |-> "idle", net |-> Blank, config |-> s.config,
                            queue |-> Append(s.queue, "disconnected")]
    BY Zenon, <1>4 DEF EspDisconnect, Posted, StaStates
  <2>2. Blank \in Records /\ "disconnected" \in StaEvents
    BY SubmittedRecord DEF StaEvents
  <2>3. /\ EspDisconnect(s) \in StaStates /\ EspDisconnect(s).state = "idle"
        /\ EspDisconnect(s).net = Blank /\ EspDisconnect(s).config = s.config
        /\ EspDisconnect(s).queue = Append(s.queue, "disconnected")
    BY <2>1, <2>2, PostedEvent
  <2>4. ASSUME NEW c, NEW leased, OnlyNetwork(s, c, leased) PROVE OnlyNetwork(EspDisconnect(s), c, leased)
    BY <2>3, <2>4, PostedFor
  <2> QED BY Zenon, <1>1, <1>2, <2>3, <2>4
<1> QED BY <1>3, <1>4

(* The event task takes the oldest event.                                    *)
LEMMA HandledEvent ==
    ASSUME NEW e, WifiTypeOK, Event(e), Handled
    PROVE  /\ sta' \in StaStates /\ ~(sta = StaOff)
           /\ \A c, leased : OnlyNetwork(sta, c, leased) =>
                OnlyNetwork(sta', c, leased) /\ (e = "gotIp" => c \in leased)
<1>0. sta \in StaStates /\ sta.queue \in Seq(StaEvents) /\ sta.queue # << >> /\ Head(sta.queue) = e
  BY DEF WifiTypeOK, StaStates, Event
<1> DEFINE q == Tail(sta.queue)
<1>1. /\ q \in Seq(StaEvents) /\ Len(q) = Len(sta.queue) - 1 /\ Len(sta.queue) \in Nat
      /\ Len(sta.queue) >= 1 /\ sta.queue[1] = e
  BY <1>0
<1>2. \A i \in 1 .. Len(q) : q[i] = sta.queue[i + 1]
  BY <1>0
<1> HIDE DEF q
<1>3. sta' = [sta EXCEPT !.queue = q]
  BY DEF Handled, q
<1>4. /\ sta' \in StaStates /\ sta'.state = sta.state /\ sta'.net = sta.net
      /\ sta'.config = sta.config /\ sta'.queue = q
  BY <1>0, <1>1, <1>3 DEF StaStates
<1>5. ASSUME NEW c, NEW leased, OnlyNetwork(sta, c, leased)
      PROVE  OnlyNetwork(sta', c, leased) /\ (e = "gotIp" => c \in leased)
  <2>1. ASSUME NEW i \in 1 .. Len(q), q[i] = "gotIp" PROVE c \in leased
    <3>1. i + 1 \in 1 .. Len(sta.queue)
      BY <1>1
    <3> QED BY Zenon, <1>2, <1>5, <2>1, <3>1 DEF OnlyNetwork
  <2>2. e = "gotIp" => c \in leased
    <3>1. 1 \in 1 .. Len(sta.queue)
      BY <1>1
    <3> QED BY <1>1, <1>5, <3>1 DEF OnlyNetwork
  <2> QED BY <1>4, <1>5, <2>1, <2>2 DEF OnlyNetwork
<1>6. ~(sta = StaOff)
  BY <1>0, BootStates
<1> QED BY <1>4, <1>5, <1>6

-----------------------------------------------------------------------------
LEMMA WifiInitially == WifiInit => WifiInv
<1> SUFFICES ASSUME WifiInit PROVE WifiInv
  OBVIOUS
<1>1. PICK c \in Working \cup {Blank} :
        /\ nvs = [active |-> c, pending |-> Blank]
        /\ hist = [leased |-> {c} \ {Blank}, torn |-> FALSE, attempted |-> FALSE]
        /\ sta = StaOff /\ wifi = WifiOff /\ main = MainStart
        /\ web = WebIdle /\ recovery = "idle"
  BY Zenon DEF WifiInit
<1>2. c \in Records /\ Blank \in Records /\ ~Whole(Blank)
  BY SubmittedRecord, WifiAssumption
<1> HIDE DEF Blank
<1>3. WifiTypeOK
  BY <1>1, <1>2, BootStates DEF WifiTypeOK, NvsStates, WifiHists
<1>4. Whole(c) => c \in hist.leased
  BY <1>1, <1>2
<1>5. Untouched /\ Withdrawn /\ Testing
  BY <1>1, BootStates DEF Untouched, Withdrawn, Testing, Saving, Before
<1>6. Written
  BY <1>1, <1>4, BootStates DEF Written, SavedWasValidated, Saving
<1> QED BY <1>3, <1>5, <1>6 DEF WifiInv

(* Steps of the station, the event task, the portal and the web server that  *)
(* write neither flash nor the boot sequence.                                *)
LEMMA ElsewhereKeeps ==
    ASSUME WifiInv, UNCHANGED <<nvs, main, recovery, hist>>, ~Before,
           sta' \in StaStates, wifi' \in WifiStates, web' \in WebStates,
           OnlyNetwork(sta, main.pend, hist.leased) => OnlyNetwork(sta', main.pend, hist.leased)
    PROVE  WifiInv'
<1>1. WifiTypeOK'
  BY DEF WifiInv, WifiTypeOK
<1>2. Untouched' /\ Withdrawn'
  BY DEF WifiInv, Untouched, Withdrawn, Before
<1>3. Testing'
  BY DEF WifiInv, Testing
<1>4. Written'
  BY DEF WifiInv, Written, SavedWasValidated
<1> QED BY <1>1, <1>2, <1>3, <1>4 DEF WifiInv

(* Nothing of the kind happens before the first attempt.                     *)
LEMMA NotBefore ==
    ASSUME WifiInv,
           \/ sta.state # "idle" \/ sta.queue # << >> \/ wifi.handler = "retrying"
           \/ wifi.portal # "off" \/ wifi.managed \/ wifi.restart \/ web.pc # "idle"
    PROVE  ~Before
BY BootStates DEF WifiInv, Untouched

LEMMA StationKeeps == ASSUME WifiInv, StaAssociates \/ StaLoses PROVE WifiInv'
<1>0. WifiTypeOK /\ UNCHANGED <<nvs, wifi, main, web, recovery, hist>> /\ ~Before
  BY NotBefore DEF WifiInv, StaAssociates, StaLoses
<1>1. CASE StaAssociates
  <2>0. sta \in StaStates /\ sta.state = "connecting" /\ sta.net \in Records /\ "associated" \in StaEvents
    BY <1>0, <1>1 DEF WifiTypeOK, StaStates, StaAssociates, StaEvents
  <2>1. sta' = [state |-> "associated", net |-> sta.net, config |-> sta.config,
                queue |-> Append(sta.queue, "associated")]
    BY Zenon, <1>1, <2>0 DEF StaAssociates, Posted, StaStates
  <2>2. sta' \in StaStates /\ \A c, leased : OnlyNetwork(sta, c, leased) => OnlyNetwork(sta', c, leased)
    <3>1. /\ sta' \in StaStates /\ sta'.state = "associated" /\ sta'.net = sta.net
          /\ sta'.config = sta.config /\ sta'.queue = Append(sta.queue, "associated")
      BY <2>0, <2>1, PostedEvent
    <3>2. ASSUME NEW c, NEW leased, OnlyNetwork(sta, c, leased) PROVE OnlyNetwork(sta', c, leased)
      <4>1. sta.net = c
        BY <2>0, <3>2 DEF OnlyNetwork
      <4> QED BY <2>0, <3>1, <3>2, <4>1, PostedFor
    <3> QED BY Zenon, <3>1, <3>2
  <2> QED BY <1>0, <2>2, ElsewhereKeeps DEF WifiTypeOK
<1>2. CASE StaLoses
  BY <1>0, <1>2, StationCalls, ElsewhereKeeps DEF StaLoses, WifiTypeOK
<1> QED BY <1>1, <1>2

LEMMA LeaseKeeps == ASSUME WifiInv, StaLeases PROVE WifiInv'
<1>0. /\ WifiTypeOK /\ UNCHANGED <<nvs, wifi, main, web, recovery>> /\ ~Before
      /\ sta.state = "associated" /\ sta.net \in Working /\ sta \in StaStates
      /\ hist' = [hist EXCEPT !.leased = @ \cup {sta.net}] /\ hist \in WifiHists
  BY NotBefore DEF WifiInv, WifiTypeOK, StaLeases
<1>1. sta.net \in Records /\ "gotIp" \in StaEvents
  BY <1>0 DEF StaStates, StaEvents
<1>2. /\ hist' \in WifiHists /\ hist'.leased = hist.leased \cup {sta.net}
      /\ hist'.torn = hist.torn /\ hist'.attempted = hist.attempted
  BY <1>0, <1>1 DEF WifiHists
<1>3. sta' = [state |-> "online", net |-> sta.net, config |-> sta.config,
              queue |-> Append(sta.queue, "gotIp")]
  BY Zenon, <1>0 DEF StaLeases, Posted, StaStates
<1>4. /\ sta' \in StaStates /\ sta'.state = "online" /\ sta'.net = sta.net
      /\ sta'.config = sta.config /\ sta'.queue = Append(sta.queue, "gotIp")
  BY <1>0, <1>1, <1>3, PostedEvent
<1>5. OnlyNetwork(sta, main.pend, hist.leased) => OnlyNetwork(sta', main.pend, hist'.leased)
  <2> SUFFICES ASSUME OnlyNetwork(sta, main.pend, hist.leased) PROVE OnlyNetwork(sta', main.pend, hist'.leased)
    OBVIOUS
  <2>1. sta.net = main.pend /\ main.pend \in hist'.leased
    BY <1>0, <1>2 DEF OnlyNetwork
  <2>2. OnlyNetwork(sta, main.pend, hist'.leased)
    BY <2>1 DEF OnlyNetwork
  <2> QED BY <1>0, <1>4, <2>1, <2>2, PostedFor
<1>6. WifiTypeOK'
  BY <1>0, <1>2, <1>4 DEF WifiTypeOK
<1>7. Untouched' /\ Withdrawn'
  BY <1>0, <1>2 DEF WifiInv, Untouched, Withdrawn, Before
<1>8. Testing' /\ Written'
  BY <1>0, <1>2, <1>5 DEF WifiInv, Testing, Written, SavedWasValidated
<1> QED BY <1>6, <1>7, <1>8 DEF WifiInv

(* The event task; the bits it sets release the boot sequence.               *)
LEMMA WokenMain ==
    ASSUME WifiInv, NEW pc \in {"connected", "failed"}, Woken(pc), ~Before,
           UNCHANGED <<nvs, web, recovery, hist>>, wifi' \in WifiStates, sta' \in StaStates,
           OnlyNetwork(sta, main.pend, hist.leased) =>
             OnlyNetwork(sta', main.pend, hist.leased)
             /\ (pc = "connected" => main.pend \in hist.leased)
    PROVE  WifiInv'
<1>0. WifiTypeOK /\ main \in MainStates
  BY DEF WifiInv, WifiTypeOK
<1>1. CASE main.pc = "wait"
  <2>1. /\ main' \in MainStates /\ main'.pc = pc /\ main'.kind = main.kind
        /\ main'.pend = main.pend
    BY <1>0, <1>1 DEF Woken, MainStates, Trying
  <2>2. WifiTypeOK'
    BY <1>0, <2>1 DEF WifiTypeOK
  <2>3. Untouched' /\ Withdrawn'
    BY <2>1 DEF WifiInv, Untouched, Withdrawn, Before
  <2>4. Testing'
    BY <1>1, <2>1 DEF WifiInv, Testing, Saving
  <2>5. Written'
    BY <1>1, <2>1 DEF WifiInv, Written, SavedWasValidated, Saving
  <2> QED BY <2>2, <2>3, <2>4, <2>5 DEF WifiInv
<1>2. CASE main.pc # "wait"
  <2>1. UNCHANGED main
    BY <1>2 DEF Woken
  <2> QED BY <1>0, <2>1, ElsewhereKeeps DEF WifiTypeOK
<1> QED BY <1>1, <1>2

LEMMA EventsKeep == ASSUME WifiInv, EventStep PROVE WifiInv'
<1>0. WifiTypeOK /\ wifi \in WifiStates /\ sta \in StaStates /\ web \in WebStates
  BY DEF WifiInv, WifiTypeOK
<1>q. ASSUME NEW e, Event(e), Handled
      PROVE  /\ ~Before /\ sta' \in StaStates
             /\ OnlyNetwork(sta, main.pend, hist.leased) =>
                  OnlyNetwork(sta', main.pend, hist.leased) /\ (e = "gotIp" => main.pend \in hist.leased)
  BY <1>0, <1>q, HandledEvent DEF WifiInv, Untouched
<1>1. CASE EventGotIp
  <2>1. wifi' \in WifiStates
    <3>1. 0 \in 0 .. MaxRetries
      BY WifiAssumption
    <3> QED BY Zenon, <1>0, <1>1, <3>1 DEF EventGotIp, WifiStates
  <2>2. Event("gotIp") /\ Handled /\ Woken("connected") /\ UNCHANGED <<nvs, web, recovery, hist>>
    BY <1>1 DEF EventGotIp
  <2> QED BY <1>q, <2>1, <2>2, WokenMain
<1>2. CASE EventAssociated
  BY <1>0, <1>2, <1>q, ElsewhereKeeps DEF EventAssociated
<1>3. CASE EventDisconnected
  <2>1. wifi' \in WifiStates
    BY Zenon, <1>0, <1>3 DEF EventDisconnected, WifiStates
  <2> QED BY <1>0, <1>3, <1>q, <2>1, ElsewhereKeeps DEF EventDisconnected
<1>4. CASE EventRetries
  <2>1. wifi' \in WifiStates
    <3>1. wifi.retries + 1 \in 0 .. MaxRetries
      BY <1>0, <1>4, WifiAssumption DEF EventRetries, WifiStates
    <3>2. wifi' = [wifi EXCEPT !.connected = FALSE, !.retries = wifi.retries + 1, !.handler = "retrying"]
      BY <1>4 DEF EventRetries
    <3> QED BY Zenon, <1>0, <3>1, <3>2 DEF WifiStates
  <2> QED BY <1>0, <1>4, <1>q, <2>1, ElsewhereKeeps DEF EventRetries
<1>5. CASE EventReconnects
  <2>1. wifi' \in WifiStates /\ wifi.handler = "retrying"
    BY <1>0, <1>5 DEF EventReconnects, WifiStates
  <2>2. ~Before
    BY <2>1, NotBefore
  <2> QED BY <1>0, <1>5, <2>1, <2>2, StationCalls, ElsewhereKeeps DEF EventReconnects
<1>6. CASE EventGivesUp
  <2>1. wifi' \in WifiStates
    BY Zenon, <1>0, <1>6 DEF EventGivesUp, WifiStates
  <2>2. Event("disconnected") /\ Handled /\ Woken("failed") /\ UNCHANGED <<nvs, web, recovery, hist>>
    BY <1>6 DEF EventGivesUp
  <2> QED BY <1>q, <2>1, <2>2, WokenMain
<1> QED BY <1>1, <1>2, <1>3, <1>4, <1>5, <1>6 DEF EventStep

(* The portal, and the handlers that have not written yet.                   *)
LEMMA RequestsKeep ==
    ASSUME WifiInv, PortalStarts \/ PortalScans \/ PortalSubmits \/ ManagementSubmits
                    \/ WebWriteFails \/ WebSchedulesRestart
    PROVE  WifiInv'
<1>0. WifiTypeOK /\ wifi \in WifiStates /\ sta \in StaStates /\ web \in WebStates
  BY DEF WifiInv, WifiTypeOK
<1>b. ~Before
  BY NotBefore DEF PortalStarts, PortalScans, PortalSubmits, ManagementSubmits, WebWriteFails,
                   WebSchedulesRestart
<1>w. WebIdle \in WebStates
  BY BootStates
<1>1. CASE PortalStarts
  <2>1. wifi' \in WifiStates
    BY <1>0, <1>1 DEF PortalStarts, WifiStates
  <2> QED BY <1>0, <1>1, <1>b, <2>1, ElsewhereKeeps DEF PortalStarts
<1>2. CASE PortalScans
  <2>1. wifi' \in WifiStates
    BY Zenon, <1>0, <1>2 DEF PortalScans, WifiStates
  <2> QED BY <1>0, <1>2, <1>b, <2>1, StationCalls, ElsewhereKeeps DEF PortalScans
<1>3. CASE PortalSubmits \/ ManagementSubmits
  <2>1. PICK c \in Submissions, via \in {"portal", "management"} :
          web' = [pc |-> "writeSsid", via |-> via, creds |-> c]
    BY <1>3 DEF PortalSubmits, ManagementSubmits
  <2>2. web' \in WebStates
    BY <2>1, SubmittedRecord DEF WebStates
  <2> QED BY <1>0, <1>3, <1>b, <2>2, ElsewhereKeeps DEF PortalSubmits, ManagementSubmits
<1>4. CASE WebWriteFails
  BY <1>0, <1>4, <1>b, <1>w, ElsewhereKeeps DEF WebWriteFails
<1>5. CASE WebSchedulesRestart
  <2>1. wifi' \in WifiStates
    BY Zenon, <1>0, <1>5 DEF WebSchedulesRestart, WifiStates
  <2> QED BY <1>0, <1>5, <1>b, <1>w, <2>1, ElsewhereKeeps DEF WebSchedulesRestart
<1> QED BY <1>1, <1>2, <1>3, <1>4, <1>5

(* A handler writes to the pending record.                                   *)
LEMMA PendingKeeps ==
    ASSUME WifiInv, UNCHANGED <<sta, wifi, main, recovery>>, ~Before,
           nvs' \in NvsStates, nvs'.active = nvs.active, web' \in WebStates,
           hist' \in WifiHists, hist'.leased = hist.leased, hist'.torn = hist.torn,
           hist'.attempted => nvs'.pending.ssid = Unset
    PROVE  WifiInv'
<1>1. WifiTypeOK'
  BY DEF WifiInv, WifiTypeOK
<1>2. Untouched' /\ Withdrawn'
  BY DEF WifiInv, Untouched, Withdrawn, Before
<1>3. Testing'
  BY Zenon DEF WifiInv, Testing
<1>4. Written'
  BY Zenon DEF WifiInv, Written, SavedWasValidated
<1> QED BY <1>1, <1>2, <1>3, <1>4 DEF WifiInv

LEMMA WebKeeps == ASSUME WifiInv, WebWritesSsid \/ WebWritesPassword \/ WebCannotSchedule PROVE WifiInv'
<1>0. /\ WifiTypeOK /\ nvs \in NvsStates /\ web \in WebStates /\ hist \in WifiHists
      /\ hist.attempted => nvs.pending.ssid = Unset
  BY DEF WifiInv, WifiTypeOK, Withdrawn
<1>b. ~Before
  BY NotBefore DEF WebWritesSsid, WebWritesPassword, WebCannotSchedule
<1>w. WebIdle \in WebStates /\ Blank \in Records /\ Blank.ssid = Unset
  BY BootStates, SubmittedRecord
<1>1. CASE WebWritesSsid
  <2>1. nvs' = [active |-> nvs.active, pending |-> [ssid |-> web.creds.ssid, password |-> nvs.pending.password]]
    BY <1>0, <1>1 DEF WebWritesSsid, NvsStates, Records
  <2>2. nvs' \in NvsStates /\ nvs'.active = nvs.active
    BY <1>0, <2>1 DEF NvsStates, WebStates, Records
  <2>3. web' \in WebStates
    BY <1>0, <1>1 DEF WebWritesSsid, WebStates
  <2>4. hist' \in WifiHists /\ hist'.leased = hist.leased /\ hist'.torn = hist.torn /\ ~hist'.attempted
    BY Zenon, <1>0, <1>1 DEF WebWritesSsid, WifiHists
  <2> QED BY <1>1, <1>b, <2>2, <2>3, <2>4, PendingKeeps DEF WebWritesSsid
<1>2. CASE WebWritesPassword
  <2>1. nvs' = [active |-> nvs.active, pending |-> [ssid |-> nvs.pending.ssid, password |-> web.creds.password]]
    BY <1>0, <1>2 DEF WebWritesPassword, NvsStates, Records
  <2>2. nvs' \in NvsStates /\ nvs'.active = nvs.active /\ nvs'.pending.ssid = nvs.pending.ssid
    BY <1>0, <2>1 DEF NvsStates, WebStates, Records
  <2>3. web' \in WebStates
    BY <1>0, <1>2 DEF WebWritesPassword, WebStates
  <2> QED BY <1>0, <1>2, <1>b, <2>2, <2>3, PendingKeeps DEF WebWritesPassword
<1>3. CASE WebCannotSchedule
  <2>1. PICK p \in {nvs.pending, [nvs.pending EXCEPT !.ssid = Unset], Blank} :
          nvs' = [nvs EXCEPT !.pending = p]
    BY <1>3 DEF WebCannotSchedule
  <2>2. p \in Records /\ p.ssid \in {nvs.pending.ssid, Unset}
    BY <1>0, <1>w, <2>1 DEF NvsStates, Records, Ssids
  <2>3. nvs' \in NvsStates /\ nvs'.active = nvs.active /\ nvs'.pending = p
    BY <1>0, <2>1, <2>2 DEF NvsStates
  <2> QED BY <1>0, <1>3, <1>b, <1>w, <2>2, <2>3, PendingKeeps DEF WebCannotSchedule
<1> QED BY <1>1, <1>2, <1>3

-----------------------------------------------------------------------------
(* Where the boot sequence has no record under test.                         *)
Resting(m) ==
    \/ m.pc \in {"joined", "portal", "portalWait", "done"}
    \/ m.pc = "connect" /\ m.kind = "saved"

LEMMA RestingKeeps ==
    ASSUME WifiInv, UNCHANGED <<nvs, web, recovery>>, sta' \in StaStates, wifi' \in WifiStates,
           main' \in MainStates, Resting(main'), hist' \in WifiHists,
           hist'.leased = hist.leased, hist'.attempted = hist.attempted,
           hist.torn => hist'.torn, main.pc = "savePassword" => hist'.torn
    PROVE  WifiInv'
<1>1. WifiTypeOK'
  BY DEF WifiInv, WifiTypeOK
<1>2. ~Before'
  BY DEF Before, Resting
<1>3. Untouched' /\ Withdrawn'
  BY <1>2 DEF WifiInv, Untouched, Withdrawn
<1>4. Testing'
  BY DEF Testing, Resting, Saving
<1>5. Written'
  BY DEF WifiInv, Written, SavedWasValidated, Resting, Saving
<1> QED BY <1>1, <1>3, <1>4, <1>5 DEF WifiInv

LEMMA FinishedRests ==
    ASSUME NEW pc \in {"joined", "portal"} PROVE Finished(pc) \in MainStates /\ Resting(Finished(pc))
<1>1. Finished(pc) = [pc |-> pc, kind |-> "pending", pend |-> Blank, saved |-> Blank]
  BY DEF Finished, MainStart
<1> QED BY <1>1, SubmittedRecord DEF MainStates, Resting

LEMMA NextAttemptRests ==
    ASSUME WifiTypeOK, NextAttempt PROVE main' \in MainStates /\ Resting(main')
<1>1. CASE main.kind = "pending" /\ Whole(main.saved)
  <2>1. main' = [main EXCEPT !.pc = "connect", !.kind = "saved"] /\ main \in MainStates
    BY <1>1 DEF NextAttempt, WifiTypeOK
  <2>2. main' \in MainStates /\ main'.pc = "connect" /\ main'.kind = "saved"
    BY Zenon, <2>1 DEF MainStates, Trying
  <2> QED BY <2>2 DEF Resting
<1>2. CASE ~(main.kind = "pending" /\ Whole(main.saved))
  <2>1. main' = Finished("portal")
    BY <1>2 DEF NextAttempt
  <2> QED BY <2>1, FinishedRests
<1> QED BY <1>1, <1>2

(* The attempt is over, one way or the other.                                *)
LEMMA AttemptEndsKeeps ==
    ASSUME WifiInv, MainEraseFails \/ MainCannotConnect \/ MainConnectionFails \/ MainSaveFails
                    \/ MainSchedulesPortal \/ MainReturns
    PROVE  WifiInv'
<1>0. /\ WifiTypeOK /\ wifi \in WifiStates /\ sta \in StaStates /\ main \in MainStates
      /\ hist \in WifiHists /\ 0 \in 0 .. MaxRetries
  BY WifiAssumption DEF WifiInv, WifiTypeOK
<1>1. CASE MainEraseFails
  BY <1>0, <1>1, NextAttemptRests, RestingKeeps DEF MainEraseFails
<1>2. CASE MainCannotConnect
  <2>1. wifi' \in WifiStates
    BY Zenon, <1>0, <1>2 DEF MainCannotConnect, WifiStates
  <2> QED BY <1>0, <1>2, <2>1, NextAttemptRests, RestingKeeps DEF MainCannotConnect
<1>3. CASE MainConnectionFails
  <2>1. wifi' \in WifiStates
    BY Zenon, <1>0, <1>3 DEF MainConnectionFails, WifiStates
  <2> QED BY <1>0, <1>3, <2>1, NextAttemptRests, StationCalls, RestingKeeps DEF MainConnectionFails
<1>4. CASE MainSaveFails
  <2>1. wifi' \in WifiStates
    BY Zenon, <1>0, <1>4 DEF MainSaveFails, WifiStates
  <2> DEFINE torn == hist.torn \/ main.pc = "savePassword"
  <2>2. torn \in BOOLEAN
    BY Zenon
  <2>3. hist' = [hist EXCEPT !.torn = torn]
    BY <1>4 DEF MainSaveFails
  <2>4. (hist.torn => torn) /\ (main.pc = "savePassword" => torn)
    OBVIOUS
  <2> HIDE DEF torn
  <2>5. /\ hist' \in WifiHists /\ hist'.leased = hist.leased /\ hist'.attempted = hist.attempted
        /\ hist'.torn = torn
    BY <1>0, <2>2, <2>3 DEF WifiHists
  <2> QED BY <1>0, <1>4, <2>1, <2>4, <2>5, NextAttemptRests, StationCalls, RestingKeeps
             DEF MainSaveFails
<1>5. CASE MainSchedulesPortal
  <2>1. wifi' \in WifiStates
    BY <1>0, <1>5 DEF MainSchedulesPortal, WifiStates
  <2>2. main' \in MainStates /\ main'.pc = "portalWait"
    BY <1>0, <1>5 DEF MainSchedulesPortal, MainStates
  <2> QED BY <1>0, <1>5, <2>1, <2>2, RestingKeeps DEF MainSchedulesPortal, Resting
<1>6. CASE MainReturns
  <2>1. main' \in MainStates /\ main'.pc = "done"
    BY <1>0, <1>6 DEF MainReturns, MainStates
  <2> QED BY <1>0, <1>6, <2>1, RestingKeeps DEF MainReturns, Resting
<1> QED BY <1>1, <1>2, <1>3, <1>4, <1>5, <1>6

(* The records are loaded, and the pending one is withdrawn from flash.      *)
LEMMA WithdrawsKeeps ==
    ASSUME WifiInv, MainLoads \/ MainErasesSsid \/ MainErasesPassword
    PROVE  WifiInv'
<1>0. /\ WifiTypeOK /\ nvs \in NvsStates /\ main \in MainStates /\ Before
      /\ sta = StaOff /\ wifi = WifiOff /\ web = WebIdle /\ main.pc # "savePassword"
  BY DEF WifiInv, WifiTypeOK, Untouched, Before, MainLoads, MainErasesSsid, MainErasesPassword
<1>1. UNCHANGED <<sta, wifi, web, recovery, hist>>
  BY DEF MainLoads, MainErasesSsid, MainErasesPassword
<1>2. /\ main' \in MainStates
      /\ main'.pc \in {"eraseSsid", "erasePassword", "connect", "portal"}
      /\ nvs' \in NvsStates /\ nvs'.active = nvs.active
      /\ nvs'.pending.ssid \in {nvs.pending.ssid, Unset}
      /\ main'.pc = "connect" /\ main'.kind = "pending" => nvs'.pending.ssid = Unset
      /\ main'.pc = "erasePassword" => nvs'.pending.ssid = Unset
  <2>1. CASE MainLoads
    BY <1>0, <2>1 DEF MainLoads, MainStates, Trying, NvsStates
  <2>2. CASE MainErasesSsid
    <3>1. main' \in MainStates /\ main'.pc = "erasePassword"
      BY <1>0, <2>2 DEF MainErasesSsid, MainStates, Trying
    <3>2. nvs' = [active |-> nvs.active, pending |-> [ssid |-> Unset, password |-> nvs.pending.password]]
      BY <1>0, <2>2 DEF MainErasesSsid, NvsStates, Records
    <3>3. nvs' \in NvsStates /\ nvs'.active = nvs.active /\ nvs'.pending.ssid = Unset
      BY <1>0, <3>2 DEF NvsStates, Records, Ssids
    <3> QED BY <3>1, <3>3
  <2>3. CASE MainErasesPassword
    <3>1. main' \in MainStates /\ main'.pc = "connect"
      BY <1>0, <2>3 DEF MainErasesPassword, MainStates, Trying
    <3>2. nvs' = [active |-> nvs.active, pending |-> [ssid |-> nvs.pending.ssid, password |-> Unset]]
      BY <1>0, <2>3 DEF MainErasesPassword, NvsStates, Records
    <3>3. nvs' \in NvsStates /\ nvs'.active = nvs.active /\ nvs'.pending.ssid = nvs.pending.ssid
      BY <1>0, <3>2 DEF NvsStates, Records, Passwords
    <3>4. nvs.pending.ssid = Unset
      BY <1>0, <2>3 DEF WifiInv, Withdrawn, MainErasesPassword
    <3> QED BY <3>1, <3>3, <3>4
  <2> QED BY <2>1, <2>2, <2>3
<1>3. WifiTypeOK'
  BY <1>0, <1>1, <1>2 DEF WifiTypeOK
<1>4. Untouched'
  BY <1>0, <1>1 DEF Untouched
<1>5. Withdrawn'
  BY <1>1, <1>2 DEF WifiInv, Withdrawn, Before
<1>6. Testing'
  BY <1>2 DEF Testing, Saving
<1>7. Written'
  BY <1>0, <1>1, <1>2 DEF WifiInv, Written, SavedWasValidated, Saving
<1> QED BY <1>3, <1>4, <1>5, <1>6, <1>7 DEF WifiInv

(* The first attempt gives the idle driver the pending record.               *)
LEMMA ConnectsKeeps == ASSUME WifiInv, MainConnects PROVE WifiInv'
<1>0. /\ WifiTypeOK /\ wifi \in WifiStates /\ sta \in StaStates /\ main \in MainStates
      /\ hist \in WifiHists /\ 0 \in 0 .. MaxRetries /\ main.pc = "connect"
      /\ UNCHANGED <<nvs, web, recovery>>
  BY WifiAssumption DEF WifiInv, WifiTypeOK, MainConnects
<1>1. wifi' \in WifiStates
  BY Zenon, <1>0 DEF MainConnects, WifiStates
<1>2. main' \in MainStates /\ main'.pc = "wait" /\ main'.kind = main.kind /\ main'.pend = main.pend
  BY <1>0 DEF MainConnects, MainStates, Trying
<1>3. Target \in Records
  BY <1>0 DEF Target, MainStates
<1> DEFINE s == [sta EXCEPT !.config = Target]
<1>4. s \in StaStates /\ s.config = Target /\ s.state = sta.state /\ s.queue = sta.queue
  BY <1>0, <1>3 DEF StaStates
<1>5. sta' = EspConnect(s)
  BY DEF MainConnects
<1> HIDE DEF s
<1>6. sta' \in StaStates
  BY <1>4, <1>5, StationCalls
<1> DEFINE attempted == hist.attempted \/ main.kind = "pending"
<1>7. attempted \in BOOLEAN
  BY Zenon
<1>8. hist' = [hist EXCEPT !.attempted = attempted]
  BY DEF MainConnects
<1>9. attempted => nvs.pending.ssid = Unset
  BY <1>0 DEF WifiInv, Withdrawn, Before
<1> HIDE DEF attempted
<1>10. /\ hist' \in WifiHists /\ hist'.leased = hist.leased /\ hist'.torn = hist.torn
       /\ hist'.attempted = attempted
  BY <1>0, <1>7, <1>8 DEF WifiHists
<1>11. main.kind = "pending" => OnlyNetwork(sta', main.pend, hist.leased)
  <2> SUFFICES ASSUME main.kind = "pending" PROVE OnlyNetwork(sta', main.pend, hist.leased)
    OBVIOUS
  <2>1. sta = StaOff /\ Target = main.pend
    BY <1>0 DEF WifiInv, Untouched, Before, Target
  <2>2. s.state = "idle" /\ s.queue = << >> /\ s.config = main.pend
    BY <1>4, <2>1, BootStates
  <2>3. OnlyNetwork(s, main.pend, hist.leased)
    BY <2>2 DEF OnlyNetwork
  <2> QED BY <1>4, <1>5, <2>3, StationCalls
<1>12. WifiTypeOK'
  BY <1>0, <1>1, <1>2, <1>6, <1>10 DEF WifiTypeOK
<1>13. Untouched' /\ Withdrawn'
  BY <1>0, <1>2, <1>9, <1>10 DEF Untouched, Withdrawn, Before
<1>14. Testing'
  BY <1>2, <1>10, <1>11 DEF Testing, Saving
<1>15. Written'
  BY <1>0, <1>2, <1>10 DEF WifiInv, Written, SavedWasValidated, Saving
<1> QED BY <1>12, <1>13, <1>14, <1>15 DEF WifiInv

(* A record under test that got a lease is saved, key by key.                *)
LEMMA SavesKeeps ==
    ASSUME WifiInv, MainIsConnected \/ MainSavesSsid \/ MainSavesPassword
    PROVE  WifiInv'
<1>0. /\ WifiTypeOK /\ nvs \in NvsStates /\ wifi \in WifiStates /\ sta \in StaStates
      /\ main \in MainStates /\ hist \in WifiHists
  BY DEF WifiInv, WifiTypeOK
<1>1. CASE MainIsConnected /\ main.kind = "pending"
  <2>1. /\ main' \in MainStates /\ main'.pc = "saveSsid" /\ main'.kind = "pending"
        /\ main'.pend = main.pend
    BY <1>0, <1>1 DEF MainIsConnected, MainStates, Trying, Saving
  <2>2. UNCHANGED <<nvs, sta, wifi, web, recovery, hist>> /\ main.pc = "connected"
    BY <1>1 DEF MainIsConnected
  <2>3. WifiTypeOK'
    BY <1>0, <2>1, <2>2 DEF WifiTypeOK
  <2>4. Untouched' /\ Withdrawn'
    BY <2>1, <2>2 DEF WifiInv, Untouched, Withdrawn, Before
  <2>5. Testing' /\ Written'
    BY <1>1, <2>1, <2>2 DEF WifiInv, Testing, Written, SavedWasValidated, Saving
  <2> QED BY <2>3, <2>4, <2>5 DEF WifiInv
<1>2. CASE MainIsConnected /\ main.kind # "pending"
  <2>1. main' = Finished("joined") /\ UNCHANGED <<nvs, sta, wifi, web, recovery, hist>>
        /\ main.pc = "connected"
    BY <1>2 DEF MainIsConnected
  <2> QED BY <1>0, <2>1, FinishedRests, RestingKeeps
<1>3. CASE MainSavesSsid
  <2>1. /\ main' \in MainStates /\ main'.pc = "savePassword" /\ main'.kind = main.kind
        /\ main'.pend = main.pend
    BY <1>0, <1>3 DEF MainSavesSsid, MainStates, Trying, Saving
  <2>2. UNCHANGED <<sta, wifi, web, recovery, hist>> /\ main.pc = "saveSsid"
    BY <1>3 DEF MainSavesSsid
  <2>3. nvs' = [active |-> [ssid |-> main.pend.ssid, password |-> nvs.active.password], pending |-> nvs.pending]
    BY <1>0, <1>3 DEF MainSavesSsid, NvsStates, Records
  <2>4. nvs' \in NvsStates /\ nvs'.pending = nvs.pending /\ nvs'.active.ssid = main.pend.ssid
    BY <1>0, <2>3 DEF NvsStates, MainStates, Records
  <2>5. WifiTypeOK'
    BY <1>0, <2>1, <2>2, <2>4 DEF WifiTypeOK
  <2>6. Untouched' /\ Withdrawn'
    BY <2>1, <2>2, <2>4 DEF WifiInv, Untouched, Withdrawn, Before
  <2>7. Testing' /\ Written'
    BY Zenon, <2>1, <2>2, <2>4 DEF WifiInv, Testing, Written, SavedWasValidated, Saving
  <2> QED BY <2>5, <2>6, <2>7 DEF WifiInv
<1>4. CASE MainSavesPassword
  <2>1. /\ main' \in MainStates /\ Resting(main') /\ UNCHANGED <<sta, wifi, web, recovery>>
        /\ main.pc = "savePassword" /\ main.kind = "pending" /\ main.pend \in hist.leased
        /\ main'.pc \notin {"savePassword"} \cup Saving
    <3>1. main' = Finished("joined") /\ main.pc = "savePassword" /\ main'.pc = "joined"
      BY <1>4 DEF MainSavesPassword, Finished, MainStart
    <3>2. main.kind = "pending" /\ main.pend \in hist.leased
      BY <3>1 DEF WifiInv, Testing, Written, Saving
    <3> QED BY <1>4, <3>1, <3>2, FinishedRests DEF MainSavesPassword, Saving
  <2>2. hist' \in WifiHists /\ hist'.leased = hist.leased /\ hist'.attempted = hist.attempted
    BY Zenon, <1>0, <1>4 DEF MainSavesPassword, WifiHists
  <2>3. nvs' = [active |-> [ssid |-> nvs.active.ssid, password |-> main.pend.password], pending |-> nvs.pending]
    BY <1>0, <1>4 DEF MainSavesPassword, NvsStates, Records
  <2>4. /\ nvs' \in NvsStates /\ nvs'.pending = nvs.pending /\ nvs'.active.ssid = nvs.active.ssid
        /\ nvs'.active.password = main.pend.password
        /\ nvs'.active = [ssid |-> nvs.active.ssid, password |-> main.pend.password]
    BY <1>0, <2>3 DEF NvsStates, MainStates, Records
  <2>5. Whole(nvs'.active) => nvs'.active \in hist'.leased
    <3>1. nvs.active.ssid \in {main.pend.ssid, Unset}
      BY <2>1 DEF WifiInv, Written
    <3>2. main.pend = [ssid |-> main.pend.ssid, password |-> main.pend.password]
      BY <1>0 DEF MainStates, Records
    <3> QED BY <2>1, <2>2, <2>4, <3>1, <3>2 DEF Whole
  <2>6. WifiTypeOK'
    BY <1>0, <2>1, <2>2, <2>4 DEF WifiTypeOK
  <2>7. Untouched' /\ Withdrawn' /\ Testing'
    BY Zenon, <2>1, <2>2, <2>4 DEF WifiInv, Untouched, Withdrawn, Before, Testing, Resting, Saving
  <2>8. Written'
    BY Zenon, <2>1, <2>5 DEF Written, SavedWasValidated
  <2> QED BY <2>6, <2>7, <2>8 DEF WifiInv
<1> QED BY <1>1, <1>2, <1>3, <1>4

(* Restarts forget everything but flash.                                     *)
LEMMA RebootKeeps == ASSUME WifiInv, Reboot, UNCHANGED nvs PROVE WifiInv'
<1>0. WifiTypeOK /\ hist \in WifiHists
  BY DEF WifiInv, WifiTypeOK
<1>1. sta' = StaOff /\ wifi' = WifiOff /\ main' = MainStart /\ web' = WebIdle /\ recovery' = "idle"
  BY DEF Reboot
<1> DEFINE torn == hist.torn \/ main.pc = "savePassword"
<1>2. torn \in BOOLEAN
  BY Zenon
<1>3. hist' = [hist EXCEPT !.torn = torn]
  BY DEF Reboot
<1>4. (hist.torn => torn) /\ (main.pc = "savePassword" => torn)
  OBVIOUS
<1> HIDE DEF torn
<1>5. /\ hist' \in WifiHists /\ hist'.leased = hist.leased /\ hist'.attempted = hist.attempted
      /\ hist'.torn = torn
  BY <1>0, <1>2, <1>3 DEF WifiHists
<1>6. WifiTypeOK'
  BY <1>0, <1>1, <1>5, BootStates DEF WifiTypeOK
<1>7. Untouched'
  BY <1>1 DEF Untouched
<1>8. main'.pc = "start"
  BY <1>1, BootStates
<1>9. Withdrawn' /\ Testing'
  BY <1>5, <1>8 DEF WifiInv, Withdrawn, Testing, Saving
<1>10. Written'
  BY <1>4, <1>5, <1>8 DEF WifiInv, Written, SavedWasValidated, Saving
<1> QED BY <1>6, <1>7, <1>9, <1>10 DEF WifiInv

LEMMA ResetKeeps == ASSUME WifiInv, ResetErases PROVE WifiInv'
<1>0. /\ WifiTypeOK /\ hist \in WifiHists /\ UNCHANGED <<sta, wifi, main, web>>
      /\ nvs' = [active |-> Blank, pending |-> Blank] /\ recovery' = "erased"
  BY DEF WifiInv, WifiTypeOK, ResetErases
<1>1. hist' \in WifiHists /\ hist'.leased = hist.leased /\ hist'.attempted = hist.attempted
  BY Zenon, <1>0 DEF ResetErases, WifiHists
<1> HIDE DEF Blank
<1>2. /\ nvs' \in NvsStates /\ nvs'.active.ssid = Unset /\ nvs'.pending.ssid = Unset
      /\ ~Whole(nvs'.active)
  BY <1>0, SubmittedRecord DEF NvsStates
<1>3. WifiTypeOK'
  BY <1>0, <1>1, <1>2 DEF WifiTypeOK
<1>4. Untouched' /\ Withdrawn'
  BY <1>0, <1>1, <1>2 DEF WifiInv, Untouched, Withdrawn, Before
<1>5. Testing'
  BY <1>0, <1>1 DEF WifiInv, Testing
<1>6. Written'
  BY <1>0, <1>2 DEF WifiInv, Written, SavedWasValidated
<1> QED BY <1>3, <1>4, <1>5, <1>6 DEF WifiInv

LEMMA WifiStep == WifiInv /\ [WifiNext]_wifiVars => WifiInv'
<1> SUFFICES ASSUME WifiInv, [WifiNext]_wifiVars PROVE WifiInv'
  OBVIOUS
<1>1. CASE UNCHANGED wifiVars
  <2>1. UNCHANGED <<nvs, sta, wifi, main, web, recovery, hist>>
    BY <1>1 DEF wifiVars
  <2>2. WifiTypeOK' /\ Untouched' /\ Withdrawn'
    BY <2>1 DEF WifiInv, WifiTypeOK, Untouched, Withdrawn, Before
  <2>3. Testing' /\ Written'
    BY <2>1 DEF WifiInv, Testing, Written, SavedWasValidated
  <2> QED BY <2>2, <2>3 DEF WifiInv
<1>2. CASE StaAssociates \/ StaLeases \/ StaLoses \/ EventStep
  BY <1>2, StationKeeps, LeaseKeeps, EventsKeep
<1>3. CASE MainStep
  BY <1>3, AttemptEndsKeeps, WithdrawsKeeps, ConnectsKeeps, SavesKeeps DEF MainStep
<1>4. CASE PortalStarts \/ PortalScans \/ PortalSubmits \/ ManagementSubmits
  BY <1>4, RequestsKeep
<1>5. CASE WebStep
  BY <1>5, RequestsKeep, WebKeeps DEF WebStep
<1>6. CASE RestartFires \/ PowerLoss \/ ResetRestarts
  BY <1>6, RebootKeeps DEF RestartFires, PowerLoss, ResetRestarts
<1>7. CASE ResetErases
  BY <1>7, ResetKeeps
<1> QED BY <1>1, <1>2, <1>3, <1>4, <1>5, <1>6, <1>7 DEF WifiNext

(* For any networks and any number of retries, restarts, power cuts and NVS  *)
(* errors: submitted credentials are tried once, and the record the device   *)
(* boots from had a lease unless its two writes were torn apart.             *)
THEOREM WifiIsSafe == WifiSpec => []WifiSafe
<1>1. WifiInv => WifiSafe
  BY DEF WifiInv, Withdrawn, Written, WifiSafe, TriedOnce
<1> QED BY <1>1, WifiInitially, WifiStep, PTL DEF WifiSpec
=============================================================================
