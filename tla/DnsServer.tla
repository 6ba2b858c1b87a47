------------------------------ MODULE DnsServer -------------------------------
(***************************************************************************)
(* The captive portal's DNS server (dns-server.c): the handle that the     *)
(* starter and the worker task share, and who frees it.  dns_server_stop   *)
(* waits one second for the worker; when it gives up it leaves the handle  *)
(* to the worker.  A worker that was given up on may still hold the port   *)
(* when the next server starts.                                            *)
(***************************************************************************)
EXTENDS Naturals, FiniteSets

CONSTANTS Handles       \* one for every dns_server_start; bounds them

VARIABLES
    dns,        \* each handle: its fields, its worker and how often it was freed
    dnsStop,    \* dns_server_stop, if it is running: where, and on which handle
    portal      \* the handle that the portal holds, in a set

dnsVars == <<dns, dnsStop, portal>>

Unborn == [state |-> "unborn", worker |-> "none", running |-> FALSE, task |-> FALSE,
           given |-> FALSE, deferred |-> FALSE, freed |-> 0]
Born == [state |-> "started", worker |-> "open", running |-> TRUE, task |-> TRUE,
         given |-> FALSE, deferred |-> FALSE, freed |-> 0]
NoStop == [pc |-> "idle", on |-> {}]

Fields ==
    [state : {"unborn", "started"},
     worker : {"none", "open", "loop", "closed", "leaving", "cleanup", "gone"},
     running : BOOLEAN, task : BOOLEAN, given : BOOLEAN, deferred : BOOLEAN, freed : 0 .. 2]

DnsTypeOK ==
    /\ dns \in [Handles -> Fields]
    /\ dnsStop \in [pc : {"idle", "wait", "locked", "free"}, on : SUBSET Handles]
    /\ portal \subseteq Handles

DnsInit == dns = [h \in Handles |-> Unborn] /\ dnsStop = NoStop /\ portal = {}

-----------------------------------------------------------------------------
PortBound == \E h \in Handles : dns[h].worker = "loop"

(* dns_server_start; xTaskCreate has written handle->task before the worker  *)
(* runs.  A start that fails leaves nothing behind.                          *)
DnsStart(h) ==
    /\ portal = {} /\ dnsStop.pc = "idle" /\ dns[h].state = "unborn"
    /\ dns' = [dns EXCEPT ![h] = Born]
    /\ portal' = {h}
    /\ UNCHANGED dnsStop

(* dns_server_task: socket and bind, which fails while the port is taken     *)
WorkerOpens(h) ==
    /\ dns[h].worker = "open"
    /\ \/ ~PortBound /\ dns' = [dns EXCEPT ![h].worker = "loop"]
       \/ dns' = [dns EXCEPT ![h].worker = "closed"]
    /\ UNCHANGED <<dnsStop, portal>>

(* A datagram or the 250 ms timeout, and the test of handle->running.        *)
WorkerStops(h) ==
    /\ dns[h].worker = "loop" /\ ~dns[h].running
    /\ dns' = [dns EXCEPT ![h].worker = "closed"]
    /\ UNCHANGED <<dnsStop, portal>>

(* The critical section at "finished".                                       *)
WorkerFinishes(h) ==
    /\ dns[h].worker = "closed"
    /\ dns' = [dns EXCEPT ![h].worker = IF dns[h].deferred THEN "cleanup" ELSE "leaving",
                          ![h].task = FALSE, ![h].given = TRUE]
    /\ UNCHANGED <<dnsStop, portal>>

WorkerLeaves(h) ==
    /\ dns[h].worker \in {"leaving", "cleanup"}
    /\ dns' = [dns EXCEPT ![h].worker = "gone",
                          ![h].freed = IF dns[h].worker = "cleanup" THEN @ + 1 ELSE @]
    /\ UNCHANGED <<dnsStop, portal>>

(* dns_server_stop *)
StopBegins(h) ==
    /\ h \in portal /\ dnsStop.pc = "idle"
    /\ dns' = [dns EXCEPT ![h].running = FALSE]
    /\ dnsStop' = [pc |-> "wait", on |-> {h}]
    /\ portal' = {}

StopTakes(h) ==
    /\ dnsStop = [pc |-> "wait", on |-> {h}] /\ dns[h].given
    /\ dns' = [dns EXCEPT ![h].given = FALSE]
    /\ dnsStop' = [dnsStop EXCEPT !.pc = "free"]
    /\ UNCHANGED portal

StopTimesOut(h) ==
    /\ dnsStop = [pc |-> "wait", on |-> {h}]
    /\ dnsStop' = [dnsStop EXCEPT !.pc = "locked"]
    /\ UNCHANGED <<dns, portal>>

StopDecides_NoRecheck(h) ==
    /\ dnsStop = [pc |-> "locked", on |-> {h}]
    /\ dns' = [dns EXCEPT ![h].deferred = TRUE] /\ dnsStop' = NoStop
    /\ UNCHANGED portal

StopDecides_AlwaysFrees(h) ==
    /\ dnsStop = [pc |-> "locked", on |-> {h}]
    /\ dnsStop' = [dnsStop EXCEPT !.pc = "free"]
    /\ UNCHANGED <<dns, portal>>

(* The critical section after the timeout: the worker may have just ended.   *)
StopDecides(h) ==
    /\ dnsStop = [pc |-> "locked", on |-> {h}]
    /\ IF dns[h].task
       THEN dns' = [dns EXCEPT ![h].deferred = TRUE] /\ dnsStop' = NoStop
       ELSE dnsStop' = [dnsStop EXCEPT !.pc = "free"] /\ UNCHANGED dns
    /\ UNCHANGED portal

StopFrees(h) ==
    /\ dnsStop = [pc |-> "free", on |-> {h}]
    /\ dns' = [dns EXCEPT ![h].freed = @ + 1]
    /\ dnsStop' = NoStop
    /\ UNCHANGED portal

DnsWorker(h) == WorkerOpens(h) \/ WorkerStops(h) \/ WorkerFinishes(h) \/ WorkerLeaves(h)
DnsStopper(h) == StopTakes(h) \/ StopTimesOut(h) \/ StopDecides(h) \/ StopFrees(h)

DnsNext == \E h \in Handles : DnsStart(h) \/ StopBegins(h) \/ DnsWorker(h) \/ DnsStopper(h)

(* Both tasks run at priority 5 and wait with time limits.                   *)
DnsFairness == \A h \in Handles : WF_dnsVars(DnsWorker(h)) /\ WF_dnsVars(DnsStopper(h))

DnsSpec == DnsInit /\ [][DnsNext]_dnsVars /\ DnsFairness

-----------------------------------------------------------------------------
(* A handle is freed at most once, and never while its worker still has its  *)
(* fields to read: after the free the worker only leaves (dns-server.c:212-  *)
(* 222, 267-280).                                                            *)
HandleFreedOnce ==
    \A h \in Handles :
       /\ dns[h].freed <= 1
       /\ dns[h].freed = 1 => dns[h].worker \in {"leaving", "gone"}

(* A stopped handle is freed by one side or the other: the timeout that      *)
(* races the worker's end leaks nothing (dns-server.c:269-279).              *)
StoppedIsFreed ==
    \A h \in Handles : (dns[h].state = "started" /\ ~dns[h].running) ~> dns[h].freed = 1

(* Both sides of a stop agree on who frees what.                             *)
DnsSafe == DnsTypeOK /\ HandleFreedOnce
=============================================================================
