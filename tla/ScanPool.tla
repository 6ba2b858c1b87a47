------------------------------ MODULE ScanPool ------------------------------
(***************************************************************************)
(* nut-scanner's threads, and the lists of devices they fill.  main starts *)
(* one thread per kind of scan it was asked for, joins them and shows what *)
(* they found.  The scans over addresses (snmp, xml, nut, ipmi) and over   *)
(* serial ports each run the same loop: take a permit of the semaphore all *)
(* scans share and one of the scan's own, start a worker for the next      *)
(* target, and join the workers when no permit is left.  The workers of a  *)
(* scan put the devices they find into one list, under the scan's mutex.   *)
(*                                                                         *)
(* The second half looks at the links of the lists, where two scans share  *)
(* one: the scan for upsd services announced by Avahi asks each service    *)
(* that publishes no device list itself, by calling the scan for upsd      *)
(* servers, which main may also have started.                              *)
(*                                                                         *)
(* Model of main and of the run_ functions in tools/nut-scanner/           *)
(* nut-scanner.c, of the loops and workers in scan_nut.c, scan_snmp.c,     *)
(* scan_xml_http.c, scan_ipmi.c and scan_eaton_serial.c, of update_device  *)
(* and nutscan_scan_avahi in scan_avahi.c and of nutscan-device.c.         *)
(***************************************************************************)
EXTENDS Naturals, Sequences, FiniteSets, SequencesExt, FiniteSetsExt, Functions

CONSTANTS ScanSets,      \* the sets of kinds that the command line may ask for
          Available,     \* the kinds whose library was loaded
          Targets,       \* kind -> for each address or port, in order, how
                         \*   many devices its worker will find
          OwnLimit,      \* kind -> max_threads_<kind>, 0 for no limit
          MaxThreads,    \* max_threads
          MaxFaults,     \* bound on failed allocations and thread creations
          Services,      \* the sets of announcements the browser may report:
                         \*   [listed, found], the devices in the text and
                         \*   those its upsd lists when asked
          MaxServices,   \* bound on the services resolved
          MaxDevices     \* bound on the devices allocated

VARIABLES
  main,        \* what main does: "starts", "joins", "shows" or "ended", and
               \*   the kinds it still has to deal with and was asked for
  scan,        \* kind -> where the scan's own thread is
  rest,        \* kind -> the targets not taken yet
  permits,     \* the value of the semaphore all scans share
  own,         \* kind -> the value of its own semaphore
  threads,     \* kind -> thread_array: the targets of the unjoined workers
  worker,      \* kind -> target -> where that worker is
  mutex,       \* kind -> the worker holding dev_mutex, or 0
  found,       \* kind -> dev_ret, from its first to its last device
  shown,       \* kind -> the devices main showed
  faults,      \* failures so far
  broken,      \* an array could not grow, and threadcount_mutex stays locked
  heap,        \* device -> [next, prev], 0 for NULL; one entry per device
               \*   allocated so far
  nut_ret,     \* dev_ret of scan_nut.c
  avahi_ret,   \* dev_ret of scan_avahi.c
  calls,       \* how often nutscan_scan_nut was called
  resolved,    \* the services resolved so far
  scans,       \* "nut" and "avahi" scans of main: "off", "runs", "returned"
  kept,        \* dev[TYPE_NUT] and dev[TYPE_AVAHI] of main
  freed,       \* device -> how often main freed it
  hung         \* a loop along the list does not end

poolVars == <<main, scan, rest, permits, own, threads, worker, mutex, found,
              shown, faults, broken>>

listVars == <<heap, nut_ret, avahi_ret, calls, resolved, scans, kept, freed, hung>>

\* main starts, joins and shows the scans in this order.
Order == <<"usb", "snmp", "xml", "nut", "sim", "avahi", "ipmi", "serial">>
Kinds == Range(Order)

\* The scans that run the loop of permits and workers.  Without an address
\* range xml broadcasts and ipmi looks at the local device, each in the
\* scan's own thread.
Pooled == {"snmp", "xml", "nut", "ipmi", "serial"}

\* Workers of kind k that were started and have not been joined.
Alive(k) == {t \in DOMAIN worker[k] : worker[k][t].at \notin {"none", "done"}}

-----------------------------------------------------------------------------
(* main *)

\* The loop over the kinds in main: a scan without its library, or that
\* needs an address and has none, is skipped.  The serial scan needs no
\* library.
Wanted(k) ==
  /\ k \in main.asked
  /\ k \in Available \cup {"serial"}
  /\ k \in {"snmp", "nut"} => Targets[k] # <<>>

\* main creates the thread of the next kind of scan.  When that fails the
\* kind counts as unavailable; for the serial scan the result is not looked
\* at, but no thread is there to join either.
MainStarts ==
  /\ main.does = "starts" /\ main.todo # <<>>
  /\ \E started \in BOOLEAN :
       LET k == Head(main.todo) IN
       /\ started => Wanted(k)
       /\ ~started /\ Wanted(k) => faults < MaxFaults
       /\ faults' = IF ~started /\ Wanted(k) THEN faults + 1 ELSE faults
       /\ scan' = [scan EXCEPT ![k] = IF started THEN "begins" ELSE "off"]
  /\ main' = [main EXCEPT !.todo = Tail(@)]
  /\ UNCHANGED <<rest, permits, own, threads, worker, mutex, found, shown,
                 broken>>

\* main waits for the scans it started, in the same order.
MainJoins ==
  \/ /\ main.does = "starts" /\ main.todo = <<>>
     /\ main' = [main EXCEPT !.does = "joins", !.todo = Order]
     /\ UNCHANGED shown
  \/ /\ main.does = "joins" /\ main.todo # <<>>
     /\ scan[Head(main.todo)] \in {"off", "returned"}
     /\ main' = [main EXCEPT !.todo = Tail(@)]
     /\ UNCHANGED shown
  \/ /\ main.does = "joins" /\ main.todo = <<>>
     /\ main' = [main EXCEPT !.does = "shows", !.todo = Order]
     /\ UNCHANGED shown

\* main prints the list a scan returned and frees it.
MainShows ==
  /\ main.does = "shows"
  /\ IF main.todo = <<>>
     THEN main' = [main EXCEPT !.does = "ended"] /\ UNCHANGED shown
     ELSE LET k == Head(main.todo) IN
          /\ shown' = [shown EXCEPT ![k] =
                         IF scan[k] = "returned" THEN found[k] ELSE <<>>]
          /\ main' = [main EXCEPT !.todo = Tail(@)]

MainMoves ==
  /\ MainJoins \/ MainShows
  /\ UNCHANGED <<scan, rest, permits, own, threads, worker, mutex, found,
                 faults, broken>>

-----------------------------------------------------------------------------
(* The loop of a scan over its targets *)

\* The function of the scan is entered: its own semaphore starts at its
\* limit.  A scan without the loop, and one without targets, does its one
\* search in this thread.
Begins(k) ==
  /\ scan[k] = "begins"
  /\ IF k \in Pooled /\ Targets[k] # <<>>
     THEN /\ scan' = [scan EXCEPT ![k] = "loops"]
          /\ rest' = [rest EXCEPT ![k] = [t \in DOMAIN Targets[k] |-> t]]
          /\ UNCHANGED found
     ELSE /\ scan' = [scan EXCEPT ![k] = "returned"]
          /\ \E d \in {<<>>, <<[kind |-> k, target |-> 0, nth |-> 1]>>} :
               found' = [found EXCEPT ![k] = d]
          /\ UNCHANGED rest
  /\ own' = [own EXCEPT ![k] = OwnLimit[k]]
  /\ UNCHANGED <<main, permits, threads, worker, mutex, shown, faults, broken>>

\* With no worker unjoined, the loop waits for both permits.
Waits(k) ==
  /\ scan[k] = "loops" /\ rest[k] # <<>> /\ threads[k] = <<>>
  /\ OwnLimit[k] > 0 => own[k] > 0
  /\ permits > 0
  /\ own' = [own EXCEPT ![k] = IF OwnLimit[k] > 0 THEN @ - 1 ELSE @]
  /\ permits' = permits - 1
  /\ scan' = [scan EXCEPT ![k] = "launches"]
  /\ UNCHANGED <<main, rest, threads, worker, mutex, found, shown, faults,
                 broken>>

\* With workers unjoined, it only tries: both semaphores are asked, and one
\* that is granted stays taken when the other is refused.
Tries(k) ==
  LET ownTaken == OwnLimit[k] > 0 /\ own[k] > 0
      taken == permits > 0
      pass == (OwnLimit[k] = 0 \/ ownTaken) /\ taken
  IN
  /\ scan[k] = "loops" /\ rest[k] # <<>> /\ threads[k] # <<>>
  /\ own' = [own EXCEPT ![k] = IF ownTaken THEN @ - 1 ELSE @]
  /\ permits' = IF taken THEN permits - 1 ELSE permits
  /\ scan' = [scan EXCEPT ![k] = IF pass THEN "launches" ELSE "reaps"]
  /\ UNCHANGED <<main, rest, threads, worker, mutex, found, shown, faults,
                 broken>>

\* A worker is started for the next target, then noted in the array under
\* threadcount_mutex: a loop that finds it locked for good stays there.
Launches(k) ==
  /\ scan[k] = "launches"
  /\ worker' = [worker EXCEPT ![k][Head(rest[k])].at = "looks"]
  /\ rest' = [rest EXCEPT ![k] = Tail(@)]
  /\ IF broken
     THEN scan' = [scan EXCEPT ![k] = "blocked"] /\ UNCHANGED threads
     ELSE /\ scan' = [scan EXCEPT ![k] = "loops"]
          /\ threads' = [threads EXCEPT ![k] = Append(@, Head(rest[k]))]
  /\ UNCHANGED <<main, permits, own, mutex, found, shown, faults, broken>>

\* No memory for the worker's argument ends the loop (the serial scan
\* allocates none).  A thread that cannot be created costs its target and
\* its permits.  When the array cannot grow, the loop ends with
\* threadcount_mutex locked and the new worker unjoined (the entry it would
\* have had is read all the same, past the array's end; here it is not).
LaunchFails(k) ==
  /\ scan[k] = "launches" /\ faults < MaxFaults
  /\ faults' = faults + 1
  /\ \/ /\ k # "serial"
        /\ scan' = [scan EXCEPT ![k] = "finishes"]
        /\ UNCHANGED <<rest, worker, broken>>
     \/ /\ rest' = [rest EXCEPT ![k] = Tail(@)]
        /\ scan' = [scan EXCEPT ![k] = "loops"]
        /\ UNCHANGED <<worker, broken>>
     \/ /\ ~broken /\ broken' = TRUE
        /\ worker' = [worker EXCEPT ![k][Head(rest[k])].at = "looks"]
        /\ scan' = [scan EXCEPT ![k] = "finishes"]
        /\ UNCHANGED rest
  /\ UNCHANGED <<main, permits, own, threads, mutex, found, shown>>

\* The oldest worker of the array is joined, once it is done, and its
\* permits are given back.
JoinsOldest(k) ==
  /\ threads[k] # <<>>
  /\ worker[k][Head(threads[k])].at = "done"
  /\ threads' = [threads EXCEPT ![k] = Tail(@)]
  /\ permits' = permits + 1
  /\ own' = [own EXCEPT ![k] = IF OwnLimit[k] > 0 THEN @ + 1 ELSE @]

\* No permit was left: all workers of the array are joined, then the loop
\* goes on with the same target.
Reaps(k) ==
  /\ scan[k] = "reaps"
  /\ JoinsOldest(k)
  /\ scan' = [scan EXCEPT ![k] = IF Tail(threads[k]) = <<>> THEN "loops" ELSE @]
  /\ UNCHANGED <<main, rest, worker, mutex, found, shown, faults, broken>>

\* After the last target the remaining workers are joined.
Finishes(k) ==
  /\ \/ scan[k] = "loops" /\ rest[k] = <<>>
     \/ scan[k] = "finishes"
  /\ IF threads[k] # <<>>
     THEN JoinsOldest(k) /\ scan' = [scan EXCEPT ![k] = "finishes"]
     ELSE /\ scan' = [scan EXCEPT ![k] = "returned"]
          /\ UNCHANGED <<threads, permits, own>>
  /\ UNCHANGED <<main, rest, worker, mutex, found, shown, faults, broken>>

-----------------------------------------------------------------------------
(* The workers *)

\* A worker that found another device takes dev_mutex and walks to the end
\* of the list.
WalksToEnd(k, t) ==
  /\ worker[k][t].at = "looks"
  /\ worker[k][t].added < Targets[k][t]
  /\ mutex[k] = 0
  /\ mutex' = [mutex EXCEPT ![k] = t]
  /\ worker' = [worker EXCEPT ![k][t].at = "links",
                              ![k][t].end = Len(found[k])]
  /\ UNCHANGED <<main, scan, rest, permits, own, threads, found, shown, faults,
                 broken>>

\* It hangs its device behind the one it took for the last, making it the
\* end of the list (nutscan_add_device_to_device), and releases dev_mutex.
LinksDevice(k, t) ==
  LET w == worker[k][t]
      device == [kind |-> k, target |-> t, nth |-> w.added + 1]
  IN
  /\ w.at = "links"
  /\ found' = [found EXCEPT ![k] = Append(SubSeq(@, 1, w.end), device)]
  /\ worker' = [worker EXCEPT ![k][t].at = "looks", ![k][t].added = @ + 1]
  /\ mutex' = [mutex EXCEPT ![k] = 0]
  /\ UNCHANGED <<main, scan, rest, permits, own, threads, shown, faults, broken>>

\* A worker that finds nothing more ends.
WorkerEnds(k, t) ==
  /\ worker[k][t].at = "looks"
  /\ worker[k][t].added = Targets[k][t]
  /\ worker' = [worker EXCEPT ![k][t].at = "done"]
  /\ UNCHANGED <<main, scan, rest, permits, own, threads, mutex, found, shown,
                 faults, broken>>

-----------------------------------------------------------------------------
PoolInit ==
  /\ \E asked \in ScanSets : main = [does |-> "starts", todo |-> Order, asked |-> asked]
  /\ scan = [k \in Kinds |-> "off"]
  /\ rest = [k \in Kinds |-> <<>>]
  /\ permits = MaxThreads
  /\ own = [k \in Kinds |-> 0]
  /\ threads = [k \in Kinds |-> <<>>]
  /\ worker = [k \in Kinds |-> [t \in DOMAIN Targets[k] |->
                                  [at |-> "none", added |-> 0, end |-> 0]]]
  /\ mutex = [k \in Kinds |-> 0]
  /\ found = [k \in Kinds |-> <<>>]
  /\ shown = [k \in Kinds |-> <<>>]
  /\ faults = 0
  /\ broken = FALSE

\* One file's copy of the loop: the thread of the scan and its workers.
ScanIpRange(k) ==
  \/ Begins(k) \/ Waits(k) \/ Tries(k) \/ Launches(k) \/ LaunchFails(k)
  \/ Reaps(k) \/ Finishes(k)
  \/ \E t \in DOMAIN Targets[k] :
       WalksToEnd(k, t) \/ LinksDevice(k, t) \/ WorkerEnds(k, t)

nutscan_scan_ip_range_nut == ScanIpRange("nut")
nutscan_scan_ip_range_snmp == ScanIpRange("snmp")
nutscan_scan_ip_range_xml_http == ScanIpRange("xml")
nutscan_scan_ip_range_ipmi == ScanIpRange("ipmi")
nutscan_scan_eaton_serial == ScanIpRange("serial")

PoolNext ==
  \/ MainStarts \/ MainMoves
  \/ nutscan_scan_ip_range_nut \/ nutscan_scan_ip_range_snmp
  \/ nutscan_scan_ip_range_xml_http \/ nutscan_scan_ip_range_ipmi
  \/ nutscan_scan_eaton_serial
  \/ \E k \in Kinds \ Pooled : Begins(k)

-----------------------------------------------------------------------------
Allocated == DOMAIN heap

(* nutscan-device.c *)

\* The last device reached from d along the field f, or 0 if the list has
\* none; d may be 0 (NULL).
Along(h, f, d) ==
  LET Step(x) == IF x = 0 \/ h[x][f] = 0 THEN x ELSE h[x][f]
      to[n \in 0 .. Len(h)] == IF n = 0 THEN d ELSE Step(to[n - 1])
      last == to[Len(h)]
  IN IF last # 0 /\ h[last][f] # 0 THEN 0 ELSE last

Endless(h, f, d) == d # 0 /\ Along(h, f, d) = 0

nutscan_rewind_device(h, d) == Along(h, "prev", d)

\* The end of the first list is joined to the start of the second, and the
\* end of both is returned; equal pointers are left alone.
nutscan_add_device_to_device(h, first, second) ==
  LET dev1 == Along(h, "next", first)
      dev2 == Along(h, "prev", second)
      early == \/ first # 0 /\ Endless(h, "next", first)
               \/ first # 0 /\ Endless(h, "prev", second)
      joined == IF first # 0 /\ second # 0 /\ ~early
                THEN [[h EXCEPT ![dev1].next = dev2] EXCEPT ![dev2].prev = dev1]
                ELSE h
      from == IF second = 0 THEN first ELSE IF first = 0 THEN second ELSE dev2
  IN
  IF first = second THEN [heap |-> h, ret |-> first, hung |-> FALSE]
  ELSE IF early THEN [heap |-> h, ret |-> 0, hung |-> TRUE]
  ELSE [heap |-> joined, ret |-> Along(joined, "next", from),
        hung |-> Endless(joined, "next", from)]

\* n new devices are added to the list of ret one by one.
Collect(h, ret, n) ==
  LET after[k \in 0 .. n] ==
        IF k = 0 THEN [heap |-> h, ret |-> ret, hung |-> FALSE]
        ELSE LET b == after[k - 1] IN
             IF b.hung THEN b
             ELSE nutscan_add_device_to_device(Append(b.heap, [next |-> 0, prev |-> 0]), b.ret,
                                               Len(b.heap) + 1)
  IN after[n]

\* The devices nutscan_free_device frees, given one of a list: all before it
\* and all after it, then itself.
Chain(h, d) ==
  LET Near(D) == D \cup UNION {{h[x].prev, h[x].next} \ {0} : x \in D}
      near[n \in 0 .. Len(h)] == IF n = 0 THEN {d} \ {0} ELSE Near(near[n - 1])
  IN near[Len(h)]

-----------------------------------------------------------------------------
(* The scans *)

\* nutscan_scan_nut for one address: the devices found are added to dev_ret,
\* and all of dev_ret is returned, rewound; it is not cleared.
AskUpsd(n) ==
  LET c == Collect(heap, nut_ret, n) IN
  [heap |-> c.heap, dev_ret |-> c.ret,
   ret |-> IF c.hung THEN 0 ELSE nutscan_rewind_device(c.heap, c.ret),
   hung |-> c.hung \/ Endless(c.heap, "prev", c.ret)]

\* main's own scan of a range of addresses.
NutScan(n) ==
  LET a == AskUpsd(n) IN
  /\ scans.nut = "runs" /\ ~hung
  /\ Len(heap) + n <= MaxDevices
  /\ heap' = a.heap
  /\ nut_ret' = a.dev_ret
  /\ hung' = a.hung
  /\ calls' = calls + 1
  /\ scans' = [scans EXCEPT !.nut = "returned"]
  /\ kept' = [kept EXCEPT !.nut = a.ret]
  /\ UNCHANGED <<avahi_ret, resolved, freed>>

\* update_device for a service whose text lists devices.
ServiceLists(s) ==
  LET c == Collect(heap, avahi_ret, s.listed) IN
  /\ s.listed > 0
  /\ heap' = c.heap
  /\ avahi_ret' = c.ret
  /\ hung' = c.hung
  /\ UNCHANGED <<nut_ret, calls>>

\* update_device for one that lists none: its upsd is asked, and what that
\* returns is joined to the list; if that is nothing, the service itself is
\* added.
ServiceAsked(s) ==
  LET a == AskUpsd(s.found)
      c == IF a.ret = 0 THEN Collect(a.heap, avahi_ret, 1)
           ELSE nutscan_add_device_to_device(a.heap, avahi_ret, a.ret)
  IN
  /\ s.listed = 0
  /\ nut_ret' = a.dev_ret
  /\ calls' = calls + 1
  /\ IF a.hung
     THEN heap' = a.heap /\ UNCHANGED avahi_ret
     ELSE heap' = c.heap /\ avahi_ret' = c.ret
  /\ hung' = (a.hung \/ c.hung)

\* resolve_callback: a service was found.  One that cannot be resolved
\* changes nothing.
Resolves(s) ==
  /\ scans.avahi = "runs" /\ ~hung
  /\ resolved < MaxServices
  /\ Len(heap) + s.listed + s.found + 1 <= MaxDevices
  /\ resolved' = resolved + 1
  /\ ServiceLists(s) \/ ServiceAsked(s)
  /\ UNCHANGED <<scans, kept, freed>>

\* browse_callback or client_callback ends the main loop: everything was
\* reported, or the browser or the connection to the daemon failed.
AvahiEnds ==
  /\ scans.avahi = "runs" /\ ~hung
  /\ scans' = [scans EXCEPT !.avahi = "returned"]
  /\ kept' = [kept EXCEPT !.avahi = nutscan_rewind_device(heap, avahi_ret)]
  /\ hung' = Endless(heap, "prev", avahi_ret)
  /\ UNCHANGED <<heap, nut_ret, avahi_ret, calls, resolved, freed>>

\* main frees the lists, that of the nut scan first.
MainFrees ==
  /\ \A k \in {"nut", "avahi"} : scans[k] # "runs"
  /\ ~hung /\ scans.main = "runs"
  /\ freed' = [d \in Allocated |->
                 Cardinality({k \in DOMAIN kept : d \in Chain(heap, kept[k])})]
  /\ scans' = [scans EXCEPT !.main = "returned"]
  /\ UNCHANGED <<heap, nut_ret, avahi_ret, calls, resolved, kept, hung>>

ListsInit ==
  /\ heap = <<>>
  /\ nut_ret = 0 /\ avahi_ret = 0
  /\ calls = 0
  /\ resolved = 0
  /\ \E nut, avahi \in {"off", "runs"} :
       scans = [nut |-> nut, avahi |-> avahi, main |-> "runs"]
  /\ kept = [nut |-> 0, avahi |-> 0]
  /\ freed = <<>>
  /\ hung = FALSE

ListsNext ==
  \/ \E n \in 0 .. MaxServices : NutScan(n)
  \/ \E s \in Services : Resolves(s)
  \/ AvahiEnds
  \/ MainFrees

-----------------------------------------------------------------------------
(* Properties *)

\* At no time do more workers run than max_threads allows, nor more of one
\* kind than that kind's own limit allows, whatever permits were lost on the
\* way (nutscan_init, the sem_init and sem_trywait of each loop).
ThreadsBounded ==
  /\ MapThenSumSet(LAMBDA k : Cardinality(Alive(k)), Kinds) <= MaxThreads
  /\ \A k \in Kinds : OwnLimit[k] > 0 => Cardinality(Alive(k)) <= OwnLimit[k]

\* The permits that trying only one of the two semaphores loses never
\* exhaust them: of each semaphore one permit is always free or held by a
\* worker (or by a loop about to start one) that will give it back.
PermitsLast ==
  LET Held(k) == Len(threads[k]) + (IF scan[k] = "launches" THEN 1 ELSE 0) IN
  faults = 0 =>
    /\ permits + MapThenSumSet(Held, Kinds) >= 1
    /\ \A k \in Kinds :
         scan[k] \notin {"off", "begins"} /\ OwnLimit[k] > 0 =>
           own[k] + Held(k) >= 1

\* What main shows of a scan over targets is every device its workers found,
\* each once: none is lost to two workers adding at the same time, and no
\* worker is still adding when the list is shown (main, the dev_mutex of
\* every scan, nutscan_add_device_to_device).
EveryDeviceShown ==
  main.does = "ended" /\ faults = 0 =>
    \A k \in Pooled :
      Wanted(k) /\ Targets[k] # <<>> =>
        LET devices == {[kind |-> k, target |-> t, nth |-> n] :
                          t \in DOMAIN Targets[k], n \in 1 .. Max(Range(Targets[k]))}
        IN /\ Range(shown[k]) = {d \in devices : d.nth <= Targets[k][d.target]}
           /\ Cardinality(Range(shown[k])) = Len(shown[k])

PoolSafe == ThreadsBounded /\ PermitsLast /\ EveryDeviceShown

\* As long as nothing failed, the scanner is never stuck before main has
\* shown everything: some thread can always go on, although loops wait for
\* permits that others hold, main waits for the loops, and permits get lost
\* (sem_wait in the loops, pthread_join in main).
NeverStuck ==
  faults = 0 /\ main.does # "ended" => ENABLED PoolNext

\* If nutscan_scan_nut is called at most once, however many devices the
\* services list, no loop along a list runs on for ever, and main frees each
\* device once and leaves none (nutscan_add_device_to_device, update_device,
\* nutscan_free_device).
ListsSafe ==
  calls <= 1 =>
    /\ ~hung
    /\ scans.main = "returned" => \A d \in Allocated : freed[d] = 1
=============================================================================
