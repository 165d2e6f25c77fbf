---------------------------- MODULE MigDumper_proof ----------------------------
(***************************************************************************)
(* Proofs about MigDumper, for every set of threads and every length of    *)
(* the queues: threads are joined once, dumps run one at a time, and the   *)
(* state follows the reader until a thread overwrites it unseen.           *)
(***************************************************************************)
EXTENDS MigDumper, TLAPS

USE DEF dump, kernel

\* dump_thread is the handle of the dump at work, if there is one, and of a
\* thread that can be joined, if it is of any.
Handles ==
    /\ \A t \in Threads : threads[t] = "created" => handle = t
    /\ dumpActive <=> \E t \in Threads : threads[t] = "created"
    /\ Listening /\ state = "BUSY" => dumpActive
    /\ caller \notin {"idle", "scanning"} => initialized
    /\ caller \in {"joined", "unmounting"} => ~dumpActive
    /\ ~Listening => ~dumpActive
    /\ Listening /\ caller \notin {"joined", "unmounting"} /\ handle \in Threads
         => threads[handle] # "none"
    /\ caller \in {"joining", "exit joining"} => handle # None
    /\ caller = "exit joining" => handle \in Threads

\* Who scans, and that the monitor ends before the library is closed.
Scans ==
    /\ scan["caller"] # "off" <=> caller = "scanning"
    /\ scan["monitor"] # "off" <=> monitor = "scanning"
    /\ ~Listening => monitor = "none"
    /\ caller \in {"monitor stopped", "exit joining", "unmounting"} =>
           monitor = "none"

\* One mount for each scanner that has mounted and not told yet, and one for
\* the state that says so.
One(b) == IF b THEN 1 ELSE 0

MountsCover ==
    Listening /\ ~revived =>
        One(scan["caller"] = "mounted") + One(scan["monitor"] = "mounted")
          + One(state \in Connected) <= One(mounted) + stale

\* A reader that is gone has its removal in the queue, or it is no longer
\* connected and no scanner will make it so unseen.
RemovalPending == \E i \in 1 .. Len(events) : events[i] = "remove"

Noticed ==
    Listening /\ ~revived /\ ~plugged
      /\ monitor \in {"testing", "waiting", "scanning"} =>
        \/ RemovalPending
        \/ /\ state \notin Connected
           /\ scan["monitor"] \in {"off", "done"}
           /\ scan["caller"] = "mounted" => state = "DISCONNECTED"

\* The inductive invariant.
IInv == TypeOK /\ Handles /\ Scans /\ MountsCover /\ Noticed

-------------------------------------------------------------------------------
\* Nothing is wrong before the first call.
LEMMA Initially == Init => IInv
<1>. SUFFICES ASSUME Init PROVE IInv
    OBVIOUS
<1>1. TypeOK
  <2>1. events \in Seq({"add", "remove"})
      BY DEF Init
  <2>2. stale \in 0 .. MaxStale
      BY DumperAssumption DEF Init
  <2>. QED
      BY <2>1, <2>2, DumperAssumption
         DEF Init, TypeOK, States, CallerSteps, Scanners
<1>2. Handles
    BY DumperAssumption DEF Init, Handles, Listening
<1>3. Scans
    BY DEF Init, Scans, Scanners, Listening
<1>4. MountsCover /\ Noticed
    BY DEF Init, MountsCover, Noticed, Listening
<1>. QED
    BY <1>1, <1>2, <1>3, <1>4 DEF IInv

\* Handles is kept by the steps that leave the dumps and the caller alone and
\* set no state to BUSY.
LEMMA HandlesFrame ==
    ASSUME Handles, UNCHANGED <<initialized, dump, caller>>,
           state' \in {state} \cup (States \ {"BUSY"})
    PROVE  Handles'
BY DEF Handles, Listening, States

\* Nobody else touches the handle between its test and its use.
LEMMA HandlesKept == IInv /\ Next => Handles'
<1>. SUFFICES ASSUME TypeOK, Handles, Next PROVE Handles'
    BY DEF IInv
<1>. USE DumperAssumption
<1>1. ASSUME NEW d \in Scanners, Scan(d) PROVE Handles'
    BY <1>1, HandlesFrame DEF Scan, ScanMounting, ScanMount, ScanReady,
                              ScanError, States
<1>2. CASE Monitor
    BY <1>1, <1>2, HandlesFrame DEF Monitor, MonitorTest, MonitorTimeout,
         MonitorAdd, MonitorScanned, MonitorRemove, States, Scanners
<1>3. CASE User
  <2>1. CASE PlugIn \/ PullOut \/ OtherDevice
      BY <2>1, HandlesFrame DEF PlugIn, PullOut, OtherDevice
  <2>2. CASE Restart
      BY <2>2 DEF Restart, Handles, Listening
  <2>. QED
      BY <1>3, <2>1, <2>2 DEF User
<1>4. CASE Dump
  <2>. PICK t \in Threads : DumpEnds(t) \/ DumpReturns(t)
      BY <1>4 DEF Dump
  <2>1. CASE DumpEnds(t)
      BY <2>1 DEF DumpEnds, Handles, TypeOK, Listening
  <2>2. CASE DumpReturns(t)
      BY <2>2 DEF DumpReturns, Handles, TypeOK, Listening
  <2>. QED
      BY <2>1, <2>2
<1>5. CASE Call
  <2>1. CASE MigInit
      BY <1>5, <2>1 DEF MigInit, CallerAt, Handles, Listening
  <2>2. CASE Rescan
      BY <2>2 DEF Rescan, Idle, CallerAt, Handles, Listening
  <2>3. CASE Eject
      BY <2>3, HandlesFrame DEF Eject, States
  <2>4. CASE StartCheck
      BY <2>4 DEF StartCheck, Idle, CallerAt, Handles, Listening
  <2>5. CASE WaitCheck
      BY <2>5 DEF WaitCheck, Idle, CallerAt, Handles, Listening
  <2>6. CASE ExitBegin
      BY <2>6 DEF ExitBegin, Idle, CallerAt, Handles, Listening
  <2>. QED
      BY <1>5, <2>1, <2>2, <2>3, <2>4, <2>5, <2>6 DEF Call
<1>6. CASE CallContinues
  <2>1. CASE Scan("caller")
      BY <1>1, <2>1 DEF Scanners
  <2>2. CASE CallerScanned
      BY <2>2 DEF CallerScanned, CallerAt, Handles, Listening
  <2>3. CASE StartRefused
      BY <2>3 DEF StartRefused, CallerAt, Handles, Listening
  <2>4. ASSUME NEW t \in Threads, StartRuns(t) PROVE Handles'
      BY <2>4 DEF StartRuns, CallerAt, Handles, Listening, TypeOK
  <2>5. CASE StartFails
      BY <2>5 DEF StartFails, CallerAt, Handles, Listening, TypeOK
  <2>6. CASE Join("joining", "joined")
      BY <2>6 DEF Join, CallerAt, Handles, Listening, TypeOK
  <2>7. CASE WaitEnd
      BY <2>7 DEF WaitEnd, CallerAt, Handles, Listening
  <2>8. CASE ExitJoinsMonitor
      BY <2>8 DEF ExitJoinsMonitor, CallerAt, Handles, Listening
  <2>9. CASE ExitReadsActive
      BY <2>9 DEF ExitReadsActive, CallerAt, Handles, Listening
  <2>10. CASE Join("exit joining", "unmounting")
      BY <2>10 DEF Join, CallerAt, Handles, Listening, TypeOK
  <2>11. CASE ExitEnd
      BY <2>11 DEF ExitEnd, CallerAt, Handles, Listening
  <2>. QED
      BY <1>6, <2>1, <2>2, <2>3, <2>4, <2>5, <2>6, <2>7, <2>8, <2>9, <2>10,
         <2>11 DEF CallContinues
<1>. QED
    BY <1>2, <1>3, <1>4, <1>5, <1>6 DEF Next

\* A scan is over before its thread goes on, and the monitor is joined before
\* the library closes.
LEMMA ScansKept == IInv /\ Next => Scans'
<1>. SUFFICES ASSUME TypeOK, Handles, Scans, Next PROVE Scans'
    BY DEF IInv
<1>1. ASSUME NEW d \in Scanners, Scan(d) PROVE Scans'
  <2>1. scan \in [Scanners -> {"off", "found", "mounting", "mounted", "failed",
                               "done"}]
      BY DEF TypeOK
  <2>. QED
      BY <1>1, <2>1 DEF Scan, ScanMounting, ScanMount, ScanReady, ScanError,
                        Scans, Scanners, Listening
<1>2. CASE Monitor
  <2>1. CASE MonitorTest
      BY <2>1 DEF MonitorTest, Scans, Listening
  <2>2. CASE MonitorTimeout
      BY <2>2 DEF MonitorTimeout, Scans, Listening
  <2>3. CASE MonitorAdd
      BY <2>3 DEF MonitorAdd, ScanBegin, Scans, Scanners, TypeOK, Listening
  <2>4. CASE MonitorScanned
      BY <2>4 DEF MonitorScanned, Scans, Scanners, TypeOK, Listening
  <2>5. CASE MonitorRemove
      BY <2>5 DEF MonitorRemove, Scans, Listening
  <2>. QED
      BY <1>1, <1>2, <2>1, <2>2, <2>3, <2>4, <2>5 DEF Monitor, Scanners
<1>3. CASE User
    BY <1>3 DEF User, PlugIn, PullOut, OtherDevice, Restart, Scans, Scanners, Listening
<1>4. CASE Dump
  <2>. PICK t \in Threads : DumpEnds(t) \/ DumpReturns(t)
      BY <1>4 DEF Dump
  <2>1. UNCHANGED <<initialized, caller, monitor, scan>>
      BY DEF DumpEnds, DumpReturns
  <2>. QED
      BY <2>1 DEF Scans, Listening
<1>5. CASE Call
  <2>1. CASE MigInit
      BY <2>1 DEF MigInit, CallerAt, ScanBegin, Scans, Scanners, TypeOK,
                  Listening
  <2>2. CASE Rescan
      BY <2>2 DEF Rescan, Idle, CallerAt, ScanBegin, Scans, Scanners, TypeOK,
                  Listening
  <2>3. CASE Eject
      BY <2>3 DEF Eject, Scans, Listening
  <2>4. CASE StartCheck \/ WaitCheck \/ ExitBegin
      BY <2>4 DEF StartCheck, WaitCheck, ExitBegin, Idle, CallerAt, Scans,
                  Listening
  <2>. QED
      BY <1>5, <2>1, <2>2, <2>3, <2>4 DEF Call
<1>6. CASE CallContinues
  <2>1. CASE CallerScanned
      BY <2>1 DEF CallerScanned, CallerAt, Scans, Scanners, TypeOK, Listening
  <2>2. CASE StartRefused \/ StartFails \/ WaitEnd
      BY <2>2 DEF StartRefused, StartFails, WaitEnd, CallerAt, Scans, Handles,
                  Listening
  <2>3. ASSUME NEW t \in Threads, StartRuns(t) PROVE Scans'
      BY <2>3 DEF StartRuns, CallerAt, Scans, Handles, Listening
  <2>4. CASE Join("joining", "joined") \/ Join("exit joining", "unmounting")
      BY <2>4 DEF Join, CallerAt, Scans, Handles, Listening
  <2>5. CASE ExitJoinsMonitor \/ ExitReadsActive \/ ExitEnd
      BY <2>5 DEF ExitJoinsMonitor, ExitReadsActive, ExitEnd, CallerAt, Scans,
                  Handles, Listening
  <2>. QED
      BY <1>1, <1>6, <2>1, <2>2, <2>3, <2>4, <2>5 DEF CallContinues, Scanners
<1>. QED
    BY <1>2, <1>3, <1>4, <1>5, <1>6 DEF Next

\* MountsCover is kept by the steps that change nothing it counts.
LEMMA CoverFrame ==
    ASSUME MountsCover, UNCHANGED <<state, scan, mounted, stale>>,
           Listening' => Listening, revived => revived'
    PROVE  MountsCover'
BY DEF MountsCover, Connected

\* Every mount is counted once: by its scanner, by the state, or not at all.
LEMMA CoverKept == IInv /\ Next => MountsCover'
<1>. SUFFICES ASSUME TypeOK, Handles, Scans, MountsCover, Next
              PROVE  MountsCover'
    BY DEF IInv
<1>. USE DumperAssumption DEF Connected, One
<1>0. /\ stale \in Nat /\ mounted \in BOOLEAN /\ revived \in BOOLEAN
      /\ scan \in [Scanners -> {"off", "found", "mounting", "mounted", "failed",
                                "done"}]
    BY DEF TypeOK
<1>1. ASSUME NEW d \in Scanners, Scan(d) PROVE MountsCover'
  <2>. USE <1>0 DEF MountsCover, Listening, Scanners
  <2>1. CASE ScanMounting(d)
      BY <2>1 DEF ScanMounting
  <2>2. CASE ScanMount(d)
      BY <2>2 DEF ScanMount
  <2>3. CASE ScanReady(d)
      BY <2>3 DEF ScanReady
  <2>4. CASE ScanError(d)
      BY <2>4 DEF ScanError
  <2>. QED
      BY <1>1, <2>1, <2>2, <2>3, <2>4 DEF Scan
<1>2. CASE Monitor
  <2>1. CASE MonitorTest
      BY <2>1, CoverFrame DEF MonitorTest, Listening
  <2>2. CASE MonitorTimeout
      BY <2>2, CoverFrame DEF MonitorTimeout, Listening
  <2>3. CASE MonitorAdd
      BY <2>3, <1>0 DEF MonitorAdd, ScanBegin, MountsCover, Listening, Scanners
  <2>4. CASE MonitorScanned
      BY <2>4, <1>0 DEF MonitorScanned, MountsCover, Listening, Scanners
  <2>5. CASE MonitorRemove
      BY <2>5, <1>0 DEF MonitorRemove, MountsCover, Listening, Scanners
  <2>. QED
      BY <1>1, <1>2, <2>1, <2>2, <2>3, <2>4, <2>5 DEF Monitor, Scanners
<1>3. CASE User
  <2>1. CASE PlugIn \/ OtherDevice
      BY <2>1, CoverFrame DEF PlugIn, OtherDevice, Listening
  <2>2. CASE PullOut
      BY <2>2, <1>0 DEF PullOut, MountsCover, Listening, Scanners
  <2>3. CASE Restart
      BY <2>3 DEF Restart, MountsCover, Listening
  <2>. QED
      BY <1>3, <2>1, <2>2, <2>3 DEF User
<1>4. CASE Dump
  <2>. PICK t \in Threads : DumpEnds(t) \/ DumpReturns(t)
      BY <1>4 DEF Dump
  <2>1. CASE DumpEnds(t)
      BY <2>1, <1>0 DEF DumpEnds, MountsCover, Listening, Scanners
  <2>2. CASE DumpReturns(t)
      BY <2>2, CoverFrame DEF DumpReturns, Listening
  <2>. QED
      BY <2>1, <2>2
<1>5. CASE Call
  <2>1. CASE MigInit
    <3>1. scan["monitor"] = "off"
        BY <2>1, <1>0 DEF MigInit, CallerAt, Listening, Scans, Scanners
    <3>. QED
        BY <2>1, <3>1, <1>0 DEF MigInit, ScanBegin, MountsCover, Scanners
  <2>2. CASE Rescan
      BY <2>2, <1>0 DEF Rescan, Idle, CallerAt, ScanBegin, MountsCover,
                        Listening, Scanners
  <2>3. CASE Eject
      BY <2>3, <1>0 DEF Eject, Idle, CallerAt, Unmount, MountsCover, Listening,
                        Scanners
  <2>4. CASE StartCheck \/ WaitCheck \/ ExitBegin
      BY <2>4, CoverFrame DEF StartCheck, WaitCheck, ExitBegin, Idle, Listening
  <2>. QED
      BY <1>5, <2>1, <2>2, <2>3, <2>4 DEF Call
<1>6. CASE CallContinues
  <2>1. CASE CallerScanned
      BY <2>1, <1>0 DEF CallerScanned, CallerAt, MountsCover, Listening,
                        Scanners
  <2>2. CASE StartRefused \/ WaitEnd \/ ExitJoinsMonitor \/ ExitReadsActive
    <3>1. /\ UNCHANGED <<state, scan, mounted, stale, initialized, revived>>
          /\ caller' # "scanning"
        BY <2>2 DEF StartRefused, WaitEnd, ExitJoinsMonitor, ExitReadsActive
    <3>. QED
        BY <3>1, CoverFrame DEF Listening
  <2>3. CASE Join("joining", "joined") \/ Join("exit joining", "unmounting")
    <3>1. /\ UNCHANGED <<state, scan, mounted, stale, initialized, revived>>
          /\ caller' # "scanning"
        BY <2>3 DEF Join
    <3>. QED
        BY <3>1, CoverFrame DEF Listening
  <2>4. ASSUME NEW t \in Threads, StartRuns(t) PROVE MountsCover'
      BY <2>4, <1>0 DEF StartRuns, CallerAt, MountsCover, Listening, Scanners
  <2>5. CASE StartFails
      BY <2>5, <1>0 DEF StartFails, CallerAt, MountsCover, Listening, Scanners
  <2>6. CASE ExitEnd
      BY <2>6 DEF ExitEnd, MountsCover, Listening
  <2>. QED
      BY <1>1, <1>6, <2>1, <2>2, <2>3, <2>4, <2>5, <2>6
         DEF CallContinues, Scanners
<1>. QED
    BY <1>2, <1>3, <1>4, <1>5, <1>6 DEF Next

-------------------------------------------------------------------------------
\* An event that is appended disturbs none that waits.
LEMMA NotifyKeeps ==
    ASSUME events \in Seq({"add", "remove"}), NEW e \in {"add", "remove"},
           Notify(e)
    PROVE  /\ events' \in Seq({"add", "remove"})
           /\ RemovalPending => RemovalPending'
           /\ Listening /\ e = "remove" => RemovalPending'
<1>1. CASE ~Listening
    BY <1>1 DEF Notify, RemovalPending
<1>2. CASE Listening
  <2>. PICK n \in 1 .. 2 : events' = events \o [i \in 1 .. n |-> e]
      BY <1>2 DEF Notify
  <2>1. [i \in 1 .. n |-> e] \in Seq({"add", "remove"})
      OBVIOUS
  <2>2. Len([i \in 1 .. n |-> e]) = n
      OBVIOUS
  <2>3. /\ events' \in Seq({"add", "remove"})
        /\ Len(events') = Len(events) + n
      BY <2>1, <2>2
  <2>4. \A i \in 1 .. Len(events) : events'[i] = events[i]
      BY <2>1, <2>2
  <2>5. events'[Len(events) + 1] = e
      BY <2>1, <2>2
  <2>. QED
      BY <2>3, <2>4, <2>5, <1>2 DEF RemovalPending
<1>. QED
    BY <1>1, <1>2

\* Taking another event leaves a removal in the queue.
LEMMA AddKeeps ==
    ASSUME events \in Seq({"add", "remove"}), events # <<>>,
           Head(events) = "add", events' = Tail(events), RemovalPending
    PROVE  RemovalPending'
<1>1. PICK i \in 1 .. Len(events) : events[i] = "remove"
    BY DEF RemovalPending
<1>2. i # 1
    BY <1>1
<1>3. i - 1 \in 1 .. Len(events') /\ events'[i - 1] = events[i]
    BY <1>2
<1>. QED
    BY <1>1, <1>3 DEF RemovalPending

\* A removal that was handled is not undone by anyone who looks at the state.
LEMMA NoticedKept == IInv /\ Next => Noticed'
<1>. SUFFICES ASSUME TypeOK, Handles, Scans, Noticed, Next PROVE Noticed'
    BY DEF IInv
<1>. USE DumperAssumption DEF Connected
<1>0. /\ plugged \in BOOLEAN /\ revived \in BOOLEAN
      /\ scan \in [Scanners -> {"off", "found", "mounting", "mounted", "failed",
                                "done"}]
      /\ events \in Seq({"add", "remove"})
    BY DEF TypeOK
<1>1. ASSUME NEW d \in Scanners, Scan(d) PROVE Noticed'
  <2>. USE <1>0 DEF Noticed, RemovalPending, Listening, Scanners
  <2>1. CASE ScanMounting(d)
      BY <2>1 DEF ScanMounting
  <2>2. CASE ScanMount(d)
      BY <2>2 DEF ScanMount
  <2>3. CASE ScanReady(d)
      BY <2>3 DEF ScanReady
  <2>4. CASE ScanError(d)
      BY <2>4 DEF ScanError
  <2>. QED
      BY <1>1, <2>1, <2>2, <2>3, <2>4 DEF Scan
<1>2. CASE Monitor
  <2>1. CASE MonitorTest
      BY <2>1 DEF MonitorTest, Noticed, RemovalPending, Listening
  <2>2. CASE MonitorTimeout
      BY <2>2 DEF MonitorTimeout, Noticed, RemovalPending, Listening
  <2>3. CASE MonitorAdd
    <3>1. RemovalPending => RemovalPending'
        BY <2>3, <1>0, AddKeeps DEF MonitorAdd
    <3>. QED
        BY <2>3, <3>1, <1>0 DEF MonitorAdd, ScanBegin, Noticed, Listening,
                                Scanners
  <2>4. CASE MonitorScanned
      BY <2>4, <1>0 DEF MonitorScanned, Noticed, RemovalPending, Listening,
                        Scanners
  <2>5. CASE MonitorRemove
      BY <2>5, <1>0 DEF MonitorRemove, Scans, Noticed, Scanners
  <2>. QED
      BY <1>1, <1>2, <2>1, <2>2, <2>3, <2>4, <2>5 DEF Monitor, Scanners
<1>3. CASE User
  <2>1. CASE PlugIn
      BY <2>1 DEF PlugIn, Noticed
  <2>2. CASE PullOut
    <3>1. Listening => RemovalPending'
        BY <2>2, <1>0, NotifyKeeps DEF PullOut
    <3>. QED
        BY <2>2, <3>1 DEF PullOut, Noticed, Listening
  <2>3. CASE OtherDevice
    <3>1. RemovalPending => RemovalPending'
        BY <2>3, <1>0, NotifyKeeps DEF OtherDevice
    <3>. QED
        BY <2>3, <3>1 DEF OtherDevice, Noticed, Listening
  <2>4. CASE Restart
      BY <2>4 DEF Restart, Noticed, Listening
  <2>. QED
      BY <1>3, <2>1, <2>2, <2>3, <2>4 DEF User
<1>4. CASE Dump
  <2>. PICK t \in Threads : DumpEnds(t) \/ DumpReturns(t)
      BY <1>4 DEF Dump
  <2>1. CASE DumpEnds(t)
      BY <2>1, <1>0 DEF DumpEnds, Noticed, RemovalPending, Listening
  <2>2. CASE DumpReturns(t)
      BY <2>2 DEF DumpReturns, Noticed, RemovalPending, Listening
  <2>. QED
      BY <2>1, <2>2
<1>5. CASE Call
  <2>1. CASE MigInit
    <3>1. scan["monitor"] = "off"
        BY <2>1, <1>0 DEF MigInit, CallerAt, Listening, Scans, Scanners
    <3>. QED
        BY <2>1, <3>1, <1>0 DEF MigInit, ScanBegin, Noticed, Scanners
  <2>2. CASE Rescan
      BY <2>2, <1>0 DEF Rescan, Idle, CallerAt, ScanBegin, Noticed,
           RemovalPending, Listening, Scanners
  <2>3. CASE Eject
      BY <2>3, <1>0 DEF Eject, Unmount, Noticed, RemovalPending, Listening
  <2>4. CASE StartCheck \/ WaitCheck \/ ExitBegin
    <3>1. UNCHANGED <<state, scan, plugged, events, monitor, initialized,
                      revived>>
        BY <2>4 DEF StartCheck, WaitCheck, ExitBegin
    <3>2. Listening
        BY <2>4 DEF StartCheck, WaitCheck, ExitBegin, Idle, Listening
    <3>. QED
        BY <3>1, <3>2 DEF Noticed, RemovalPending
  <2>. QED
      BY <1>5, <2>1, <2>2, <2>3, <2>4 DEF Call
<1>6. CASE CallContinues
  <2>1. CASE CallerScanned
      BY <2>1, <1>0 DEF CallerScanned, CallerAt, Noticed, RemovalPending,
                        Listening, Scanners
  <2>2. CASE \/ StartRefused \/ WaitEnd \/ ExitReadsActive
             \/ Join("joining", "joined") \/ Join("exit joining", "unmounting")
    <3>1. /\ UNCHANGED <<state, scan, plugged, events, monitor, initialized,
                         revived>>
          /\ caller' # "scanning"
        BY <2>2 DEF StartRefused, WaitEnd, ExitReadsActive, Join
    <3>. QED
        BY <3>1 DEF Noticed, RemovalPending, Listening
  <2>3. CASE ExitJoinsMonitor
      BY <2>3 DEF ExitJoinsMonitor, Noticed
  <2>4. ASSUME NEW t \in Threads, StartRuns(t) PROVE Noticed'
      BY <2>4, <1>0 DEF StartRuns, CallerAt, Noticed, RemovalPending, Listening
  <2>5. CASE StartFails
      BY <2>5, <1>0 DEF StartFails, CallerAt, Noticed, RemovalPending, Listening
  <2>6. CASE ExitEnd
      BY <2>6 DEF ExitEnd, Noticed, Listening
  <2>. QED
      BY <1>1, <1>6, <2>1, <2>2, <2>3, <2>4, <2>5, <2>6
         DEF CallContinues, Scanners
<1>. QED
    BY <1>2, <1>3, <1>4, <1>5, <1>6 DEF Next

\* Only mounting, unmounting and the user change what is mounted.
LEMMA KernelKept ==
    ASSUME TypeOK, Next
    PROVE  /\ plugged' \in BOOLEAN
           /\ mounted' \in BOOLEAN
           /\ mounted' => plugged'
           /\ stale' \in 0 .. MaxStale
<1>. DEFINE Fits == /\ plugged \in BOOLEAN
                    /\ mounted \in BOOLEAN
                    /\ mounted => plugged
<1>0. Fits /\ stale \in 0 .. MaxStale /\ MaxStale \in Nat
    BY DumperAssumption DEF TypeOK
<1>1. CASE UNCHANGED kernel
    BY <1>0, <1>1
<1>2. CASE Unmount
  <2>1. Fits'
      BY <1>0, <1>2 DEF Unmount
  <2>2. stale' \in {stale, stale - 1} /\ (stale' = stale \/ stale > 0)
      BY <1>2 DEF Unmount
  <2>3. stale' \in 0 .. MaxStale
      BY <1>0, <2>2
  <2>. QED
      BY <2>1, <2>3
<1>3. CASE PlugIn
  <2>1. Fits'
      BY <1>0, <1>3 DEF PlugIn
  <2>. QED
      BY <1>0, <1>3, <2>1 DEF PlugIn
<1>4. CASE PullOut
  <2>1. Fits'
      BY <1>0, <1>4 DEF PullOut
  <2>2. stale' = stale \/ (stale < MaxStale /\ stale' = stale + 1)
      BY <1>4 DEF PullOut
  <2>3. stale' \in 0 .. MaxStale
      BY <1>0, <2>2
  <2>. QED
      BY <2>1, <2>3
<1>5. ASSUME NEW d \in Scanners, ScanMount(d) PROVE Fits' /\ stale' = stale
  <2>1. \/ plugged /\ mounted' = TRUE /\ UNCHANGED <<plugged, stale>>
        \/ UNCHANGED <<plugged, mounted, stale>>
      BY <1>5 DEF ScanMount
  <2>2. CASE plugged /\ mounted' = TRUE /\ UNCHANGED <<plugged, stale>>
      BY <1>0, <2>2
  <2>3. CASE UNCHANGED <<plugged, mounted, stale>>
      BY <1>0, <2>3
  <2>. QED
      BY <2>1, <2>2, <2>3
<1>6. ASSUME NEW d \in Scanners, Scan(d) PROVE UNCHANGED kernel \/ ScanMount(d)
    BY <1>6 DEF Scan, ScanMounting, ScanReady, ScanError
<1>7. Call => UNCHANGED kernel \/ Unmount
    BY DEF Call, MigInit, Rescan, Eject, StartCheck, WaitCheck, ExitBegin
<1>8. CallContinues => UNCHANGED kernel \/ Unmount \/ Scan("caller")
    BY DEF CallContinues, CallerScanned, StartRefused, StartRuns, StartFails,
           Join, WaitEnd, ExitJoinsMonitor, ExitReadsActive, ExitEnd
<1>9. Monitor \/ Dump => UNCHANGED kernel \/ Scan("monitor")
    BY DEF Monitor, Dump, MonitorTest, MonitorTimeout, MonitorAdd,
           MonitorScanned, MonitorRemove, DumpEnds, DumpReturns
<1>10. User => UNCHANGED kernel \/ PlugIn \/ PullOut
    BY DEF User, OtherDevice, Restart
<1>11. \/ UNCHANGED kernel \/ Unmount \/ PlugIn \/ PullOut
       \/ \E d \in Scanners : ScanMount(d)
    BY <1>6, <1>7, <1>8, <1>9, <1>10, Zenon DEF Next, Scanners
<1>12. CASE \E d \in Scanners : ScanMount(d)
    BY <1>0, <1>5, <1>12
<1>. QED
    BY <1>1, <1>2, <1>3, <1>4, <1>11, <1>12

\* revived is only set, or cleared by mig_init.
LEMMA RevivedKept ==
    ASSUME TypeOK, Next
    PROVE  revived' \in BOOLEAN
<1>1. revived \in BOOLEAN
    BY DEF TypeOK
<1>2. \/ revived' = revived
      \/ revived' = FALSE
      \/ revived' = (revived \/ state = "DISCONNECTED")
      \/ revived' = (revived \/ state \notin Connected)
      \/ revived' = (revived \/ state # "BUSY")
  <2>1. ASSUME NEW d, Scan(d)
        PROVE  \/ revived' = revived
               \/ revived' = (revived \/ state = "DISCONNECTED")
      BY <2>1, Zenon DEF Scan, ScanMounting, ScanMount, ScanReady, ScanError
  <2>2. CASE Call
      BY <2>2, Zenon DEF Call, MigInit, Rescan, Eject, StartCheck, WaitCheck,
                         ExitBegin
  <2>3. CASE CallContinues
      BY <2>1, <2>3, Zenon DEF CallContinues, CallerScanned, StartRefused,
           StartRuns, StartFails, Join, WaitEnd, ExitJoinsMonitor,
           ExitReadsActive, ExitEnd
  <2>4. CASE Monitor \/ Dump \/ User
      BY <2>1, <2>4, Zenon DEF Monitor, Dump, User, MonitorTest,
           MonitorTimeout, MonitorAdd, MonitorScanned, MonitorRemove, DumpEnds,
           DumpReturns, PlugIn, PullOut, OtherDevice, Restart
  <2>. QED
      BY <2>2, <2>3, <2>4 DEF Next
<1>. QED
    BY <1>1, <1>2, Zenon

\* Events come one by one from the queue, or it is emptied.
LEMMA EventsKept ==
    ASSUME TypeOK, Next
    PROVE  events' \in Seq({"add", "remove"})
<1>0. /\ events \in Seq({"add", "remove"})
      /\ <<>> \in Seq({"add", "remove"})
    BY DEF TypeOK
<1>1. CASE User
    BY <1>0, <1>1, NotifyKeeps DEF User, PlugIn, PullOut, OtherDevice, Restart
<1>2. CASE events # <<>> /\ events' = Tail(events)
    BY <1>0, <1>2
<1>3. CASE events' \in {events, <<>>}
    BY <1>0, <1>3
<1>4. ASSUME NEW d, Scan(d) PROVE events' = events
    BY <1>4 DEF Scan, ScanMounting, ScanMount, ScanReady, ScanError
<1>5. Call => events' \in {events, <<>>}
    BY DEF Call, MigInit, Rescan, Eject, StartCheck, WaitCheck, ExitBegin
<1>6. CallContinues => events' \in {events, <<>>}
    BY <1>4 DEF CallContinues, CallerScanned, StartRefused, StartRuns,
         StartFails, Join, WaitEnd, ExitJoinsMonitor, ExitReadsActive, ExitEnd
<1>7. Dump => events' = events
    BY DEF Dump, DumpEnds, DumpReturns
<1>8. Monitor => events' = events \/ (events # <<>> /\ events' = Tail(events))
    BY <1>4 DEF Monitor, MonitorTest, MonitorTimeout, MonitorAdd,
         MonitorScanned, MonitorRemove
<1>. QED
    BY <1>1, <1>2, <1>3, <1>5, <1>6, <1>7, <1>8 DEF Next

\* TypeOK is kept; what it says of the handle is part of Handles.
LEMMA TypesKept == IInv /\ Next => TypeOK'
<1>. SUFFICES ASSUME IInv, Next PROVE TypeOK'
    OBVIOUS
<1>0. TypeOK /\ Scans /\ Handles'
    BY HandlesKept DEF IInv
<1>. USE DumperAssumption, <1>0
     DEF TypeOK, States, Next, Call, CallContinues, Monitor, Dump, User, Scan,
         MigInit, Rescan, Eject, StartCheck, WaitCheck, ExitBegin,
         CallerScanned, StartRefused, StartRuns, StartFails, Join, WaitEnd,
         ExitJoinsMonitor, ExitReadsActive, ExitEnd, ScanMounting, ScanMount,
         ScanReady, ScanError, MonitorTest, MonitorTimeout, MonitorAdd,
         MonitorScanned, MonitorRemove, DumpEnds, DumpReturns, PlugIn, PullOut,
         OtherDevice, Restart
<1>1. /\ initialized' \in BOOLEAN
      /\ state' \in States
      /\ dumpActive' \in BOOLEAN
      /\ running' \in BOOLEAN
      /\ locked' \in BOOLEAN
    OBVIOUS
<1>2. /\ caller' \in CallerSteps
      /\ monitor' \in {"none", "testing", "waiting", "scanning", "ended",
                       "dangling"}
    BY DEF CallerSteps
<1>3. handle' \in Threads \cup {None, Dangling}
    OBVIOUS
<1>4. initialized' /\ caller' = "idle" /\ handle' \in Threads =>
          threads'[handle'] # "none"
    BY DEF Handles, Listening
<1>5. scan' \in [Scanners -> {"off", "found", "mounting", "mounted", "failed",
                              "done"}]
    BY DEF ScanBegin, Scanners
<1>6. threads' \in [Threads -> {"none", "created", "ending", "ended"}]
    OBVIOUS
<1>7. /\ plugged' \in BOOLEAN
      /\ mounted' \in BOOLEAN
      /\ mounted' => plugged'
      /\ stale' \in 0 .. MaxStale
    BY KernelKept
<1>8. events' \in Seq({"add", "remove"})
    BY EventsKept
<1>9. revived' \in BOOLEAN
    BY RevivedKept
<1>. QED
    BY <1>1, <1>2, <1>3, <1>4, <1>5, <1>6, <1>7, <1>8, <1>9 DEF TypeOK

-------------------------------------------------------------------------------
\* The invariant holds throughout.
THEOREM Invariant == Spec => []IInv
<1>1. Init => IInv
    BY Initially
<1>2. IInv /\ [Next]_vars => IInv'
  <2>1. ASSUME IInv, Next PROVE IInv'
      BY <2>1, TypesKept, HandlesKept, ScansKept, CoverKept, NoticedKept
         DEF IInv
  <2>2. ASSUME IInv, UNCHANGED vars PROVE IInv'
    <3>1. UNCHANGED <<initialized, state, dumpActive, handle, running, locked,
                      caller, monitor, scan, threads, plugged, mounted, stale,
                      events, revived>>
        BY <2>2 DEF vars
    <3>2. TypeOK'
        BY <2>2, <3>1 DEF IInv, TypeOK
    <3>3. Handles' /\ Scans'
        BY <2>2, <3>1 DEF IInv, Handles, Scans, Listening
    <3>4. MountsCover'
        BY <2>2, <3>1, CoverFrame DEF IInv, Listening
    <3>5. Noticed'
        BY <2>2, <3>1 DEF IInv, Noticed, RemovalPending, Listening
    <3>. QED
        BY <3>2, <3>3, <3>4, <3>5 DEF IInv
  <2>. QED
      BY <2>1, <2>2
<1>. QED
    BY <1>1, <1>2, PTL DEF Spec

\* The context of the library keeps its types, and mig_dump_wait finds no handle
\* of a thread that was joined.
THEOREM TypeCorrect == Spec => []TypeOK
<1>1. IInv => TypeOK
    BY DEF IInv
<1>. QED
    BY <1>1, Invariant, PTL

\* dump_active tells whether a dump is at work, and there is at most one.
THEOREM OneDump == Spec => []OneDumpThread
<1>1. IInv => OneDumpThread
    BY DEF IInv, Handles, OneDumpThread
<1>. QED
    BY <1>1, Invariant, PTL

\* A handle that mig_dump_wait and mig_exit join is not 0 and not that of a thread that
\* was joined before, and mig_exit's is that of a thread (mig_dumper.c, lines 161 to 164
\* and 383 to 388). After a failed pthread_create mig_dump_wait may join nobody's.
THEOREM JoinedOnce == Spec => []JoinsOnce
<1>1. IInv => JoinsOnce
    BY DumperAssumption DEF IInv, Handles, JoinsOnce, Listening, TypeOK
<1>. QED
    BY <1>1, Invariant, PTL

\* The unlocked reads of the dump flag and the handle neither start a second dump nor
\* join a thread twice; mig_exit joins a thread that was created, and so does mig_dump_wait
\* unless it finds what a failed pthread_create left (lines 149 to 164, 328 to 355 and 388).
THEOREM ThreadsSafe == Spec => []ThreadsInOrder
<1>1. OneDumpThread /\ JoinsOnce => ThreadsInOrder
    BY DEF ThreadsInOrder
<1>. QED
    BY <1>1, OneDump, JoinedOnce, PTL

\* A connected reader is mounted, or a mount of one that was pulled out is left, until
\* the end of a mount or the start or end of a dump overwrites the state that an ejection
\* or a removal set (lines 345, 349, 803 and 885): however scans, ejections and removals
\* interleave otherwise.
THEOREM Mounted == Spec => []ReadyIsMounted
<1>1. IInv => ReadyIsMounted
    BY DumperAssumption DEF IInv, TypeOK, MountsCover, One, ReadyIsMounted
<1>. QED
    BY <1>1, Invariant, PTL

\* A removal that was handled leaves no reader connected, with the same exception.
THEOREM RemovalNoticed == Spec => []GoneIsNoticed
<1>1. IInv => GoneIsNoticed
    BY DEF IInv, Noticed, RemovalPending, GoneIsNoticed
<1>. QED
    BY <1>1, Invariant, PTL

-------------------------------------------------------------------------------
(* No two threads wait for each other. *)

\* A scanner goes on unless it waits for the mutex.
ScanGoes(d) == scan[d] \in {"mounting", "done"} \/ (scan[d] # "off" /\ ~locked)

\* What each thread waits for: the caller for the mutex or for the end of another
\* thread, the monitor and the dumps for the mutex.
CallerGoes ==
    \/ caller = "scanning" /\ ScanGoes("caller")
    \/ caller \in {"starting", "joined"} /\ ~locked
    \/ caller \in {"joining", "exit joining"} /\ (handle \in Threads => threads[handle] = "ended")
    \/ caller = "stopping" /\ monitor \in {"none", "ended", "dangling"}
    \/ caller \in {"monitor stopped", "unmounting"}

MonitorGoes ==
    \/ monitor = "testing"
    \/ monitor = "waiting" /\ (events = <<>> \/ Head(events) = "add" \/ ~locked)
    \/ monitor = "scanning" /\ ScanGoes("monitor")

DumpGoes(t) == threads[t] = "ending" \/ (threads[t] = "created" /\ ~locked)

\* The mutex has a holder that is about to release it.
Held == locked => \E t \in Threads : threads[t] = "ending"

\* In every call, the caller goes on, or the thread it joins, or the holder of the mutex;
\* only a caller that has joined what is no thread may not.
NoCircle ==
    caller \notin {"idle", "lost"} =>
        \/ CallerGoes
        \/ caller = "stopping" /\ MonitorGoes
        \/ caller \in {"joining", "exit joining"} /\ handle \in Threads /\ DumpGoes(handle)
        \/ locked /\ \E t \in Threads : threads[t] = "ending"

\* The one that takes the mutex is ending until it releases it; joins touch only threads
\* that have ended.
LEMMA HeldKept ==
    ASSUME IInv, Held, [Next]_vars
    PROVE  Held'
<1>. USE DEF Held
<1>1. ASSUME locked' = locked, threads' = threads PROVE Held'
    BY <1>1
<1>9. CASE Restart
    BY <1>9 DEF Restart
<1>2. CASE Call \/ User \/ Monitor
    BY <1>1, <1>2, <1>9 DEF Call, MigInit, Rescan, Eject, StartCheck, WaitCheck, ExitBegin, User, PlugIn,
       PullOut, OtherDevice, Monitor, MonitorTest, MonitorTimeout, MonitorAdd, MonitorScanned,
       MonitorRemove, Scan, ScanMounting, ScanMount, ScanReady, ScanError
<1>3. ASSUME NEW t \in Threads, StartRuns(t) PROVE Held'
  <2>1. locked' = locked /\ ~locked
      BY <1>3 DEF StartRuns
  <2>. QED
      BY <2>1
<1>4. ASSUME NEW from, NEW to, Join(from, to) PROVE Held'
  <2>1. \A t \in Threads : threads[t] = "ending" => threads'[t] = "ending"
      BY <1>4 DEF Join
  <2>. QED
      BY <1>4, <2>1 DEF Join
<1>5. CASE Scan("caller") \/ CallerScanned \/ StartRefused \/ StartFails \/ WaitEnd
           \/ ExitJoinsMonitor \/ ExitReadsActive \/ ExitEnd
    BY <1>1, <1>5 DEF Scan, ScanMounting, ScanMount, ScanReady, ScanError, CallerScanned,
       StartRefused, StartFails, WaitEnd, ExitJoinsMonitor, ExitReadsActive, ExitEnd
<1>6. ASSUME NEW t \in Threads, DumpEnds(t) PROVE Held'
  <2>1. threads'[t] = "ending"
      BY <1>6 DEF DumpEnds, IInv, TypeOK
  <2>. QED
      BY <2>1
<1>7. ASSUME NEW t \in Threads, DumpReturns(t) PROVE Held'
    BY <1>7 DEF DumpReturns
<1>8. CASE UNCHANGED vars
    BY <1>1, <1>8 DEF vars
<1>. QED
    BY <1>2, <1>3, <1>4, <1>5, <1>6, <1>7, <1>8 DEF Next, CallContinues, Dump

\* Whom the caller waits for has a step to take.
LEMMA WaitsForOneThatGoes == IInv /\ Held => NoCircle
<1>. SUFFICES ASSUME IInv, Held, caller \notin {"idle", "lost"}, ~locked
              PROVE  \/ CallerGoes
                     \/ caller = "stopping" /\ MonitorGoes
                     \/ /\ caller \in {"joining", "exit joining"}
                        /\ handle \in Threads /\ DumpGoes(handle)
    BY DEF NoCircle, Held
<1>. USE DEF IInv
<1>1. CASE caller = "scanning"
    BY <1>1 DEF Scans, CallerGoes, ScanGoes
<1>2. CASE caller \in {"starting", "joined", "monitor stopped", "unmounting"}
    BY <1>2 DEF CallerGoes
<1>3. CASE caller \in {"joining", "exit joining"}
  <2>1. CASE handle \in Threads
    <3>1. threads[handle] # "none"
        BY <1>3, <2>1 DEF Handles, Listening
    <3>2. threads[handle] \in {"created", "ending", "ended"}
        BY <2>1, <3>1 DEF TypeOK
    <3>. QED
        BY <1>3, <2>1, <3>2 DEF CallerGoes, DumpGoes
  <2>2. CASE handle \notin Threads
      BY <1>3, <2>2 DEF CallerGoes
  <2>. QED
      BY <2>1, <2>2
<1>4. CASE caller = "stopping"
  <2>1. monitor \in {"none", "testing", "waiting", "scanning", "ended", "dangling"}
      BY DEF TypeOK
  <2>. QED
      BY <1>4, <2>1 DEF CallerGoes, MonitorGoes, Scans, ScanGoes
<1>. QED
    BY <1>1, <1>2, <1>3, <1>4 DEF TypeOK, CallerSteps

\* Whatever the caller waits for in mig_dump_wait, mig_exit or at the mutex, one of the
\* threads it waits for can go on, so no call waits for itself, unless it has joined what a
\* failed pthread_create left; the thread that holds the mutex waits for nobody
\* (mig_dumper.c, lines 149 to 180 and 383 to 402).
THEOREM NobodyInACircle == Spec => []NoCircle
<1>1. Init => Held
    BY DEF Init, Held
<1>2. IInv /\ Held /\ [Next]_vars => Held'
    BY HeldKept
<1>. QED
    BY <1>1, <1>2, WaitsForOneThatGoes, Invariant, PTL DEF Spec

===============================================================================
