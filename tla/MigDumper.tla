------------------------------- MODULE MigDumper -------------------------------
(***************************************************************************)
(* The library of the MIG reader, software/src/mig_dumper.c.               *)
(*                                                                         *)
(* Three kinds of threads share g_mig:                                     *)
(*   - the caller of the library, one thread of one program;               *)
(*   - the monitor thread, which handles the events of udev: those of the  *)
(*     reader and those of every other USB device;                         *)
(*   - the dump threads, one for each dump that was started.               *)
(* The mutex is held over several steps only by a dump thread, because     *)
(* mig_exit and mig_dump_wait read dump_active without it. Every other     *)
(* section under the mutex is one step, which waits until it is free.      *)
(*                                                                         *)
(* Around them are the kernel, which mounts the reader, and the user, who  *)
(* plugs it in and out. There is one reader, with one partition. Cartridge *)
(* data, file operations, progress and options are left out.               *)
(*                                                                         *)
(* What a failed pthread_create leaves in the place of the handle, and the *)
(* join of that, are undefined: the join may return, or the program ends   *)
(* or hangs in it and is started again.                                    *)
(***************************************************************************)
EXTENDS Integers, Sequences

CONSTANTS
    Threads,      \* the threads the system can create for dumps
    None,         \* no thread: the value 0 of dump_thread
    Dangling,     \* what a failed pthread_create may leave in dump_thread
    MaxEvents,    \* bound: events waiting for the monitor
    MaxStale      \* bound: mounts of readers that were pulled out

ASSUME DumperAssumption ==
    /\ None \notin Threads
    /\ Dangling \notin Threads
    /\ None # Dangling
    /\ MaxEvents \in Nat
    /\ MaxStale \in Nat

VARIABLES
    initialized,  \* g_initialized
    state,        \* g_mig.state
    dumpActive,   \* g_mig.dump_active
    handle,       \* g_mig.dump_thread
    running,      \* g_mig.monitor_running
    locked,       \* g_mig.mutex is held by a dump thread
    caller,       \* where the caller is
    monitor,      \* where the monitor thread is
    scan,         \* where mig_detect_device is, for each of the two
    threads,      \* what the dump threads do
    plugged,      \* the reader is plugged in
    mounted,      \* ... and mounted
    stale,        \* mounts that outlived their reader
    events,       \* udev events the monitor has not received
    revived       \* history: a state was overwritten that no longer allowed it

dump   == <<dumpActive, handle, locked, threads>>
kernel == <<plugged, mounted, stale>>
vars   == <<initialized, state, dump, running, caller, monitor, scan, kernel,
            events, revived>>

States == {"DISCONNECTED", "MOUNTING", "READY", "BUSY", "ERROR"}
Connected == {"READY", "BUSY"}
Scanners == {"caller", "monitor"}
CallerSteps == {"idle", "scanning", "starting", "joining", "joined",
                "stopping", "monitor stopped", "exit joining", "unmounting",
                "lost"}

Init ==
    /\ initialized = FALSE
    /\ state = "DISCONNECTED"
    /\ dumpActive = FALSE
    /\ handle = None
    /\ running = FALSE
    /\ locked = FALSE
    /\ caller = "idle"
    /\ monitor = "none"
    /\ scan = [d \in Scanners |-> "off"]
    /\ threads = [t \in Threads |-> "none"]
    /\ plugged \in BOOLEAN
    /\ mounted = FALSE
    /\ stale = 0
    /\ events = <<>>
    /\ revived = FALSE

\* From the opening of the udev monitor to its end.
Listening == initialized \/ caller = "scanning"

-------------------------------------------------------------------------------
(* mig_detect_device and mig_mount_device, run by the caller or the monitor. *)

\* The devices are listed.
ScanBegin(d) ==
    scan' = [scan EXCEPT ![d] = IF plugged THEN "found" ELSE "done"]

ScanMounting(d) ==
    /\ scan[d] = "found"
    /\ ~locked
    /\ state' = "MOUNTING"
    /\ scan' = [scan EXCEPT ![d] = "mounting"]
    /\ UNCHANGED <<initialized, dump, running, caller, monitor, kernel, events,
                   revived>>

\* The kernel refuses a reader that is gone, one that is mounted already, and
\* any whose file system it cannot read.
ScanMount(d) ==
    /\ scan[d] = "mounting"
    /\ \/ /\ plugged
          /\ ~mounted
          /\ mounted' = TRUE
          /\ scan' = [scan EXCEPT ![d] = "mounted"]
       \/ /\ scan' = [scan EXCEPT ![d] = "failed"]
          /\ UNCHANGED mounted
    /\ UNCHANGED <<initialized, state, dump, running, caller, monitor, plugged,
                   stale, events, revived>>

ScanReady(d) ==
    /\ scan[d] = "mounted"
    /\ ~locked
    /\ state' = "READY"
    /\ revived' = (revived \/ state = "DISCONNECTED")
    /\ scan' = [scan EXCEPT ![d] = "done"]
    /\ UNCHANGED <<initialized, dump, running, caller, monitor, kernel, events>>

ScanError(d) ==
    /\ scan[d] = "failed"
    /\ ~locked
    /\ state' = "ERROR"
    /\ scan' = [scan EXCEPT ![d] = "done"]
    /\ UNCHANGED <<initialized, dump, running, caller, monitor, kernel, events,
                   revived>>

Scan(d) == ScanMounting(d) \/ ScanMount(d) \/ ScanReady(d) \/ ScanError(d)

-------------------------------------------------------------------------------
(* The caller. A call that returns without any effect is no step. *)

CallerAt(step) == caller = step

\* mig_init is called before everything else, as mig_dumper.h demands.
Idle == CallerAt("idle") /\ initialized

\* mig_init up to its scan; the monitor thread may not come to life.
MigInit ==
    /\ CallerAt("idle")
    /\ ~initialized
    /\ state' = "DISCONNECTED"
    /\ dumpActive' = FALSE
    /\ handle' = None
    /\ locked' = FALSE
    /\ \/ running' = TRUE /\ monitor' = "testing"
       \/ running' = FALSE /\ monitor' \in {"none", "dangling"}
    /\ events' = <<>>
    /\ ScanBegin("caller")
    /\ caller' = "scanning"
    /\ revived' = FALSE
    /\ UNCHANGED <<initialized, threads, kernel>>

Rescan ==
    /\ Idle
    /\ ScanBegin("caller")
    /\ caller' = "scanning"
    /\ UNCHANGED <<initialized, state, dump, running, monitor, kernel, events,
                   revived>>

\* The end of mig_rescan, and of mig_init.
CallerScanned ==
    /\ CallerAt("scanning")
    /\ scan["caller"] = "done"
    /\ scan' = [scan EXCEPT !["caller"] = "off"]
    /\ initialized' = TRUE
    /\ caller' = "idle"
    /\ UNCHANGED <<state, dump, running, monitor, kernel, events, revived>>

\* Unmounting takes the mount on top, if there is one.
Unmount ==
    /\ mounted' = FALSE
    /\ stale' = IF ~mounted /\ stale > 0 THEN stale - 1 ELSE stale
    /\ UNCHANGED plugged

\* Slip: the state is not reset.
EjectLeavesReady ==
    /\ Idle
    /\ ~locked
    /\ state = "READY"
    /\ mounted \/ stale > 0
    /\ Unmount
    /\ UNCHANGED <<initialized, state, dump, running, caller, monitor, scan,
                   events, revived>>

Eject ==
    /\ Idle
    /\ ~locked
    /\ state = "READY"
    /\ mounted \/ stale > 0
    /\ Unmount
    /\ state' = "DISCONNECTED"
    /\ UNCHANGED <<initialized, dump, running, caller, monitor, scan, events,
                   revived>>

\* mig_dump_start looks at the state under the mutex and releases it again.
StartCheck ==
    /\ Idle
    /\ ~locked
    /\ state \in Connected
    /\ caller' = "starting"
    /\ UNCHANGED <<initialized, state, dump, running, monitor, scan, kernel,
                   events, revived>>

StartRefused ==
    /\ CallerAt("starting")
    /\ ~locked
    /\ dumpActive
    /\ caller' = "idle"
    /\ UNCHANGED <<initialized, state, dump, running, monitor, scan, kernel,
                   events, revived>>

\* Slip: a dump that is active is not noticed.
StartRunsAgain(t) ==
    /\ CallerAt("starting")
    /\ ~locked
    /\ threads[t] = "none"
    /\ threads' = [threads EXCEPT ![t] = "created"]
    /\ handle' = t
    /\ dumpActive' = TRUE
    /\ state' = "BUSY"
    /\ revived' = (revived \/ state \notin Connected)
    /\ caller' = "idle"
    /\ UNCHANGED <<initialized, running, locked, monitor, scan, kernel, events>>

\* The handle of the last dump thread is overwritten, joined or not.
StartRuns(t) ==
    /\ CallerAt("starting")
    /\ ~locked
    /\ ~dumpActive
    /\ threads[t] = "none"
    /\ threads' = [threads EXCEPT ![t] = "created"]
    /\ handle' = t
    /\ dumpActive' = TRUE
    /\ state' = "BUSY"
    /\ revived' = (revived \/ state \notin Connected)
    /\ caller' = "idle"
    /\ UNCHANGED <<initialized, running, locked, monitor, scan, kernel, events>>

\* No thread could be created, for lack of threads or of memory.
StartFails ==
    /\ CallerAt("starting")
    /\ ~locked
    /\ ~dumpActive
    /\ handle' \in {handle, Dangling}
    /\ state' = "READY"
    /\ revived' = (revived \/ state \notin Connected)
    /\ caller' = "idle"
    /\ UNCHANGED <<initialized, dumpActive, running, locked, monitor, scan,
                   threads, kernel, events>>

\* mig_dump_wait tests and joins without the mutex.
WaitCheck ==
    /\ Idle
    /\ dumpActive \/ handle # None
    /\ caller' = "joining"
    /\ UNCHANGED <<initialized, state, dump, running, monitor, scan, kernel,
                   events, revived>>

\* pthread_join returns when the thread has ended.
Join(from, to) ==
    /\ CallerAt(from)
    /\ handle \in Threads => threads[handle] = "ended"
    /\ threads' = [t \in Threads |-> IF t = handle THEN "none" ELSE threads[t]]
    /\ caller' \in IF handle = Dangling THEN {to, "lost"} ELSE {to}
    /\ UNCHANGED <<initialized, state, dumpActive, handle, running, locked,
                   monitor, scan, kernel, events, revived>>

\* Slip: dump_thread is not cleared.
WaitEndKeepsHandle ==
    /\ CallerAt("joined")
    /\ ~locked
    /\ caller' = "idle"
    /\ UNCHANGED <<initialized, state, dump, running, monitor, scan, kernel,
                   events, revived>>

WaitEnd ==
    /\ CallerAt("joined")
    /\ ~locked
    /\ handle' = None
    /\ caller' = "idle"
    /\ UNCHANGED <<initialized, state, dumpActive, running, locked, monitor,
                   scan, threads, kernel, events, revived>>

\* mig_exit stops the monitor, ...
ExitBegin ==
    /\ Idle
    /\ running' = FALSE
    /\ caller' = "stopping"
    /\ UNCHANGED <<initialized, state, dump, monitor, scan, kernel, events,
                   revived>>

ExitJoinsMonitor ==
    /\ CallerAt("stopping")
    /\ monitor \in {"none", "ended", "dangling"}
    /\ monitor' = "none"
    /\ caller' \in IF monitor = "dangling" THEN {"monitor stopped", "lost"}
                   ELSE {"monitor stopped"}
    /\ UNCHANGED <<initialized, state, dump, running, scan, kernel, events,
                   revived>>

\* ... joins the dump thread if it finds it active, ...
ExitReadsActive ==
    /\ CallerAt("monitor stopped")
    /\ caller' = IF dumpActive THEN "exit joining" ELSE "unmounting"
    /\ UNCHANGED <<initialized, state, dump, running, monitor, scan, kernel,
                   events, revived>>

\* ... unmounts once and destroys the mutex, held or not.
ExitEnd ==
    /\ CallerAt("unmounting")
    /\ Unmount
    /\ initialized' = FALSE
    /\ events' = <<>>
    /\ caller' = "idle"
    /\ UNCHANGED <<state, dump, running, monitor, scan, revived>>

-------------------------------------------------------------------------------
(* The monitor thread. *)

MonitorTest ==
    /\ monitor = "testing"
    /\ monitor' = IF running THEN "waiting" ELSE "ended"
    /\ UNCHANGED <<initialized, state, dump, running, caller, scan, kernel,
                   events, revived>>

MonitorTimeout ==
    /\ monitor = "waiting"
    /\ events = <<>>
    /\ monitor' = "testing"
    /\ UNCHANGED <<initialized, state, dump, running, caller, scan, kernel,
                   events, revived>>

MonitorAdd ==
    /\ monitor = "waiting"
    /\ events # <<>> /\ Head(events) = "add"
    /\ events' = Tail(events)
    /\ ScanBegin("monitor")
    /\ monitor' = "scanning"
    /\ UNCHANGED <<initialized, state, dump, running, caller, kernel, revived>>

MonitorScanned ==
    /\ monitor = "scanning"
    /\ scan["monitor"] = "done"
    /\ scan' = [scan EXCEPT !["monitor"] = "off"]
    /\ monitor' = "testing"
    /\ UNCHANGED <<initialized, state, dump, running, caller, kernel, events,
                   revived>>

\* Slip: a dump keeps its state.
MonitorRemoveUnlessBusy ==
    /\ monitor = "waiting"
    /\ events # <<>> /\ Head(events) = "remove"
    /\ ~locked
    /\ events' = Tail(events)
    /\ state' = IF state = "BUSY" THEN state ELSE "DISCONNECTED"
    /\ monitor' = "testing"
    /\ UNCHANGED <<initialized, dump, running, caller, scan, kernel, revived>>

MonitorRemove ==
    /\ monitor = "waiting"
    /\ events # <<>> /\ Head(events) = "remove"
    /\ ~locked
    /\ events' = Tail(events)
    /\ state' = "DISCONNECTED"
    /\ monitor' = "testing"
    /\ UNCHANGED <<initialized, dump, running, caller, scan, kernel, revived>>

-------------------------------------------------------------------------------
(* A dump thread. The reader dumps by itself; the thread only notes the end. *)

DumpEnds(t) ==
    /\ threads[t] = "created"
    /\ ~locked
    /\ locked' = TRUE
    /\ dumpActive' = FALSE
    /\ state' = "READY"
    /\ revived' = (revived \/ state # "BUSY")
    /\ threads' = [threads EXCEPT ![t] = "ending"]
    /\ UNCHANGED <<initialized, handle, running, caller, monitor, scan, kernel,
                   events>>

\* Slip: the mutex is not released.
DumpKeepsMutex(t) ==
    /\ threads[t] = "ending"
    /\ threads' = [threads EXCEPT ![t] = "ended"]
    /\ UNCHANGED <<initialized, state, dumpActive, handle, locked, running,
                   caller, monitor, scan, kernel, events, revived>>

DumpReturns(t) ==
    /\ threads[t] = "ending"
    /\ locked' = FALSE
    /\ threads' = [threads EXCEPT ![t] = "ended"]
    /\ UNCHANGED <<initialized, state, dumpActive, handle, running, caller,
                   monitor, scan, kernel, events, revived>>

-------------------------------------------------------------------------------
(* The user. *)

\* An event is received for the USB device and for its partition, or, if the
\* first was handled before there was a partition, in effect for one of them.
Notify(event) ==
    IF Listening
      THEN \E n \in 1 .. 2 : /\ Len(events) + n <= MaxEvents
                             /\ events' = events \o [i \in 1 .. n |-> event]
      ELSE UNCHANGED events

PlugIn ==
    /\ ~plugged
    /\ plugged' = TRUE
    /\ Notify("add")
    /\ UNCHANGED <<initialized, state, dump, running, caller, monitor, scan,
                   mounted, stale, revived>>

PullOut ==
    /\ plugged
    /\ mounted => stale < MaxStale
    /\ plugged' = FALSE
    /\ mounted' = FALSE
    /\ stale' = IF mounted THEN stale + 1 ELSE stale
    /\ Notify("remove")
    /\ UNCHANGED <<initialized, state, dump, running, caller, monitor, scan,
                   revived>>

\* The program is started again; only what the kernel holds is left of it.
Restart ==
    /\ CallerAt("lost")
    /\ initialized' = FALSE
    /\ state' = "DISCONNECTED"
    /\ dumpActive' = FALSE
    /\ handle' = None
    /\ running' = FALSE
    /\ locked' = FALSE
    /\ caller' = "idle"
    /\ monitor' = "none"
    /\ scan' = [d \in Scanners |-> "off"]
    /\ threads' = [t \in Threads |-> "none"]
    /\ events' = <<>>
    /\ UNCHANGED <<kernel, revived>>

\* Another USB device comes or goes.
OtherDevice ==
    /\ Listening
    /\ \E event \in {"add", "remove"} : Notify(event)
    /\ UNCHANGED <<initialized, state, dump, running, caller, monitor, scan,
                   kernel, revived>>

-------------------------------------------------------------------------------
Call ==
    \/ MigInit
    \/ Rescan
    \/ Eject
    \/ StartCheck
    \/ WaitCheck
    \/ ExitBegin

CallContinues ==
    \/ Scan("caller")
    \/ CallerScanned
    \/ StartRefused
    \/ \E t \in Threads : StartRuns(t)
    \/ StartFails
    \/ Join("joining", "joined")
    \/ WaitEnd
    \/ ExitJoinsMonitor
    \/ ExitReadsActive
    \/ Join("exit joining", "unmounting")
    \/ ExitEnd

Monitor ==
    \/ MonitorTest
    \/ MonitorTimeout
    \/ MonitorAdd
    \/ Scan("monitor")
    \/ MonitorScanned
    \/ MonitorRemove

Dump == \E t \in Threads : DumpEnds(t) \/ DumpReturns(t)

User == PlugIn \/ PullOut \/ OtherDevice \/ Restart

Next == Call \/ CallContinues \/ Monitor \/ Dump \/ User

Spec == Init /\ [][Next]_vars

\* Every thread runs on; nothing makes the program call or the user act.
FairSpec ==
    /\ Spec
    /\ WF_vars(CallContinues)
    /\ WF_vars(Monitor)
    /\ WF_vars(Dump)

-------------------------------------------------------------------------------
(* Properties *)

\* The types, and that a handle kept for a later join is that of a thread which
\* was not joined.
TypeOK ==
    /\ initialized \in BOOLEAN
    /\ state \in States
    /\ dumpActive \in BOOLEAN
    /\ handle \in Threads \cup {None, Dangling}
    /\ initialized /\ caller = "idle" /\ handle \in Threads =>
           threads[handle] # "none"
    /\ running \in BOOLEAN
    /\ locked \in BOOLEAN
    /\ caller \in CallerSteps
    /\ monitor \in {"none", "testing", "waiting", "scanning", "ended",
                    "dangling"}
    /\ scan \in [Scanners -> {"off", "found", "mounting", "mounted", "failed",
                              "done"}]
    /\ threads \in [Threads -> {"none", "created", "ending", "ended"}]
    /\ plugged \in BOOLEAN
    /\ mounted \in BOOLEAN
    /\ mounted => plugged
    /\ stale \in 0 .. MaxStale
    /\ events \in Seq({"add", "remove"})
    /\ revived \in BOOLEAN

\* dump_active is the truth about the dump threads, whoever starts, ends, exits
\* and begins again: there is at most one at work, and BUSY means there is one.
OneDumpThread ==
    /\ dumpActive <=> \E t \in Threads : threads[t] = "created"
    /\ \A t, u \in Threads :
           threads[t] = "created" /\ threads[u] = "created" => t = u
    /\ Listening /\ state = "BUSY" => dumpActive

\* No thread is joined twice and pthread_join never gets the handle 0, although
\* mig_dump_wait and mig_exit test without the mutex (lines 384 and 161); mig_exit
\* joins a thread that was created. mig_dump_wait may join what a failed creation
\* left, which is nobody's thread.
JoinsOnce ==
    caller \in {"joining", "exit joining"} =>
        /\ handle # None
        /\ handle \in Threads => threads[handle] # "none"
        /\ caller = "exit joining" => handle \in Threads

\* The unlocked reads of dump_active and dump_thread neither start a second dump
\* nor join a thread twice.
ThreadsInOrder == OneDumpThread /\ JoinsOnce

\* A reader that the library calls ready or busy is mounted, or a mount of a
\* reader that was pulled out is left: no scan, ejection or removal unmounts it
\* unnoticed. Excepted is what follows after a state was overwritten by one who did
\* not look at it: the end of a mount or of a dump, or the start of one, after an
\* ejection or a removal (lines 345, 349, 803 and 885 set READY or BUSY over
\* DISCONNECTED).
ReadyIsMounted ==
    Listening /\ ~revived /\ state \in Connected => mounted \/ stale > 0

\* When the monitor has handled the events of a reader that was pulled out, and
\* nobody is scanning, the library does not call it connected, unless a state was
\* overwritten unseen, as above.
GoneIsNoticed ==
    Listening /\ ~revived /\ ~plugged /\ events = <<>>
      /\ monitor \in {"testing", "waiting"} /\ scan["caller"] \in {"off", "done"}
        => state \notin Connected

\* Every call returns, unless it joins what is no thread: no two threads wait for
\* each other.
CallsReturn == (caller # "idle") ~> (caller \in {"idle", "lost"})

===============================================================================
