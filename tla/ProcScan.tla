------------------------------ MODULE ProcScan ------------------------------
(***************************************************************************)
(* One scan of a process filesystem (apps/srtop/src/procfs.rs), file by    *)
(* file, while processes start, work and exit, and PIDs are used again:    *)
(* what it records, what it says it left out (source.rs), and the CPU      *)
(* baselines it keeps for the next scan.                                   *)
(***************************************************************************)
EXTENDS Integers, FiniteSets, Sequences

CONSTANTS
    Pids,             \* numbers a process may have
    Pages,            \* resident page counts
    InitialProcesses, \* the processes a host may start with
    InitialPages,     \* their resident pages
    Access,           \* RecordAccess: "pinned" or "byName"
    RecordLimit,      \* records one scan publishes
    UncertainLimit,   \* PIDs a ledger may name
    MaxStart,         \* bound: start ticks handed out in one boot
    MaxBoot,          \* bound: boots
    MaxChanges,       \* bound: changes of the host
    MaxFaults,        \* bound: reads that fail without the process having ended
    MaxScans          \* bound: scans

ASSUME HostAssumption ==
    /\ Pids \subseteq Nat \ {0} /\ MaxStart \in Nat
    /\ Pages \subseteq Nat /\ InitialPages \in [Pids -> Nat]
    /\ InitialProcesses \subseteq [Pids -> 0 .. MaxStart]

VARIABLES
    process,          \* start ticks of the process under each PID, None if none
    pages,            \* its resident pages
    ticks,            \* its CPU ticks
    boot,             \* the boot of the host
    counters,         \* busy and idle ticks of all its CPUs
    scan,             \* the scan in progress or just ended
    baselines,        \* counters kept per instance from the last scan
    cpuBoot,          \* the boot they were last read under
    systemBaseline,   \* the host's own counters at the last read
    changes, faults, scans,
    steady            \* history: processes alive ever since the scan's listing

hostVars == <<process, pages, ticks, boot, counters, changes>>
scanVars == <<scan, baselines, cpuBoot, systemBaseline, faults, scans>>

\* The monotonic clock: every change of the host takes one unit of it.
clock == changes

None == 0
Missing == 0

\* PidLedger: it counts records left out and names the PIDs it has room for.
NoLedger == [named |-> {}, count |-> 0, enumerable |-> TRUE]

LedgerRecord(ledger, limit, pid) ==
    IF Cardinality(ledger.named) < limit \/ pid \in ledger.named
    THEN [ledger EXCEPT !.named = @ \cup {pid}, !.count = @ + 1]
    ELSE [ledger EXCEPT !.enumerable = FALSE, !.count = @ + 1]

LedgerUnnamed(ledger) == [ledger EXCEPT !.enumerable = FALSE, !.count = @ + 1]
MarkUnenumerable(ledger) == [ledger EXCEPT !.enumerable = FALSE]

NoFile == [stage |-> "none", pid |-> None, pin |-> None, start |-> None, ticks |-> 0, at |-> 0]

NoCounters == [busy |-> -1, idle |-> -1]

\* SystemSample: the CPU interval and the files that could not be read.
SystemCpu(state, busy, total) == [state |-> state, busy |-> busy, total |-> total]
SystemFiles == {"meminfo", "loadavg", "uptime"}
NoSample == [cpu |-> SystemCpu("unread", 0, 0), unread |-> SystemFiles]

IdleScan ==
    [phase |-> "idle", boot |-> Missing, system |-> NoSample, rootFailed |-> FALSE,
     cursor |-> 0, file |-> NoFile, records |-> <<>>,
     skipped |-> NoLedger, capped |-> NoLedger, fresh |-> <<>>]

ScanInit ==
    /\ process \in InitialProcesses
    /\ pages = InitialPages
    /\ ticks = [p \in Pids |-> 0]
    /\ boot = 1
    /\ counters = [busy |-> 0, idle |-> 0]
    /\ scan = IdleScan
    /\ baselines = <<>> /\ cpuBoot = Missing /\ systemBaseline = NoCounters
    /\ changes = 0 /\ faults = 0 /\ scans = 0
    /\ steady = {}

-----------------------------------------------------------------------------
(* The host.                                                               *)

Alive == {p \in Pids : process[p] # None}

Exit(p) ==
    /\ process[p] # None
    /\ process' = [process EXCEPT ![p] = None]
    /\ counters' = [counters EXCEPT !.idle = @ + 1]
    /\ UNCHANGED <<pages, ticks, boot>>

\* A PID is handed out again, to a process with a later start time.
Spawn(p) ==
    /\ process[p] = None
    /\ LET last == CHOOSE s \in 0 .. MaxStart :
                       (\E q \in Pids : process[q] = s) /\ \A q \in Pids : process[q] <= s
       IN  /\ last < MaxStart
           /\ process' = [process EXCEPT ![p] = last + 1]
    /\ pages' \in {[pages EXCEPT ![p] = n] : n \in Pages}
    /\ ticks' = [ticks EXCEPT ![p] = 0]
    /\ counters' = [counters EXCEPT !.idle = @ + 1]
    /\ UNCHANGED boot

Work(p) ==
    /\ process[p] # None
    /\ ticks' = [ticks EXCEPT ![p] = @ + 1]
    /\ pages' \in {[pages EXCEPT ![p] = n] : n \in Pages}
    /\ counters' = [counters EXCEPT !.busy = @ + 1]
    /\ UNCHANGED <<process, boot>>

\* The tree under the root is that of another boot, whose start ticks begin again.
Reboot ==
    /\ scan.phase = "idle" /\ boot < MaxBoot
    /\ boot' = boot + 1
    /\ process' \in InitialProcesses
    /\ ticks' = [p \in Pids |-> 0]
    /\ counters' = [busy |-> 0, idle |-> 0]
    /\ UNCHANGED pages

HostChange ==
    /\ changes < MaxChanges
    /\ changes' = changes + 1
    /\ \/ \E p \in Pids : Exit(p) \/ Spawn(p) \/ Work(p)
       \/ Reboot
    /\ steady' = {p \in steady : process'[p] = process[p]}
    /\ UNCHANGED scanVars

-----------------------------------------------------------------------------
(* CPU counters.                                                           *)

\* Mutant: a change of boot keeps the baselines.
BootNeverChanges(read) == FALSE

\* identity_changed: a boot that could not be read changes nothing.
BootChanged(read) == read # Missing /\ cpuBoot # Missing /\ read # cpuBoot

\* sample_cpu and interval_since: the usage published and the baseline kept.
\* A baseline also carries, as history, the boot and process it was read from and
\* whether that scan knew its boot.
Usage(kind, delta, from) == [kind |-> kind, ticks |-> delta, from |-> from]

SampleCpu(kept, instance, current) ==
    IF instance \notin DOMAIN kept
    THEN [usage |-> Usage("warming up", 0, current), keep |-> current]
    ELSE LET previous == kept[instance]
         IN  CASE current.at = previous.at ->
                     [usage |-> Usage("unavailable", 0, current), keep |-> previous]
               [] current.at # previous.at /\ current.ticks < previous.ticks ->
                     [usage |-> Usage("unavailable", 0, current), keep |-> current]
               [] OTHER ->
                     [usage |-> Usage("measured", current.ticks - previous.ticks, previous),
                      keep  |-> current]

-----------------------------------------------------------------------------
(* The scan.                                                               *)

\* A read may fail for a reason of its own (permissions, an unparsable file).
Fault == faults < MaxFaults /\ faults' = faults + 1

\* The identity files are read once; counters of another boot are dropped.
ReadIdentity ==
    /\ scan.phase = "idle" /\ scans < MaxScans
    /\ scans' = scans + 1
    /\ \E read \in {boot, Missing} :
           /\ IF read = Missing THEN Fault ELSE UNCHANGED faults
           /\ scan' = [IdleScan EXCEPT !.phase = "identified", !.boot = read]
           /\ baselines' = IF BootChanged(read) THEN <<>> ELSE baselines
           /\ systemBaseline' = IF BootChanged(read) THEN NoCounters ELSE systemBaseline
           /\ cpuBoot' = IF read = Missing THEN cpuBoot ELSE read
    /\ UNCHANGED <<hostVars, steady>>

\* system_cpu_since: the usage between two reads of the host's counters.
SystemCpuSince(previous, current) ==
    LET busy == current.busy - previous.busy
        idle == current.idle - previous.idle
    IN  IF previous = NoCounters THEN SystemCpu("warming up", 0, 0)
        ELSE IF busy < 0 \/ idle < 0 \/ busy + idle = 0 THEN SystemCpu("interrupted", 0, 0)
        ELSE SystemCpu("measured", busy, busy + idle)

\* system_sample: a failed read of the counters also forgets the last one.
ReadSystem ==
    /\ scan.phase = "identified"
    /\ \E counted \in BOOLEAN, unread \in {{}} \cup {{file} : file \in SystemFiles} :
           /\ systemBaseline' = IF counted THEN counters ELSE NoCounters
           /\ scan' = [scan EXCEPT !.phase = "sampled",
                  !.system = [cpu |-> IF counted THEN SystemCpuSince(systemBaseline, counters)
                                      ELSE SystemCpu("unread", 0, 0),
                              unread |-> unread]]
           /\ faults' = faults + Cardinality(unread) + IF counted THEN 0 ELSE 1
           /\ faults' <= MaxFaults
    /\ UNCHANGED <<hostVars, baselines, cpuBoot, scans, steady>>

\* read_dir succeeds, or the whole scan says it can name no absence and keeps
\* the baselines as they were.
ListRoot ==
    /\ scan.phase = "sampled"
    /\ \/ /\ scan' = [scan EXCEPT !.phase = "listed"]
          /\ UNCHANGED faults
       \/ /\ Fault
          /\ scan' = [scan EXCEPT !.phase = "done", !.rootFailed = TRUE,
                                  !.skipped = MarkUnenumerable(@)]
    /\ steady' = Alive
    /\ UNCHANGED <<hostVars, baselines, cpuBoot, systemBaseline, scans>>

Listing == scan.phase = "listed" /\ scan.file = NoFile

Skip(p) == [scan EXCEPT !.file = NoFile,
                        !.skipped = LedgerRecord(@, IF RecordLimit < UncertainLimit
                                                    THEN RecordLimit ELSE UncertainLimit, p)]

\* The process has ended: nothing is recorded and nothing is uncertain.
Vanished == [scan EXCEPT !.file = NoFile]

\* Entries are read one at a time; the process filesystem lists PIDs in order.
Unlisted == {p \in Alive : p > scan.cursor}

\* The next entry: it cannot be examined, is given once more as the directory
\* changes, is beyond the record limit, or is opened.
NextEntry(p) ==
    LET passed == [scan EXCEPT !.cursor = p]
        opened == [NoFile EXCEPT !.stage = "open", !.pid = p]
    IN  /\ Listing /\ p \in Unlisted /\ \A q \in Unlisted : p <= q
        /\ \/ Fault /\ scan' = [passed EXCEPT !.skipped = LedgerUnnamed(@)]
           \/ /\ Fault /\ Len(scan.records) < RecordLimit
              /\ scan' = [scan EXCEPT !.file = opened]
           \/ /\ Len(scan.records) >= RecordLimit
              /\ scan' = [passed EXCEPT !.capped = LedgerRecord(@, UncertainLimit, p)]
              /\ UNCHANGED faults
           \/ /\ Len(scan.records) < RecordLimit
              /\ scan' = [passed EXCEPT !.file = opened]
              /\ UNCHANGED faults
        /\ UNCHANGED <<hostVars, baselines, cpuBoot, systemBaseline, scans, steady>>

\* RecordDir::open
OpenRecord ==
    LET p == scan.file.pid
    IN  /\ scan.file.stage = "open"
        /\ \/ Fault /\ scan' = Skip(p)
           \/ /\ Access = "byName" \/ process[p] # None
              /\ scan' = [scan EXCEPT !.file.stage = "stat", !.file.pin = process[p]]
              /\ UNCHANGED faults
           \/ /\ Access = "pinned" /\ process[p] = None
              /\ scan' = Vanished
              /\ UNCHANGED faults
        /\ UNCHANGED <<hostVars, baselines, cpuBoot, systemBaseline, scans, steady>>

\* Mutant: memory is read by path although the directory is held.
ReachedByPath(file) == process[file.pid]

\* The process whose files a read reaches: a pinned directory reaches only the
\* one it was opened on, a path whichever holds the PID now.
Reached(file) ==
    IF Access = "byName" \/ process[file.pid] = file.pin THEN process[file.pid] ELSE None

ReadStat ==
    LET file == scan.file
    IN  /\ file.stage = "stat"
        /\ \/ Fault /\ scan' = Skip(file.pid)
           \/ /\ Reached(file) = None
              /\ scan' = Vanished
              /\ UNCHANGED faults
           \/ /\ Reached(file) # None
              /\ scan' = [scan EXCEPT !.file = [@ EXCEPT !.stage = "statm",
                                                         !.start = Reached(file),
                                                         !.ticks = ticks[file.pid],
                                                         !.at = clock]]
              /\ UNCHANGED faults
        /\ UNCHANGED <<hostVars, baselines, cpuBoot, systemBaseline, scans, steady>>

\* A record of the file being read, with the resident pages of process `of`.
Recorded(resident, of) ==
    LET file     == scan.file
        instance == <<file.pid, file.start>>
        current  == [ticks |-> file.ticks, at |-> file.at, boot |-> boot, start |-> file.start,
                     known |-> scan.boot # Missing]
        cpu      == SampleCpu(baselines, instance, current)
        record   == [pid |-> file.pid, start |-> file.start, boot |-> scan.boot,
                     resident |-> resident, residentOf |-> of, cpu |-> cpu.usage]
    IN  [scan EXCEPT !.file = NoFile,
                     !.records = Append(@, record),
                     !.fresh = [i \in DOMAIN @ \cup {instance} |->
                                   IF i = instance THEN cpu.keep ELSE @[i]]]

\* statm is read, is refused, or is gone: then the exit is to be confirmed.
ReadStatm ==
    LET file == scan.file
    IN  /\ file.stage = "statm"
        /\ \/ Fault /\ scan' = Recorded(Missing, file.start)
           \/ Fault /\ scan' = [scan EXCEPT !.file.stage = "confirm"]
           \/ /\ Reached(file) # None
              /\ scan' = Recorded(pages[file.pid], Reached(file))
              /\ UNCHANGED faults
           \/ /\ Reached(file) = None
              /\ scan' = [scan EXCEPT !.file.stage = "confirm"]
              /\ UNCHANGED faults
        /\ UNCHANGED <<hostVars, baselines, cpuBoot, systemBaseline, scans, steady>>

\* RecordDir::confirms_exit: stat is read again.
ConfirmExit ==
    LET file == scan.file
    IN  /\ file.stage = "confirm"
        /\ scan' = IF Reached(file) # file.start THEN Vanished
                   ELSE Recorded(Missing, file.start)
        /\ UNCHANGED <<hostVars, baselines, cpuBoot, systemBaseline, faults, scans, steady>>

ScanEnd ==
    /\ Listing /\ Unlisted = {}
    /\ scan' = [scan EXCEPT !.phase = "done"]
    /\ baselines' = scan.fresh
    /\ UNCHANGED <<hostVars, cpuBoot, systemBaseline, faults, scans, steady>>

ScanStep ==
    \/ ReadIdentity
    \/ ReadSystem
    \/ ListRoot
    \/ \E p \in Pids : NextEntry(p)
    \/ OpenRecord
    \/ ReadStat
    \/ ReadStatm
    \/ ConfirmExit
    \/ ScanEnd

-----------------------------------------------------------------------------
(* What the scan says of the processes it has no record of.                *)

\* Completeness::from_scan
Complete ==
    /\ scan.skipped = NoLedger /\ scan.capped.count = 0
    /\ scan.boot # Missing /\ ~scan.rootFailed

Unenumerable == [global |-> TRUE, pids |-> {}]

\* Mutant: a ledger that overflowed is trusted for the PIDs it names.
RetentionNamed == [global |-> FALSE, pids |-> scan.capped.named \cup scan.skipped.named]

\* ProcessSnapshot::retention
Retention ==
    IF scan.capped.enumerable /\ scan.skipped.enumerable
    THEN [global |-> FALSE, pids |-> scan.capped.named \cup scan.skipped.named]
    ELSE Unenumerable

\* Retention::keeps
Keeps(retention, pid) == retention.global \/ pid \in retention.pids
=============================================================================
