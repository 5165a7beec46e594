----------------------------- MODULE WorkerStall -----------------------------
(***************************************************************************)
(* Scheduler::_FixTimingScan: the scheduler thread looks at what each      *)
(* worker says it is executing and reports a run that lasts too long, once.*)
(* A worker writes its begin time, later the group under m_exec_mutex, and *)
(* clears the group's flag after the run; the scan takes the time first,   *)
(* then copies one group after the other.                                  *)
(***************************************************************************)
EXTENDS Integers, FiniteSets

CONSTANTS
    StallWorkers, StallCos, NoStallCo,
    WarnUs,      \* m_cfg_worker_stall_warn_ms
    MaxNow       \* bound: the clock

ASSUME StallAssumption == WarnUs \in Nat \ {0} /\ MaxNow \in Nat \ {0}

VARIABLES
    now,         \* the monotonic clock
    turn,        \* worker: between runs, having read the clock, in Resume
    begun,       \* m_running_coroutine_begin
    group,       \* m_exec_begin_us, m_exec_co_id and m_executing
    lastReport,  \* m_last_stall_report_begin
    scan,        \* the scan: its now_us, the workers left, its group's copy
    pending,     \* the reports of this scan
    reports,     \* history: everything reported
    overdue      \* history: runs that were overdue when this scan began

stallVars == <<now, turn, begun, group, lastReport, scan, pending, reports, overdue>>

Times == 0 .. MaxNow
Groups == [begin : Times, co : StallCos \cup {NoStallCo}, executing : BOOLEAN]
NoScan == [on |-> FALSE, at |-> 0, left |-> {}]

StallTypeOK ==
    /\ now \in Times
    /\ turn \in [StallWorkers -> {"between", "begun", "resumed"}]
    /\ begun \in [StallWorkers -> Times] /\ group \in [StallWorkers -> Groups]
    /\ lastReport \in [StallWorkers -> Times]
    /\ scan \in [on : BOOLEAN, at : Times, left : SUBSET StallWorkers]
    /\ \A r \in pending \cup reports : r.w \in StallWorkers /\ r.co \in StallCos
    /\ overdue \subseteq [w : StallWorkers, begin : Times]

StallInit ==
    /\ now = 1 /\ turn = [w \in StallWorkers |-> "between"]
    /\ begun = [w \in StallWorkers |-> 0]
    /\ group = [w \in StallWorkers |-> [begin |-> 0, co |-> NoStallCo, executing |-> FALSE]]
    /\ lastReport = [w \in StallWorkers |-> 0] /\ scan = NoScan
    /\ pending = {} /\ reports = {} /\ overdue = {}

Ticks ==
    /\ now < MaxNow /\ now' = now + 1
    /\ UNCHANGED <<turn, begun, group, lastReport, scan, pending, reports, overdue>>

-----------------------------------------------------------------------------
(* A worker's turn.                                                         *)

ReadsClock(w) ==
    /\ turn[w] = "between"
    /\ turn' = [turn EXCEPT ![w] = "begun"] /\ begun' = [begun EXCEPT ![w] = now]
    /\ UNCHANGED <<now, group, lastReport, scan, pending, reports, overdue>>

\* The group is written as a whole, then Resume.
Publishes(w, c) ==
    /\ turn[w] = "begun"
    /\ turn' = [turn EXCEPT ![w] = "resumed"]
    /\ group' = [group EXCEPT ![w] = [begin |-> begun[w], co |-> c, executing |-> TRUE]]
    /\ UNCHANGED <<now, begun, lastReport, scan, pending, reports, overdue>>

YieldsBack(w) ==
    /\ turn[w] = "resumed"
    /\ turn' = [turn EXCEPT ![w] = "between"]
    /\ group' = [group EXCEPT ![w].executing = FALSE]
    /\ UNCHANGED <<now, begun, lastReport, scan, pending, reports, overdue>>

-----------------------------------------------------------------------------
(* The scan.                                                                *)

Run(w) == [w |-> w, begin |-> group[w].begin]

ScanBegins ==
    /\ ~scan.on
    /\ scan' = [on |-> TRUE, at |-> now, left |-> StallWorkers]
    /\ overdue' = {Run(w) : w \in {x \in StallWorkers :
                       group[x].executing /\ now - group[x].begin >= WarnUs}}
    /\ UNCHANGED <<now, turn, begun, group, lastReport, pending, reports>>

\* now_us - begin_us is unsigned: a run younger than the scan would look old.
OverdueUnsigned(at, begin) == at < begin \/ at - begin >= WarnUs  \* mutant
Overdue(at, begin) == begin # 0 /\ at >= begin /\ at - begin >= WarnUs

\* One report per run: the begin time stands for it.
NewByCoroutine(w) ==  \* mutant
    ~\E r \in reports \cup pending : r.w = w /\ r.co = group[w].co
NewReport(w) == lastReport[w] # group[w].begin

Looks(w) ==
    /\ scan.on /\ w \in scan.left
    /\ scan' = [scan EXCEPT !.left = @ \ {w}]
    /\ \/ /\ group[w].executing /\ Overdue(scan.at, group[w].begin) /\ NewReport(w)
          /\ lastReport' = [lastReport EXCEPT ![w] = group[w].begin]
          /\ pending' = pending \cup {[w |-> w, co |-> group[w].co, begin |-> group[w].begin,
                                       ran |-> scan.at - group[w].begin, age |-> now - group[w].begin,
                                       again |-> \E r \in reports : r.w = w /\ r.begin = group[w].begin]}
       \/ /\ ~(group[w].executing /\ Overdue(scan.at, group[w].begin) /\ NewReport(w))
          /\ UNCHANGED <<lastReport, pending>>
    /\ UNCHANGED <<now, turn, begun, group, reports, overdue>>

\* The callbacks, or the lines on stderr.
ScanEnds ==
    /\ scan.on /\ scan.left = {}
    /\ scan' = NoScan /\ reports' = reports \cup pending /\ pending' = {} /\ overdue' = {}
    /\ UNCHANGED <<now, turn, begun, group, lastReport>>

StallNext ==
    \/ Ticks \/ ScanBegins \/ ScanEnds
    \/ \E w \in StallWorkers :
         ReadsClock(w) \/ YieldsBack(w) \/ Looks(w) \/ \E c \in StallCos : Publishes(w, c)

StallSpec == StallInit /\ [][StallNext]_stallVars

-----------------------------------------------------------------------------
(* Properties.                                                              *)

\* A report is about a run that is that old when it is looked at, also when
\* the run began after the scan took its time.
StallIsReal == \A r \in pending \cup reports : WarnUs <= r.ran /\ r.ran <= r.age

\* A stall is reported once: a run that was overdue when a scan began and still
\* is executing when it ends has been reported, by this scan or by an earlier
\* one, and no run twice - also the second stall of one coroutine.
StallReportedOnce ==
    /\ \A r \in pending \cup reports : ~r.again
    /\ scan.on /\ scan.left = {} =>
         \A w \in StallWorkers :
            group[w].executing /\ Run(w) \in overdue =>
                \E r \in pending \cup reports : r.w = w /\ r.begin = group[w].begin

\* What the stall scan reports (Scheduler::_FixTimingScan) is a stall, and each
\* one is reported exactly once.
StallReports == StallTypeOK /\ StallIsReal /\ StallReportedOnce
=============================================================================
