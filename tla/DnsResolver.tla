----------------------------- MODULE DnsResolver -----------------------------
(***************************************************************************)
(* detail/DnsResolver and the DNS calls of detail/Hook.  A call suspends   *)
(* its coroutine and leaves a job for the one resolver thread, which runs  *)
(* the blocking function and notifies.  The job of Await (getaddrinfo,     *)
(* getnameinfo, gethostbyname, gethostbyaddr) writes through references    *)
(* into the frame of the call; the one of AwaitBounded owns what it writes *)
(* to.  The wait is taken as CoWaiter has it: a notification, a cancel or  *)
(* the deadline ends it.                                                   *)
(***************************************************************************)
EXTENDS Naturals, Sequences, SequencesExt, FiniteSets

CONSTANTS
    Await, AwaitBounded,  \* calls, each made once
    CancelledCalls,       \* those whose coroutine may be cancelled
    MaxPendingJobs        \* kMaxPendingJobs

ASSUME DnsAssumption ==
    /\ Await \cap AwaitBounded = {} /\ CancelledCalls \subseteq Await \cup AwaitBounded
    /\ MaxPendingJobs \in Nat \ {0}

VARIABLES
    dnsPc,        \* idle, asking (suspended, callback to run), waiting, back, returned
    enqueued,     \* attempted and accepted: none, yes, no
    dnsWoken,     \* the waiter was notified
    dnsResult,    \* what the caller's frame holds: EAI_FAIL, or what the work wrote
    jobs,         \* m_queue
    hasThread,    \* m_thread
    job,          \* what the thread is at: <<call, "run" or "notify">>, or <<>>
    dangling      \* history: work that wrote into the frame of a call that had returned

dnsVars == <<dnsPc, enqueued, dnsWoken, dnsResult, jobs, hasThread, job, dangling>>

DnsCalls == Await \cup AwaitBounded

DnsTypeOK ==
    /\ dnsPc \in [DnsCalls -> {"idle", "asking", "waiting", "back", "returned"}]
    /\ enqueued \in [DnsCalls -> {"none", "yes", "no"}]
    /\ dnsWoken \subseteq DnsCalls
    /\ dnsResult \in [DnsCalls -> {"EAI_FAIL", "written"}]
    /\ jobs \in Seq(DnsCalls) /\ Len(jobs) <= MaxPendingJobs
    /\ hasThread \in BOOLEAN
    /\ job \in {<<>>} \cup (DnsCalls \X {"run", "notify"})
    /\ dangling \subseteq DnsCalls

DnsInit ==
    /\ dnsPc = [k \in DnsCalls |-> "idle"]
    /\ enqueued = [k \in DnsCalls |-> "none"]
    /\ dnsWoken = {}
    /\ dnsResult = [k \in DnsCalls |-> "EAI_FAIL"]
    /\ jobs = <<>> /\ hasThread = FALSE /\ job = <<>>
    /\ dangling = {}

-----------------------------------------------------------------------------
\* The call begins to wait, or is late, cancelled or cannot be registered.
Ask(k) ==
    /\ dnsPc[k] = "idle"
    /\ \E l \in {"asking", "back"} : dnsPc' = [dnsPc EXCEPT ![k] = l]
    /\ UNCHANGED <<enqueued, dnsWoken, dnsResult, jobs, hasThread, job, dangling>>

\* Enqueue, in the callback of the wait: refused when the queue is full or the
\* thread cannot be started; the caller then notifies itself.
StaysQueued(k) ==  \* mutant
    IF Len(jobs) < MaxPendingJobs THEN Append(jobs, k) ELSE jobs
Withdrawn(k) == jobs
InSilence(k) == {}  \* mutant
SelfNotified(k) == {k}
OneMore == Len(jobs) > MaxPendingJobs  \* mutant
QueueFull == Len(jobs) >= MaxPendingJobs
Enqueue(k) ==
    /\ dnsPc[k] = "asking"
    /\ dnsPc' = [dnsPc EXCEPT ![k] = "waiting"]
    /\ \/ /\ ~QueueFull
          /\ jobs' = Append(jobs, k)
          /\ hasThread' = TRUE
          /\ enqueued' = [enqueued EXCEPT ![k] = "yes"]
          /\ UNCHANGED dnsWoken
       \/ /\ QueueFull \/ ~hasThread
          /\ enqueued' = [enqueued EXCEPT ![k] = "no"]
          /\ dnsWoken' = dnsWoken \cup SelfNotified(k)
          /\ jobs' = Withdrawn(k)
          /\ UNCHANGED hasThread
    /\ UNCHANGED <<dnsResult, job, dangling>>

\* _Worker: take a job, run it, notify its waiter.
TakeJob ==
    /\ hasThread /\ job = <<>> /\ jobs # <<>>
    /\ job' = <<Head(jobs), "run">> /\ jobs' = Tail(jobs)
    /\ UNCHANGED <<dnsPc, enqueued, dnsWoken, dnsResult, hasThread, dangling>>
NotifyFirst ==  \* mutant
    /\ job # <<>> /\ job[2] = "run"
    /\ LET k == job[1] IN
       IF k \notin dnsWoken
       THEN dnsWoken' = dnsWoken \cup {k} /\ UNCHANGED <<job, dnsResult, dangling>>
       ELSE /\ job' = <<k, "notify">>
            /\ IF dnsPc[k] = "returned" /\ k \in Await
               THEN dangling' = dangling \cup {k} /\ UNCHANGED dnsResult
               ELSE dnsResult' = [dnsResult EXCEPT ![k] = "written"] /\ UNCHANGED dangling
            /\ UNCHANGED dnsWoken
    /\ UNCHANGED <<dnsPc, enqueued, jobs, hasThread>>
RunWork ==
    /\ job # <<>> /\ job[2] = "run"
    /\ LET k == job[1] IN
       /\ job' = <<k, "notify">>
       /\ IF dnsPc[k] = "returned" /\ k \in Await
          THEN dangling' = dangling \cup {k} /\ UNCHANGED dnsResult
          ELSE dnsResult' = [dnsResult EXCEPT ![k] = "written"] /\ UNCHANGED dangling
    /\ UNCHANGED <<dnsPc, enqueued, dnsWoken, jobs, hasThread>>
NotifyCaller ==
    /\ job # <<>> /\ job[2] = "notify"
    /\ dnsWoken' = dnsWoken \cup {job[1]}
    /\ job' = <<>>
    /\ UNCHANGED <<dnsPc, enqueued, dnsResult, jobs, hasThread, dangling>>

\* The wait ends: notified, cancelled or late.
WaitOver(k) ==
    /\ dnsPc[k] = "waiting"
    /\ k \in dnsWoken \cup AwaitBounded \cup CancelledCalls
    /\ dnsPc' = [dnsPc EXCEPT ![k] = "back"]
    /\ UNCHANGED <<enqueued, dnsWoken, dnsResult, jobs, hasThread, job, dangling>>
\* The call returns what its frame holds; the frame is gone.
DnsReturn(k) ==
    /\ dnsPc[k] = "back"
    /\ dnsPc' = [dnsPc EXCEPT ![k] = "returned"]
    /\ UNCHANGED <<enqueued, dnsWoken, dnsResult, jobs, hasThread, job, dangling>>

DnsNext ==
    \/ \E k \in DnsCalls : Ask(k) \/ Enqueue(k) \/ WaitOver(k) \/ DnsReturn(k)
    \/ TakeJob \/ RunWork \/ NotifyCaller

DnsSpec == DnsInit /\ [][DnsNext]_dnsVars

-----------------------------------------------------------------------------
(* Properties.                                                              *)

\* The work of Await writes into the frame of a call that is still there: the
\* coroutine does not return before the resolver thread has finished.
WorkInScope == dangling = {}

\* No call sleeps without somebody left to wake it: its job is queued (and there
\* is a thread) or being run, or it was notified.
DnsNotStranded == \A k \in DnsCalls : dnsPc[k] = "waiting" =>
    \/ k \in dnsWoken
    \/ hasThread /\ Contains(jobs, k)
    \/ job # <<>> /\ job[1] = k

\* The work of a call that was refused (-1, RuntimeUnavailable) never runs, also
\* when it was withdrawn because the thread could not be started.
RefusedNeverRuns == \A k \in DnsCalls : enqueued[k] = "no" =>
    ~Contains(jobs, k) /\ (job = <<>> \/ job[1] # k) /\ dnsResult[k] = "EAI_FAIL"

\* The resolver (DnsResolver::Await, AwaitBounded, _Worker) works for calls that are
\* still there, leaves none asleep, and never for one that was refused.
DnsSound == DnsTypeOK /\ WorkInScope /\ DnsNotStranded /\ RefusedNeverRuns
=============================================================================
