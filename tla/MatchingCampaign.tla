--------------------------- MODULE MatchingCampaign ---------------------------
(***************************************************************************)
(* A function-matching campaign (fid_matching_campaign.py): a run under a  *)
(* lock gives the cases that no qualified summary covers to worker         *)
(* processes, waits for them, aggregates the summaries of all cases and    *)
(* publishes hash evidence and a report.  The canary run takes some of the *)
(* cases of the full run, and both read and write the same summaries; the  *)
(* schedule chains a full run to a qualified canary.                       *)
(*                                                                         *)
(* An authority stands for the campaign's and the matching method's TOML   *)
(* files as they are after an edit; the code compares their two digests,   *)
(* which an edit that is taken back brings back.  Nobody edits them while  *)
(* a run is under way, and no edit changes the source run, the engine or   *)
(* the backend, which a summary is compared with apart.  The               *)
(* preflights (source harness, idle production, memory and disk floors)    *)
(* only refuse a run, which is a run that is not started here; scratch     *)
(* directories, and the archive of earlier attempts, which nothing reads,  *)
(* are left out.                                                           *)
(***************************************************************************)
EXTENDS Naturals, FiniteSets, FiniteSetsExt

CONSTANTS
    Cases, CanaryCases,     \* natural numbers
    WeightOf,               \* functions_hashed of each case
    TextOf, MethodOf,       \* the two digests of each authority
    Legacy,                 \* digests of campaigns that name no reference: the default
    PopulationOf,           \* the reference population of each authority
    MatchWorkers, CanaryWorkers,
    Runner, Scheduled,      \* processes that run campaigns; those of the schedule
    MaxAuthority,           \* bound: authorities, numbered as they are edited
    EditOf,                 \* the authority that each is an edit of
    MaxPublishes,           \* bound: hash evidence databases ever published
    MaxKilled,              \* bound: killed runners and workers, in all
    Absent

\* What load_campaign asks of the campaign's file.  Its
\* schedule's windows are not kept: a run may be started at any time.
CampaignAccepted ==
    /\ CanaryCases # {}
    /\ MatchWorkers \in 1..16 /\ CanaryWorkers \in 1..MatchWorkers

ASSUME CampaignAssumption ==
    /\ CampaignAccepted
    /\ Cases \subseteq Nat /\ IsFiniteSet(Cases) /\ CanaryCases \subseteq Cases
    /\ WeightOf \in [Cases -> Nat \ {0}]
    /\ MaxAuthority \in Nat \ {0} /\ DOMAIN PopulationOf = 1..MaxAuthority
    /\ DOMAIN TextOf = 1..MaxAuthority /\ DOMAIN MethodOf = 1..MaxAuthority
    /\ \A b \in 1..MaxAuthority : EditOf[b] < b
    /\ Scheduled \subseteq Runner
    /\ {MaxPublishes, MaxKilled} \subseteq Nat

VARIABLES
    authority,      \* the files in the repository: after which edit
    summaries,      \* cases/<case>/summary.json
    failures,       \* cases with a failure.json
    matchers,       \* worker processes, by number
    runners,        \* the runs
    evidence,       \* <mode>-hash-evidence.sqlite3: which publication
    reports,        \* <mode>-report.json
    campaign,       \* status.json
    survived,       \* history: a worker has outlived its runner
    killed

campaignVars == <<authority, summaries, failures, matchers, runners, evidence,
                  reports, campaign, survived, killed>>

-----------------------------------------------------------------------------
(* Largest first, onto the least loaded worker: how the cases are given    *)
(* out.  Cases are natural numbers, ordered as their names are.            *)

Heavier(c, d) == WeightOf[c] > WeightOf[d] \/ (WeightOf[c] = WeightOf[d] /\ c < d)

\* What worker i was given before case c had its turn.
LoadBefore(to, i, c) ==
    MapThenSumSet(LAMBDA d : WeightOf[d], {d \in DOMAIN to : Heavier(d, c) /\ to[d] = i})

\* Case c goes to the first of the workers with the least load.
ToLeastLoaded(to, count, c) ==
    \A i \in 1..count :
        \/ LoadBefore(to, to[c], c) < LoadBefore(to, i, c)
        \/ LoadBefore(to, to[c], c) = LoadBefore(to, i, c) /\ to[c] <= i

ChunkCount(cases, workers) ==
    IF workers < Cardinality(cases) THEN workers ELSE Cardinality(cases)

\* The worker of each case, when all are given out so.
BalancedChunks(cases, workers) ==
    {to \in [cases -> 1..ChunkCount(cases, workers)] :
        \A c \in cases : ToLeastLoaded(to, ChunkCount(cases, workers), c)}

-----------------------------------------------------------------------------
Modes == {"canary", "full"}
Resting == [step |-> "rest", mode |-> Absent, authority |-> Absent, report |-> Absent]

CampaignInit ==
    /\ authority = 1
    /\ summaries = [c \in Cases |-> Absent] /\ failures = {}
    /\ matchers = <<>>
    /\ runners = [r \in Runner |-> Resting]
    /\ evidence = [m \in Modes |-> 0]
    /\ reports = [m \in Modes |-> Absent]
    /\ campaign = "scheduled"
    /\ survived = FALSE /\ killed = 0

Expected(m) == IF m = "canary" THEN CanaryCases ELSE Cases

\* The two digests of a report are those of authority a.
SameDigests(b, a) == TextOf[b] = TextOf[a] /\ MethodOf[b] = MethodOf[a]

\* What a summary of authority b is compared with: its method, and its campaign
\* unless the campaign in force names no reference (legacy_default).
SameText(b, a) ==
    MethodOf[b] = MethodOf[a] /\ (TextOf[a] \in Legacy \/ TextOf[b] = TextOf[a])

\* Mutant: the authority of the summary is not compared.
ReusableOfAny(c, a) ==
    /\ summaries[c] # Absent
    /\ summaries[c].state = "qualified" /\ ~summaries[c].fallback

\* _reusable_case: a summary of the selected backend, which a case that fell
\* back to another one does not have.
Reusable(c, a) ==
    /\ summaries[c] # Absent
    /\ summaries[c].state = "qualified" /\ ~summaries[c].fallback
    /\ SameText(summaries[c].authority, a)

-----------------------------------------------------------------------------
(* _aggregate, _terminal_campaign_report, campaign_status.                 *)

Qualified(m) == {c \in Expected(m) : summaries[c] # Absent /\ summaries[c].state = "qualified"}

Failed(m) == {c \in Expected(m) : IF summaries[c] = Absent THEN c \in failures
                                  ELSE summaries[c].state # "qualified"}

\* The reference populations that the summaries' receipts name.
Populations(m) == {PopulationOf[summaries[c].authority] : c \in Qualified(m)}

AggregateCases(m, a) ==
    LET failed == Failed(m) # {} \/ Cardinality(Populations(m)) > 1
        whole == Qualified(m) = Expected(m) /\ ~failed
        contract == \A c \in Qualified(m) : ~summaries[c].fallback
    IN [authority |-> a,
        state |-> IF m = "canary" /\ whole /\ contract THEN "qualified"
                  ELSE IF m = "full" /\ whole THEN "measured-complete"
                  ELSE IF failed THEN "incomplete-or-failed"
                  ELSE IF Qualified(m) # {} THEN "partial" ELSE "pending",
        counted |-> {summaries[c].authority : c \in Qualified(m)},
        clean |-> contract]

Finished(report) == report.state \in {"qualified", "measured-complete"}

TerminalReport(m, a) ==
    reports[m] # Absent /\ Finished(reports[m]) /\ SameDigests(reports[m].authority, a)

\* The state of a report, or of the aggregate when there is no report.
StatusOf(m) ==
    IF reports[m] = Absent THEN AggregateCases(m, authority).state
    ELSE IF ~SameDigests(reports[m].authority, authority) THEN "stale-authority"
    ELSE reports[m].state

-----------------------------------------------------------------------------
(* run_campaign and scheduled_campaign.                                    *)

\* Mutant: the lock is not asked for.
LockNotAsked == TRUE

LockIsFree == \A r \in Runner : runners[r].step \in {"rest", "start"}
RunnerMoves(r, step) == runners' = [runners EXCEPT ![r].step = step]
Asks(r, m) == runners' = [runners EXCEPT ![r] =
                             [Resting EXCEPT !.step = "start", !.mode = m, !.authority = authority]]

NothingPending == StatusOf("full") = "measured-complete"

\* The schedule's window is open; it asks for what is pending.
Schedule(r) ==
    /\ r \in Scheduled /\ runners[r].step = "rest"
    /\ ~NothingPending
    /\ Asks(r, IF StatusOf("canary") = "qualified" THEN "full" ELSE "canary")
    /\ UNCHANGED <<authority, summaries, failures, matchers, evidence, reports,
                   campaign, survived, killed>>

\* run-matcher: no canary is asked for.
Operate(r) ==
    /\ r \notin Scheduled /\ runners[r].step = "rest"
    /\ \E m \in Modes : Asks(r, m)
    /\ UNCHANGED <<authority, summaries, failures, matchers, evidence, reports,
                   campaign, survived, killed>>

Matcher(m, a, chunk) ==
    [mode |-> m, authority |-> a, todo |-> chunk, step |-> "next", orphan |-> FALSE]

Pending(m, a) == {c \in Expected(m) : ~Reusable(c, a)}

WorkersOf(m) == IF m = "canary" THEN CanaryWorkers ELSE MatchWorkers

\* New workers, each with the cases that to gives it.
SpawnMatchers(m, a, to, count) ==
    LET last == Max({0} \cup DOMAIN matchers)
        new == {last + i : i \in 1..count}
    IN  matchers' = [w \in DOMAIN matchers \cup new |->
                        IF w \in new THEN Matcher(m, a, {c \in DOMAIN to : to[c] = w - last})
                        ELSE matchers[w]]

\* The lock is tried once.  Without pending cases a terminal report is the
\* answer; otherwise the status says running and the workers are spawned.
StartCampaign(r) ==
    LET m == runners[r].mode
        a == runners[r].authority
        todo == Pending(m, a) IN
    /\ runners[r].step = "start"
    /\ IF ~LockIsFree \/ (todo = {} /\ TerminalReport(m, a))
       THEN runners' = [runners EXCEPT ![r] = Resting] /\ UNCHANGED <<matchers, campaign>>
       ELSE /\ RunnerMoves(r, "wait") /\ campaign' = "running"
            /\ \E to \in BalancedChunks(todo, WorkersOf(m)) :
                  SpawnMatchers(m, a, to, ChunkCount(todo, WorkersOf(m)))
    /\ UNCHANGED <<authority, summaries, failures, evidence, reports, survived, killed>>

Mine == {w \in DOMAIN matchers : ~matchers[w].orphan}
Exited(w) == matchers[w].step \in {"exit", "dead"}

\* All workers were waited for, and their return codes are recorded: clean
\* is a report without a dead worker and without a fallback.
AggregateRun(r) ==
    /\ runners[r].step = "wait" /\ \A w \in Mine : Exited(w)
    /\ runners' = [runners EXCEPT ![r].step = "publish",
          ![r].report = [AggregateCases(runners[r].mode, runners[r].authority) EXCEPT !.clean =
                            @ /\ \A w \in Mine : matchers[w].step # "dead"]]
    /\ matchers' = [w \in DOMAIN matchers \ Mine |-> matchers[w]]
    /\ UNCHANGED <<authority, summaries, failures, evidence, reports, campaign,
                   survived, killed>>

\* _publish_hash_evidence writes aside and renames ...
PublishEvidence(r) ==
    LET next == Max({evidence[m] : m \in Modes}) + 1 IN
    /\ runners[r].step = "publish" /\ next <= MaxPublishes
    /\ evidence' = [evidence EXCEPT ![runners[r].mode] = next]
    /\ RunnerMoves(r, "report")
    /\ UNCHANGED <<authority, summaries, failures, matchers, reports, campaign,
                   survived, killed>>

\* ... and the report names its digest.
WriteReport(r) ==
    LET m == runners[r].mode
        report == runners[r].report IN
    /\ runners[r].step = "report"
    /\ reports' = [reports EXCEPT ![m] =
          [f \in DOMAIN report \cup {"evidence"} |->
              IF f = "evidence" THEN evidence[m] ELSE report[f]]]
    /\ RunnerMoves(r, "status")
    /\ UNCHANGED <<authority, summaries, failures, matchers, evidence, campaign,
                   survived, killed>>

\* The status and the release of the lock; the schedule chains the full run
\* to a canary that qualified.
EndCampaign(r) ==
    /\ runners[r].step = "status"
    /\ campaign' = IF Finished(runners[r].report) THEN "complete" ELSE "failed"
    /\ IF r \in Scheduled /\ runners[r].report.state = "qualified"
       THEN Asks(r, "full") ELSE runners' = [runners EXCEPT ![r] = Resting]
    /\ UNCHANGED <<authority, summaries, failures, matchers, evidence, reports,
                   survived, killed>>

\* A runner is killed, or an exception ends it: the lock goes, the status
\* still says running, and its workers, in sessions of their own, go on.
StopCampaign(r) ==
    /\ runners[r].step \notin {"rest", "start"} /\ killed < MaxKilled
    /\ killed' = killed + 1
    /\ runners' = [runners EXCEPT ![r] = Resting]
    /\ survived' = (survived \/ \E w \in Mine : ~Exited(w))
    /\ matchers' = [w \in {v \in DOMAIN matchers : ~Exited(v)} |->
                       [matchers[w] EXCEPT !.orphan = TRUE]]
    /\ UNCHANGED <<authority, summaries, failures, evidence, reports, campaign>>

\* The files of the authority are edited between runs.
ChangeAuthority ==
    /\ \A r \in Runner : runners[r].step = "rest"
    /\ \E b \in 1..MaxAuthority : EditOf[b] = authority /\ authority' = b
    /\ UNCHANGED <<summaries, failures, matchers, runners, evidence, reports,
                   campaign, survived, killed>>

-----------------------------------------------------------------------------
(* worker_cases.                                                           *)

MatcherMoves(w, step) == matchers' = [matchers EXCEPT ![w].step = step]
\* The case that has its turn: the heaviest of those left.
HeadCase(w) ==
    CHOOSE c \in matchers[w].todo : \A d \in matchers[w].todo \ {c} : Heavier(c, d)
DropCase(w) ==
    matchers' = [matchers EXCEPT ![w].todo = @ \ {HeadCase(w)}, ![w].step = "next"]
CampaignQuiet == UNCHANGED <<authority, runners, evidence, reports, campaign, survived>>

\* The next case, unless somebody qualified it under this authority.
LookAtCase(w) ==
    /\ matchers[w].step = "next" /\ matchers[w].todo # {}
    /\ IF Reusable(HeadCase(w), matchers[w].authority) THEN DropCase(w)
       ELSE MatcherMoves(w, "archive")
    /\ CampaignQuiet /\ UNCHANGED <<summaries, failures, killed>>

\* _archive_prior_case_evidence moves summary and failure away.
ArchiveCase(w) ==
    /\ matchers[w].step = "archive"
    /\ summaries' = [summaries EXCEPT ![HeadCase(w)] = Absent]
    /\ failures' = failures \ {HeadCase(w)}
    /\ MatcherMoves(w, "match")
    /\ CampaignQuiet /\ UNCHANGED killed

\* A summary, or the failure of an exception.  Only a canary replays the
\* oracle, and only it can find a mismatch.
EndMatch(w) ==
    LET c == HeadCase(w) IN
    /\ matchers[w].step = "match"
    /\ \/ \E s \in {"qualified", "mismatch"}, fallback \in BOOLEAN :
             /\ s = "mismatch" => matchers[w].mode = "canary"
             /\ summaries' = [summaries EXCEPT ![c] =
                   [authority |-> matchers[w].authority, state |-> s, fallback |-> fallback]]
             /\ DropCase(w) /\ UNCHANGED failures
       \/ failures' = failures \cup {c} /\ DropCase(w) /\ UNCHANGED summaries
    /\ CampaignQuiet /\ UNCHANGED killed

ExitMatcher(w) ==
    /\ matchers[w].step = "next" /\ matchers[w].todo = {}
    /\ MatcherMoves(w, "exit")
    /\ CampaignQuiet /\ UNCHANGED <<summaries, failures, killed>>

MatcherDies(w) ==
    /\ ~Exited(w) /\ killed < MaxKilled
    /\ killed' = killed + 1
    /\ MatcherMoves(w, "dead")
    /\ CampaignQuiet /\ UNCHANGED <<summaries, failures>>

CampaignNext ==
    \/ \E r \in Runner :
          \/ Schedule(r) \/ Operate(r) \/ StartCampaign(r) \/ AggregateRun(r)
          \/ PublishEvidence(r) \/ WriteReport(r) \/ EndCampaign(r) \/ StopCampaign(r)
    \/ \E w \in DOMAIN matchers :
          \/ LookAtCase(w) \/ ArchiveCase(w) \/ EndMatch(w) \/ ExitMatcher(w) \/ MatcherDies(w)
    \/ ChangeAuthority

CampaignSpec == CampaignInit /\ [][CampaignNext]_campaignVars

-----------------------------------------------------------------------------
CampaignTypeOK ==
    /\ authority \in 1..MaxAuthority
    /\ \A c \in Cases : summaries[c] # Absent =>
          summaries[c] \in [authority : 1..authority, state : {"qualified", "mismatch"},
                            fallback : BOOLEAN]
    /\ failures \subseteq Cases
    /\ \A c \in failures : ~survived => summaries[c] = Absent
    /\ Cardinality(Mine) <= Max({MatchWorkers, CanaryWorkers})
    /\ Cardinality({r \in Runner : runners[r].step \notin {"rest", "start"}}) <= 1
    /\ campaign \in {"scheduled", "running", "complete", "failed"}

\* validation/README.md: completed cases are reused only when their authority
\* still agrees, and the report names the hash evidence it was made with.  A
\* finished report that no worker's death and no fallback went into counts
\* only summaries of its own method and, if its campaign names a reference, of
\* its own campaign: the default campaign counts those of earlier texts too,
\* which fid_matching_campaign.py:656 does not compare.  Until the files are
\* edited again the evidence in place is the one the report names: through
\* canary and full runs over the same cases, edits of the authority, kills,
\* and runs that find no pending case.
ReportsSound ==
    \A m \in Modes :
        LET report == reports[m] IN
        report # Absent /\ Finished(report) /\ report.clean /\ ~survived =>
            /\ \A b \in report.counted : SameText(b, report.authority)
            /\ report.authority = authority => evidence[m] = report.evidence

\* A terminal campaign compacts its observations into hash evidence
\* (validation/README.md): the schedule has nothing pending only then.
NothingPendingPublished == NothingPending /\ LockIsFree => reports["full"] # Absent
=============================================================================
