------------------------------ MODULE Ecological ------------------------------
(***************************************************************************)
(* Ecological validation (ecological_validation.py): a binary is imported  *)
(* into a case of its own, a start queues the case and spawns a process,   *)
(* the process takes the runner's lock, analyses the binary against the    *)
(* compatible lane databases, and writes a report and the case's state.    *)
(* The API's threads and the processes all rewrite one case.json whole,    *)
(* each from what it read before, and nothing but the lock orders them.    *)
(*                                                                         *)
(* The lane databases are a number, that of their latest generation.       *)
(***************************************************************************)
EXTENDS Naturals, Sequences, FiniteSets

CONSTANTS EcoCase, Starter, Analyst,  \* cases, API threads, processes
          MaxGenerations, MaxEcoStarts, MaxEcoKills   \* bounds

VARIABLES
    caseFile,       \* case.json: "absent", or the state it says
    directory,      \* cases whose directory exists
    starters,       \* API thread -> <<>> or <<[case, at]>>
    analysts,       \* process -> <<>> or <<[case, at, corpus]>>
    runnerLock,     \* the lock file exists
    corpora,        \* the latest lane generation, 0 for none
    ecoReport,      \* the generation a case's report was measured on, 0 for none
    excused,        \* what left a case in a state that no process will change
    ecoStarts, ecoKills

ecoVars == <<caseFile, directory, starters, analysts, runnerLock, corpora, ecoReport,
             excused, ecoStarts, ecoKills>>

EcologicalInit ==
    /\ caseFile = [c \in EcoCase |-> "absent"] /\ directory = {}
    /\ starters = [s \in Starter |-> <<>>] /\ analysts = [a \in Analyst |-> <<>>]
    /\ runnerLock = FALSE /\ corpora = 0
    /\ ecoReport = [c \in EcoCase |-> 0]
    /\ excused = {} /\ ecoStarts = 0 /\ ecoKills = 0

InHand(s, at) == starters[s] # <<>> /\ starters[s][1].at = at
Analysing(a, at) == analysts[a] # <<>> /\ analysts[a][1].at = at
HandedTo(s, row) == starters' = [starters EXCEPT ![s] = <<row>>]
CaseOf(p) == p[1].case
GoesOn(a, at) ==
    analysts' = [analysts EXCEPT ![a] =
        <<[case |-> CaseOf(analysts[a]), at |-> at, corpus |-> analysts[a][1].corpus]>>]
WriteCase(c, says) == caseFile' = [caseFile EXCEPT ![c] = says]

\* load_ecological_validation and detect_lane_inventory: a new generation.
NewLane ==
    /\ corpora < MaxGenerations
    /\ corpora' = corpora + 1
    /\ UNCHANGED <<caseFile, directory, starters, analysts, runnerLock, ecoReport, excused,
                   ecoStarts, ecoKills>>

-----------------------------------------------------------------------------
(* import_ecological_binary: the directory, then the bytes, then case.json *)

ImportDirectory(s, c) ==
    /\ starters[s] = <<>> /\ c \notin directory
    /\ directory' = directory \union {c}
    /\ HandedTo(s, [case |-> c, at |-> "import"])
    /\ UNCHANGED <<caseFile, analysts, runnerLock, corpora, ecoReport, excused, ecoStarts,
                   ecoKills>>

ImportManifest(s) ==
    /\ InHand(s, "import")
    /\ WriteCase(CaseOf(starters[s]), "imported")
    /\ starters' = [starters EXCEPT ![s] = <<>>]
    /\ UNCHANGED <<directory, analysts, runnerLock, corpora, ecoReport, excused, ecoStarts,
                   ecoKills>>

-----------------------------------------------------------------------------
(* start_ecological_case                                                   *)

Startable(c) == caseFile[c] \in {"imported", "complete", "failed"} /\ corpora # 0

\* The case is read once; whatever it says is written again with its state.
BeginStart(s, c) ==
    /\ starters[s] = <<>> /\ ecoStarts < MaxEcoStarts /\ Startable(c)
    /\ ecoStarts' = ecoStarts + 1
    /\ HandedTo(s, [case |-> c, at |-> "queue"])
    /\ UNCHANGED <<caseFile, directory, analysts, runnerLock, corpora, ecoReport, excused,
                   ecoKills>>

QueueCase(s) ==
    /\ InHand(s, "queue")
    /\ WriteCase(CaseOf(starters[s]), "queued")
    /\ HandedTo(s, [case |-> CaseOf(starters[s]), at |-> "spawn"])
    /\ UNCHANGED <<directory, analysts, runnerLock, corpora, ecoReport, excused, ecoStarts,
                   ecoKills>>

SpawnAnalyst(s, a) ==
    /\ InHand(s, "spawn") /\ analysts[a] = <<>>
    /\ HandedTo(s, [case |-> CaseOf(starters[s]), at |-> "pid"])
    /\ analysts' = [analysts EXCEPT ![a] =
          <<[case |-> CaseOf(starters[s]), at |-> "begin", corpus |-> 0]>>]
    /\ UNCHANGED <<caseFile, directory, runnerLock, corpora, ecoReport, excused, ecoStarts,
                   ecoKills>>

\* The process could not be started.
SpawnFails(s) ==
    /\ InHand(s, "spawn")
    /\ WriteCase(CaseOf(starters[s]), "failed")
    /\ starters' = [starters EXCEPT ![s] = <<>>]
    /\ UNCHANGED <<directory, analysts, runnerLock, corpora, ecoReport, excused, ecoStarts,
                   ecoKills>>

\* The pid is added to the queued case, over anything its process wrote.
WritePid(s) ==
    LET c == CaseOf(starters[s]) IN
    /\ InHand(s, "pid")
    /\ WriteCase(c, "queued")
    /\ starters' = [starters EXCEPT ![s] = <<>>]
    /\ excused' = IF caseFile[c] = "queued" THEN excused ELSE excused \union {<<c, "overwritten">>}
    /\ UNCHANGED <<directory, analysts, runnerLock, corpora, ecoReport, ecoStarts, ecoKills>>

-----------------------------------------------------------------------------
(* run_ecological_case, in a process of its own                            *)

\* The case and its corpus are read before the lock is taken.
ReadCase(a) ==
    /\ Analysing(a, "begin")
    /\ analysts' = [analysts EXCEPT
          ![a] = <<[case |-> CaseOf(analysts[a]), at |-> "lock", corpus |-> corpora]>>]
    /\ UNCHANGED <<caseFile, directory, starters, runnerLock, corpora, ecoReport, excused,
                   ecoStarts, ecoKills>>

\* Mutant: a lock file that exists is taken over.
LockAlways == TRUE

LockFree == ~runnerLock

TakeRunnerLock(a) ==
    /\ Analysing(a, "lock") /\ LockFree
    /\ runnerLock' = TRUE
    /\ GoesOn(a, "running")
    /\ UNCHANGED <<caseFile, directory, starters, corpora, ecoReport, excused, ecoStarts,
                   ecoKills>>

\* Another validation is running: the process ends and writes nothing.
FindLock(a) ==
    /\ Analysing(a, "lock") /\ ~LockFree
    /\ analysts' = [analysts EXCEPT ![a] = <<>>]
    /\ excused' = excused \union {<<CaseOf(analysts[a]), "refused">>}
    /\ UNCHANGED <<caseFile, directory, starters, runnerLock, corpora, ecoReport, ecoStarts,
                   ecoKills>>

RunCase(a) ==
    /\ Analysing(a, "running")
    /\ WriteCase(CaseOf(analysts[a]), "running")
    /\ GoesOn(a, "report")
    /\ UNCHANGED <<directory, starters, runnerLock, corpora, ecoReport, excused, ecoStarts,
                   ecoKills>>

\* Digest, analysis, matches and truth; the report names the corpus of before.
WriteCaseReport(a) ==
    /\ Analysing(a, "report")
    /\ ecoReport' = [ecoReport EXCEPT ![CaseOf(analysts[a])] = analysts[a][1].corpus]
    /\ GoesOn(a, "complete")
    /\ UNCHANGED <<caseFile, directory, starters, runnerLock, corpora, excused, ecoStarts,
                   ecoKills>>

EndCase(a, says) ==
    /\ WriteCase(CaseOf(analysts[a]), says)
    /\ GoesOn(a, "unlock")
    /\ UNCHANGED <<directory, starters, runnerLock, corpora, ecoReport, excused, ecoStarts,
                   ecoKills>>

CompleteCase(a) == Analysing(a, "complete") /\ EndCase(a, "complete")

\* Any error of the analysis.
FailCase(a) == (Analysing(a, "report") \/ Analysing(a, "complete")) /\ EndCase(a, "failed")

ReleaseRunnerLock(a) ==
    /\ Analysing(a, "unlock")
    /\ runnerLock' = FALSE
    /\ analysts' = [analysts EXCEPT ![a] = <<>>]
    /\ UNCHANGED <<caseFile, directory, starters, corpora, ecoReport, excused, ecoStarts,
                   ecoKills>>

-----------------------------------------------------------------------------
\* A kill leaves the lock file and whatever case.json says.
KillAnalyst(a) ==
    /\ analysts[a] # <<>> /\ ecoKills < MaxEcoKills
    /\ ecoKills' = ecoKills + 1
    /\ analysts' = [analysts EXCEPT ![a] = <<>>]
    /\ excused' = excused \union {<<CaseOf(analysts[a]), "killed">>}
    /\ UNCHANGED <<caseFile, directory, starters, runnerLock, corpora, ecoReport, ecoStarts>>

KillStarter(s) ==
    /\ starters[s] # <<>> /\ ecoKills < MaxEcoKills
    /\ ecoKills' = ecoKills + 1
    /\ starters' = [starters EXCEPT ![s] = <<>>]
    /\ excused' = excused \union {<<CaseOf(starters[s]), "killed">>}
    /\ UNCHANGED <<caseFile, directory, analysts, runnerLock, corpora, ecoReport, ecoStarts>>

EcologicalNext ==
    \/ NewLane
    \/ \E s \in Starter :
          \/ \E c \in EcoCase : ImportDirectory(s, c) \/ BeginStart(s, c)
          \/ ImportManifest(s) \/ QueueCase(s) \/ SpawnFails(s) \/ WritePid(s) \/ KillStarter(s)
          \/ \E a \in Analyst : SpawnAnalyst(s, a)
    \/ \E a \in Analyst :
          \/ ReadCase(a) \/ TakeRunnerLock(a) \/ FindLock(a) \/ RunCase(a) \/ WriteCaseReport(a)
          \/ CompleteCase(a) \/ FailCase(a) \/ ReleaseRunnerLock(a) \/ KillAnalyst(a)

EcologicalSpec == EcologicalInit /\ [][EcologicalNext]_ecoVars

-----------------------------------------------------------------------------
EcologicalTypeOK ==
    /\ \A c \in EcoCase : caseFile[c] # "absent" => c \in directory
    /\ \A s \in Starter : Len(starters[s]) <= 1
    /\ \A a \in Analyst : Len(analysts[a]) <= 1

\* The processes that hold, or think they hold, the runner's lock.
Holders == {a \in Analyst : analysts[a] # <<>> /\ analysts[a][1].at \notin {"begin", "lock"}}

\* Who may still write a case's state.
Minded(c) ==
    \/ \E s \in Starter : starters[s] # <<>> /\ CaseOf(starters[s]) = c
    \/ \E a \in Analyst : analysts[a] # <<>> /\ CaseOf(analysts[a]) = c

\* One analysis at a time (max_concurrent_runs = 1), a complete case has its
\* report, and a case whose state refuses every start has somebody who will
\* still write it, unless a process was killed, found the lock of another
\* one, or wrote its state before its starter wrote the pid (run_ecological_case
\* and start_ecological_case).
CasesSettled ==
    /\ Cardinality(Holders) <= 1
    /\ \A c \in EcoCase :
          /\ caseFile[c] = "complete" => ecoReport[c] # 0
          /\ caseFile[c] \in {"queued", "running"} =>
                Minded(c) \/ \E why \in {"killed", "refused", "overwritten"} : <<c, why>> \in excused
=============================================================================
