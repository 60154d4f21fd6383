-------------------------- MODULE MaintenanceProofs --------------------------
(***************************************************************************)
(* What the operators' commands leave behind, for any number of operators, *)
(* pullers, populations, revisions of a route, kills and faults: a package *)
(* is bound to the population that its receipt restores, unless a          *)
(* safeguard crossed its build, every resolved tool is the reviewed one,   *)
(* and no record of a verified source is lost.                             *)
(*                                                                         *)
(* A command resolves what it needs at its first step and works from that  *)
(* until its last; what it resolved is shown to stay true of the stores    *)
(* (SafeguardStands, BuildStands, CommandsSound, PullSound).               *)
(***************************************************************************)
EXTENDS MCMaintenance, FiniteSetTheorems, WellFoundedInduction, TLAPS

-----------------------------------------------------------------------------
(* The retention of evidence.                                              *)
(*                                                                         *)
(* What a collection takes, for any jobs, runs, holds, processes and       *)
(* accidents, is written down before or was never evidence; and a plan in  *)
(* force removes nothing that was held when its apply took the lock.       *)
(*                                                                         *)
(* The ledger, the directories and the holds change under a collector that *)
(* read them one after the other, so nothing it has read need still hold.  *)
(* What a collection relies on is history: an attempt that has ended stays *)
(* as it ended, a receipt is never taken back, a bundle is never removed   *)
(* and a complete run stays complete (HistoryKept).  An action of a plan   *)
(* is sound for good once it was sound when the plan was compiled.         *)

-----------------------------------------------------------------------------
(* The invariant.                                                          *)

RowStates == {"queued", "leased", "complete", "failed"}
Attempts == [state : {"leased", "completed"} \cup Ended, error : Error \cup {"none", "expired"}]
LedgerRows == [QueueJob -> [state : RowStates, attempts : Seq(Attempts)]]
RunRows == [state : {"running", "retaining", "complete", "failed"},
            scratch : BOOLEAN, composites : BOOLEAN, bound : BOOLEAN,
            retention : {"none", "not-applied", "complete"}]
CollectorSteps == Locked \cup {"idle", "planned", "parked"}
WithPlan == {"planned", "checked", "replanning", "rereading", "applying", "removing"}

\* The newest attempt of a leased job is leased.
LedgerFit ==
    /\ ledger \in LedgerRows
    /\ \A j \in QueueJob :
          /\ Len(ledger[j].attempts) <= MaxAttempt
          /\ ledger[j].state = "leased" =>
                Newest(j) > 0 /\ ledger[j].attempts[Newest(j)].state = "leased"

Directories == [QueueJob -> [1..MaxAttempt -> {"none", "moved", "gone"} \cup OnDisk]]

DiskFit ==
    /\ staging \in Directories
    /\ published \in [QueueJob -> {"none", "whole", "pruned"}]
    /\ receipts \subseteq QueueJob /\ holds \subseteq Hold
    /\ runs \in [Run -> RunRows]

\* What an action removes may be removed, now and for good.
ActionSound(a) ==
    \/ /\ a.kind = "bundle" /\ a.of \in QueueJob
       /\ \A g \in a.paths : /\ g \in DOMAIN ledger[a.of].attempts
                             /\ ledger[a.of].attempts[g].state \in Ended
                             /\ ledger[a.of].attempts[g].error = a.error
    \/ a.kind = "success" /\ a.of \in receipts
    \/ a.kind \in {"scratch", "composites"} /\ a.of \in Run /\ runs[a.of].state = "complete"

OneBundle(actions) ==
    \A a, d \in actions : a.kind = "bundle" /\ d.kind = "bundle" /\ a.of = d.of => a = d

\* Rows that were read before: an attempt that had ended by then is as it was.
RowsOld(rows) ==
    /\ rows \in LedgerRows
    /\ \A j \in QueueJob :
          /\ Len(rows[j].attempts) <= MaxAttempt
          /\ \A g \in DOMAIN rows[j].attempts :
                rows[j].attempts[g].state \in Ended =>
                    /\ g \in DOMAIN ledger[j].attempts
                    /\ ledger[j].attempts[g] = rows[j].attempts[g]

Bundled(j, g, e) == \E b \in bundles : b.job = j /\ g \in b.attempts /\ b.error = e

\* A bundle is what the one bundle action of its plan for that job asks for.
BundlesFit ==
    /\ \A b \in bundles :
          /\ OneBundle(b.plan.actions)
          /\ \E a \in b.plan.actions : /\ a.kind = "bundle" /\ a.of = b.job
                                       /\ a.paths = b.attempts /\ a.error = b.error
    /\ \A b, d \in bundles :
          b.job = d.job /\ b.error = d.error /\ b.attempt = d.attempt => b = d

IsCollector(x) == DOMAIN x = {"step", "plan", "held", "rows", "promised", "todo", "left"}

\* What a collecting process relies on at each step.
CollectorSound(x) ==
    /\ IsCollector(x) /\ x.step \in CollectorSteps
    /\ x.step \in {"reading", "rereading"} => RowsOld(x.rows)
    /\ x.step \in WithPlan =>
          OneBundle(x.plan.actions) /\ \A a \in x.plan.actions : ActionSound(a)
    /\ x.step \in {"checked", "replanning", "rereading"} => x.promised \subseteq holds
    /\ x.step \in {"replanning", "rereading"} => x.promised \subseteq x.held
    /\ x.step \in {"applying", "removing"} => x.todo \subseteq x.plan.actions
    /\ x.step = "removing" => \A l \in x.left :
          /\ l.action \in x.plan.actions /\ l.path \in l.action.paths
          /\ l.action.kind = "bundle" => Bundled(l.action.of, l.path, l.action.error)

CollectorsFit ==
    /\ DOMAIN collector = Collector
    /\ \A c \in Collector : CollectorSound(collector[c])
    /\ \A c, d \in Collector :
          collector[c].step \in Locked /\ collector[d].step \in Locked => c = d

\* What the directories and bundles say of ended attempts, per attempt.
EvidenceAt(j, g) ==
    staging[j][g] \in {"gone", "partial"} =>
        /\ ledger[j].attempts[g].state \in Ended
        /\ Bundled(j, g, ledger[j].attempts[g].error)

EvidenceSafe ==
    /\ \A j \in QueueJob : \A g \in DOMAIN ledger[j].attempts : EvidenceAt(j, g)
    /\ \A j \in QueueJob : published[j] = "pruned" => j \in receipts
    /\ \A r \in Run : runs[r].state \in {"retaining", "failed"} =>
          runs[r].scratch /\ runs[r].composites

RetentionInv == LedgerFit /\ DiskFit /\ BundlesFit /\ CollectorsFit /\ EvidenceSafe

-----------------------------------------------------------------------------
(* The newest attempt of a set of attempts.                                 *)

\* A set of natural numbers has a least one (the order is well-founded).
LEMMA LeastNatural ==
    ASSUME NEW T \in SUBSET Nat, T # {}
    PROVE  \E x \in T : \A y \in T : x <= y
<1> DEFINE R == OpToRel(<, Nat)
<1>1. IsWellFoundedOn(R, Nat)
    BY NatLessThanWellFounded
<1>2. \A x, y \in Nat : <<y, x>> \in R <=> y < x
    BY DEF OpToRel
<1> HIDE DEF R
<1>3. \E x \in T : \A y \in T : ~ (<<y, x>> \in R)
    BY <1>1, WFMin
<1>4. PICK x \in T : \A y \in T : ~ (<<y, x>> \in R)
    BY <1>3
<1>5. ASSUME NEW y \in T PROVE x <= y
  <2>1. x \in Nat /\ y \in Nat
      OBVIOUS
  <2>2. ~ (y < x)
      BY <1>2, <1>4, <2>1
  <2> QED
      BY <2>1, <2>2
<1> QED
    BY <1>5

\* A set of attempts has a newest one.
LEMMA LatestIs ==
    ASSUME NEW G \in SUBSET (1..MaxAttempt), G # {}
    PROVE  Latest(G) \in G
<1> DEFINE n == MaxAttempt
           T == {n - g : g \in G}
<1>1. n \in Nat
    BY RetentionAssumption
<1>2. T \in SUBSET Nat /\ T # {}
  <2>1. \A g \in G : g \in 1..n /\ n - g \in Nat
      BY <1>1
  <2>2. PICK g \in G : TRUE
      OBVIOUS
  <2>3. n - g \in T
      BY <2>2
  <2> QED
      BY <2>1, <2>3
<1>3. PICK x \in T : \A y \in T : x <= y
    BY <1>2, LeastNatural
<1>4. PICK g \in G : x = n - g
    BY <1>3
<1>5. \A h \in G : h <= g
    BY <1>1, <1>3, <1>4
<1> QED
    BY <1>5 DEF Latest

-----------------------------------------------------------------------------
(* Initial states, and what no step takes back.                            *)

LEMMA RetentionStart == RetentionInit => RetentionInv
<1> SUFFICES ASSUME RetentionInit PROVE RetentionInv
    OBVIOUS
<1>1. LedgerFit
    BY RetentionAssumption DEF RetentionInit, LedgerFit, LedgerRows, RowStates
<1>2. DiskFit
  <2>1. [state |-> "running", scratch |-> FALSE, composites |-> FALSE,
         bound |-> FALSE, retention |-> "none"] \in RunRows
      BY DEF RunRows
  <2> QED
      BY <2>1 DEF RetentionInit, DiskFit, Directories
<1>3. BundlesFit
    BY DEF RetentionInit, BundlesFit
<1>4. CollectorsFit
    BY DEF RetentionInit, CollectorsFit, CollectorSound, IsCollector, NotCollecting,
       CollectorSteps, WithPlan, Locked, Compiling
<1>5. EvidenceSafe
    BY DEF RetentionInit, EvidenceSafe
<1> QED
    BY <1>1, <1>2, <1>3, <1>4, <1>5 DEF RetentionInv

-----------------------------------------------------------------------------
\* What no step takes back: ended attempts, receipts, holds, bundles, complete runs.
HistoryKept ==
    /\ \A j \in QueueJob : \A g \in DOMAIN ledger[j].attempts :
          ledger[j].attempts[g].state \in Ended =>
              g \in DOMAIN ledger'[j].attempts /\ ledger'[j].attempts[g] = ledger[j].attempts[g]
    /\ receipts \subseteq receipts' /\ bundles \subseteq bundles' /\ holds \subseteq holds'
    /\ \A r \in Run : runs[r].state = "complete" => runs'[r].state = "complete"

LEMMA ActionsStay ==
    ASSUME NEW a, ActionSound(a), HistoryKept
    PROVE  ActionSound(a)'
<1>1. CASE /\ a.kind = "bundle" /\ a.of \in QueueJob
           /\ \A g \in a.paths : /\ g \in DOMAIN ledger[a.of].attempts
                                 /\ ledger[a.of].attempts[g].state \in Ended
                                 /\ ledger[a.of].attempts[g].error = a.error
    BY <1>1 DEF ActionSound, HistoryKept
<1>2. CASE a.kind = "success" /\ a.of \in receipts
    BY <1>2 DEF ActionSound, HistoryKept
<1>3. CASE a.kind \in {"scratch", "composites"} /\ a.of \in Run /\ runs[a.of].state = "complete"
    BY <1>3 DEF ActionSound, HistoryKept
<1> QED
    BY <1>1, <1>2, <1>3 DEF ActionSound

LEMMA RowsStay ==
    ASSUME NEW rows, RowsOld(rows), HistoryKept
    PROVE  RowsOld(rows)'
    BY DEF RowsOld, HistoryKept

\* What a process relies on survives the steps of everyone else.
LEMMA CollectorStays ==
    ASSUME NEW x, CollectorSound(x), HistoryKept
    PROVE  CollectorSound(x)'
<1>1. \A a : ActionSound(a) => ActionSound(a)'
    BY ActionsStay
<1>2. RowsOld(x.rows) => RowsOld(x.rows)'
    BY RowsStay
<1>3. \A j, g, e : Bundled(j, g, e) => Bundled(j, g, e)'
    BY DEF Bundled, HistoryKept
<1>4. holds \subseteq holds'
    BY DEF HistoryKept
<1> QED
    BY <1>1, <1>2, <1>3, <1>4 DEF CollectorSound, IsCollector, CollectorSteps, OneBundle

LEMMA CollectorsStay ==
    ASSUME CollectorsFit, HistoryKept, collector' = collector
    PROVE  CollectorsFit'
<1>1. \A c \in Collector : CollectorSound(collector[c])'
    BY CollectorStays DEF CollectorsFit
<1> QED
    BY <1>1 DEF CollectorsFit, Locked, Compiling

-----------------------------------------------------------------------------
\* A row of the ledger changes; attempts that had ended stay.
EndedKept ==
    \A k \in QueueJob : \A g \in DOMAIN ledger[k].attempts :
        ledger[k].attempts[g].state \in Ended =>
            g \in DOMAIN ledger'[k].attempts /\ ledger'[k].attempts[g] = ledger[k].attempts[g]

RowBecomes(j, s, t) ==
    /\ ledger'[j].attempts = t /\ ledger'[j].state = s
    /\ \A k \in QueueJob \ {j} : ledger'[k] = ledger[k]

\* One row is written; its ended attempts stay in it.
LEMMA RowChanges ==
    ASSUME LedgerFit, NEW j \in QueueJob, NEW s \in RowStates, NEW t \in Seq(Attempts),
           ledger' = [ledger EXCEPT ![j] = [state |-> s, attempts |-> t]],
           Len(t) <= MaxAttempt, s = "leased" => Len(t) > 0 /\ t[Len(t)].state = "leased",
           \A g \in DOMAIN ledger[j].attempts : ledger[j].attempts[g].state \in Ended =>
               g \in DOMAIN t /\ t[g] = ledger[j].attempts[g]
    PROVE  LedgerFit' /\ RowBecomes(j, s, t) /\ EndedKept
<1> DEFINE row == [state |-> s, attempts |-> t]
<1>1. row \in [state : RowStates, attempts : Seq(Attempts)] /\ row.state = s /\ row.attempts = t
    OBVIOUS
<1>2. ledger' = [ledger EXCEPT ![j] = row]
    OBVIOUS
<1> HIDE DEF row
<1>3. /\ ledger' \in LedgerRows /\ ledger'[j] = row
      /\ \A k \in QueueJob \ {j} : ledger'[k] = ledger[k]
    BY <1>1, <1>2 DEF LedgerFit, LedgerRows
<1>4. ASSUME NEW k \in QueueJob
      PROVE  /\ Len(ledger'[k].attempts) <= MaxAttempt
             /\ ledger'[k].state = "leased" =>
                   /\ Len(ledger'[k].attempts) > 0
                   /\ ledger'[k].attempts[Len(ledger'[k].attempts)].state = "leased"
  <2>1. CASE k = j
      BY <1>1, <1>3, <2>1
  <2>2. CASE k # j
      BY <1>3, <2>2 DEF LedgerFit, Newest
  <2> QED
      BY <2>1, <2>2
<1>5. LedgerFit'
    BY <1>3, <1>4 DEF LedgerFit, Newest
<1> QED
    BY <1>1, <1>3, <1>5 DEF RowBecomes, EndedKept

\* The invariant says what is checked of a collection.
LEMMA EvidenceFollows == EvidenceSafe /\ LedgerFit => CollectionSafe
<1> SUFFICES ASSUME EvidenceSafe, LedgerFit PROVE EvidenceBundled /\ OnlyDisposable
    BY DEF CollectionSafe
<1>1. EvidenceBundled
    BY DEF EvidenceSafe, EvidenceAt, EvidenceBundled, Bundled
<1>2. ASSUME NEW j \in QueueJob, NEW g \in DOMAIN ledger[j].attempts,
             ledger[j].attempts[g].state \in {"leased", "completed"}
      PROVE  staging[j][g] \notin {"gone", "partial"}
    BY <1>2 DEF EvidenceSafe, EvidenceAt, Ended
<1> QED
    BY <1>1, <1>2 DEF OnlyDisposable, EvidenceSafe

\* One directory changes.
StagingBecomes(j, n, d) ==
    /\ staging'[j][n] = d
    /\ \A k \in QueueJob, g \in 1..MaxAttempt :
          k # j \/ g # n => staging'[k][g] = staging[k][g]

LEMMA StagingWritten ==
    ASSUME staging \in Directories, NEW j \in QueueJob, NEW n \in 1..MaxAttempt,
           NEW d \in {"none", "moved", "gone"} \cup OnDisk,
           staging' = [staging EXCEPT ![j][n] = d]
    PROVE  staging' \in Directories /\ StagingBecomes(j, n, d)
<1> DEFINE D == {"none", "moved", "gone"} \cup OnDisk
           row == [staging[j] EXCEPT ![n] = d]
<1>1. staging \in [QueueJob -> [1..MaxAttempt -> D]]
    BY DEF Directories
<1> HIDE DEF D
<1>2. staging[j] \in [1..MaxAttempt -> D] /\ d \in D
    BY <1>1 DEF D
<1>3. /\ row \in [1..MaxAttempt -> D] /\ row[n] = d
      /\ \A g \in 1..MaxAttempt : g # n => row[g] = staging[j][g]
    BY <1>2
<1>4. staging' = [staging EXCEPT ![j] = row]
    OBVIOUS
<1> HIDE DEF row
<1>5. /\ staging' \in [QueueJob -> [1..MaxAttempt -> D]] /\ staging'[j] = row
      /\ \A k \in QueueJob : k # j => staging'[k] = staging[k]
    BY <1>1, <1>3, <1>4
<1> QED
    BY <1>3, <1>5 DEF StagingBecomes, Directories, D

LEMMA StagingChanges ==
    ASSUME DiskFit, NEW j \in QueueJob, NEW n \in 1..MaxAttempt,
           NEW d \in {"none", "moved", "gone"} \cup OnDisk,
           staging' = [staging EXCEPT ![j][n] = d],
           UNCHANGED <<published, receipts, holds, runs>>
    PROVE  DiskFit' /\ StagingBecomes(j, n, d)
<1>1. staging' \in Directories /\ StagingBecomes(j, n, d)
    BY StagingWritten DEF DiskFit
<1> QED
    BY <1>1 DEF DiskFit

-----------------------------------------------------------------------------
\* The environment.
LEMMA ClaimSafe ==
    ASSUME RetentionInv, NEW j \in QueueJob, ClaimForWork(j)
    PROVE  RetentionInv'
<1> DEFINE t == Append(ledger[j].attempts, [state |-> "leased", error |-> "none"])
           n == Len(ledger[j].attempts)
<1>1. /\ LedgerFit /\ DiskFit /\ BundlesFit /\ CollectorsFit
      /\ ledger[j] \in [state : RowStates, attempts : Seq(Attempts)]
      /\ ledger[j].attempts \in Seq(Attempts) /\ n \in Nat /\ n < MaxAttempt
    BY DEF RetentionInv, ClaimForWork, Newest, LedgerFit, LedgerRows
<1>2. /\ t \in Seq(Attempts) /\ Len(t) = n + 1 /\ t[n + 1].state = "leased"
      /\ DOMAIN t = 1..(n + 1) /\ DOMAIN ledger[j].attempts = 1..n
      /\ \A g \in 1..n : t[g] = ledger[j].attempts[g]
    BY <1>1 DEF Attempts
<1>3. ledger' = [ledger EXCEPT ![j] = [state |-> "leased", attempts |-> t]]
    BY <1>1 DEF ClaimForWork, LedgerFit, LedgerRows
<1>4. PICK d \in {"none", "whole"} : staging' = [staging EXCEPT ![j][n + 1] = d]
    BY DEF ClaimForWork, Newest
<1>5. UNCHANGED <<published, receipts, holds, bundles, runs, collector>>
    BY DEF ClaimForWork
<1> HIDE DEF t, n
<1>6. LedgerFit' /\ RowBecomes(j, "leased", t) /\ EndedKept
  <2>1. Len(t) <= MaxAttempt /\ Len(t) > 0 /\ t[Len(t)].state = "leased"
      BY <1>1, <1>2, RetentionAssumption
  <2>2. \A g \in DOMAIN ledger[j].attempts : ledger[j].attempts[g].state \in Ended =>
            g \in DOMAIN t /\ t[g] = ledger[j].attempts[g]
      BY <1>1, <1>2
  <2>3. t \in Seq(Attempts) /\ "leased" \in RowStates
      BY <1>2 DEF RowStates
  <2> QED
      BY <1>1, <1>3, <2>1, <2>2, <2>3, RowChanges
<1>7. HistoryKept
    BY <1>5, <1>6 DEF HistoryKept, EndedKept
<1>8. CollectorsFit' /\ BundlesFit'
    BY <1>1, <1>5, <1>7, CollectorsStay DEF BundlesFit, OneBundle
<1>9. n + 1 \in 1..MaxAttempt
    BY <1>1, RetentionAssumption
<1>10. DiskFit' /\ StagingBecomes(j, n + 1, d)
    BY <1>1, <1>4, <1>5, <1>9, StagingChanges DEF OnDisk
<1>11. ASSUME NEW k \in QueueJob, NEW g \in DOMAIN ledger'[k].attempts PROVE EvidenceAt(k, g)'
  <2>1. g \in 1..MaxAttempt
      BY <1>6, RetentionAssumption DEF LedgerFit, LedgerRows
  <2>2. CASE k = j /\ g = n + 1
      BY <1>10, <2>2 DEF EvidenceAt, StagingBecomes
  <2>3. CASE k # j \/ g # n + 1
    <3>1. g \in DOMAIN ledger[k].attempts /\ ledger'[k].attempts[g] = ledger[k].attempts[g]
      <4>1. CASE k = j
        <5>1. g \in 1..(n + 1) /\ g # n + 1
            BY <1>2, <1>6, <2>3, <4>1 DEF RowBecomes
        <5>2. g \in 1..n
            BY <1>1, <5>1
        <5> QED
            BY <1>2, <1>6, <4>1, <5>2 DEF RowBecomes
      <4>2. CASE k # j
          BY <1>6, <4>2 DEF RowBecomes
      <4> QED
          BY <4>1, <4>2
    <3>2. EvidenceAt(k, g) /\ staging'[k][g] = staging[k][g]
        BY <1>10, <2>1, <2>3, <3>1 DEF RetentionInv, EvidenceSafe, StagingBecomes
    <3> QED
        BY <1>5, <3>1, <3>2 DEF EvidenceAt, Bundled
  <2> QED
      BY <2>2, <2>3
<1>12. EvidenceSafe'
    BY <1>5, <1>11 DEF RetentionInv, EvidenceSafe
<1> QED
    BY <1>6, <1>8, <1>10, <1>12 DEF RetentionInv

\* The newest attempt of a leased job ends: its directory is not touched yet.
NewestEnds(j, s, a) ==
    /\ LedgerFit' /\ EndedKept
    /\ Newest(j) \in 1..MaxAttempt /\ Newest(j) \in DOMAIN ledger[j].attempts
    /\ ledger[j].attempts[Newest(j)].state = "leased"
    /\ \A k \in QueueJob : DOMAIN ledger'[k].attempts = DOMAIN ledger[k].attempts
    /\ \A k \in QueueJob : \A g \in DOMAIN ledger[k].attempts :
          k # j \/ g # Newest(j) => ledger'[k].attempts[g] = ledger[k].attempts[g]

LEMMA NewestChanges ==
    ASSUME LedgerFit, NEW j \in QueueJob, ledger[j].state = "leased",
           NEW s \in {"queued", "failed", "complete"}, NEW a \in Attempts,
           ledger' = [ledger EXCEPT ![j] =
                [state |-> s, attempts |-> [ledger[j].attempts EXCEPT ![Newest(j)] = a]]]
    PROVE  NewestEnds(j, s, a)
<1> DEFINE old == ledger[j].attempts
           n == Newest(j)
           t == [old EXCEPT ![n] = a]
<1>1. /\ old \in Seq(Attempts) /\ n = Len(old) /\ n \in Nat /\ n > 0 /\ n <= MaxAttempt
      /\ old[n].state = "leased"
    BY DEF LedgerFit, LedgerRows, Newest
<1>2. /\ n \in 1..MaxAttempt /\ n \in DOMAIN old
    BY <1>1, RetentionAssumption
<1>3. t \in Seq(Attempts) /\ Len(t) = n /\ DOMAIN t = DOMAIN old
      /\ \A g \in DOMAIN old : g # n => t[g] = old[g]
    BY <1>1
<1>4. ledger' = [ledger EXCEPT ![j] = [state |-> s, attempts |-> t]]
    OBVIOUS
<1> HIDE DEF t
<1>5. /\ Len(t) <= MaxAttempt /\ s # "leased" /\ s \in RowStates
      /\ \A g \in DOMAIN ledger[j].attempts : ledger[j].attempts[g].state \in Ended =>
            g \in DOMAIN t /\ t[g] = ledger[j].attempts[g]
    BY <1>1, <1>3 DEF RowStates, Ended
<1>6. LedgerFit' /\ RowBecomes(j, s, t) /\ EndedKept
    BY <1>3, <1>4, <1>5, RowChanges
<1>7. ASSUME NEW k \in QueueJob
      PROVE  /\ DOMAIN ledger'[k].attempts = DOMAIN ledger[k].attempts
             /\ \A g \in DOMAIN ledger[k].attempts :
                   k # j \/ g # n => ledger'[k].attempts[g] = ledger[k].attempts[g]
  <2>1. CASE k = j
      BY <1>3, <1>6, <2>1 DEF RowBecomes
  <2>2. CASE k # j
      BY <1>6, <2>2 DEF RowBecomes
  <2> QED
      BY <2>1, <2>2
<1> QED
    BY <1>1, <1>2, <1>6, <1>7 DEF NewestEnds

LEMMA EndAttemptSafe ==
    ASSUME RetentionInv, NEW j \in QueueJob, EndLeasedAttempt(j)
    PROVE  RetentionInv'
<1>1. PICK e \in Error \cup {"expired"}, next \in {"queued", "failed"} :
         ledger' = [ledger EXCEPT ![j] =
                        [state |-> next, attempts |-> [@.attempts EXCEPT ![Newest(j)] =
                            [state |-> IF e = "expired" THEN e ELSE "failed", error |-> e]]]]
    BY DEF EndLeasedAttempt
<1> DEFINE a == [state |-> IF e = "expired" THEN e ELSE "failed", error |-> e]
<1>2. a \in Attempts
    BY DEF Attempts, Ended
<1>3. ledger[j] \in [state : RowStates, attempts : Seq(Attempts)] /\ LedgerFit
    BY DEF RetentionInv, LedgerFit, LedgerRows
<1>4. ledger' = [ledger EXCEPT ![j] =
          [state |-> next, attempts |-> [ledger[j].attempts EXCEPT ![Newest(j)] = a]]]
    BY <1>1
<1> HIDE DEF a
<1>5. NewestEnds(j, next, a)
  <2>1. ledger[j].state = "leased" /\ next \in {"queued", "failed", "complete"}
      BY DEF EndLeasedAttempt
  <2> QED
      BY <2>1, <1>2, <1>3, <1>4, NewestChanges
<1>6. UNCHANGED <<staging, published, receipts, holds, bundles, runs, collector>>
    BY DEF EndLeasedAttempt, disk
<1>7. HistoryKept
    BY <1>5, <1>6 DEF HistoryKept, NewestEnds, EndedKept
<1>8. CollectorsFit' /\ BundlesFit' /\ DiskFit'
    BY <1>6, <1>7, CollectorsStay DEF RetentionInv, BundlesFit, OneBundle, DiskFit
<1>9. ASSUME NEW k \in QueueJob, NEW g \in DOMAIN ledger'[k].attempts PROVE EvidenceAt(k, g)'
  <2>1. g \in DOMAIN ledger[k].attempts /\ EvidenceAt(k, g)
      BY <1>5 DEF NewestEnds, RetentionInv, EvidenceSafe
  <2>2. CASE k = j /\ g = Newest(j)
      BY <1>5, <1>6, <2>1, <2>2 DEF EvidenceAt, NewestEnds, Ended
  <2>3. CASE k # j \/ g # Newest(j)
      BY <1>5, <1>6, <2>1, <2>3 DEF EvidenceAt, NewestEnds, Bundled
  <2> QED
      BY <2>2, <2>3
<1>10. EvidenceSafe'
    BY <1>6, <1>9 DEF RetentionInv, EvidenceSafe
<1> QED
    BY <1>5, <1>8, <1>10 DEF RetentionInv, NewestEnds

LEMMA CompleteSafe ==
    ASSUME RetentionInv, NEW j \in QueueJob, CompleteAttempt(j)
    PROVE  RetentionInv'
<1> DEFINE n == Newest(j)
           a == [ledger[j].attempts[n] EXCEPT !.state = "completed"]
<1>1. ledger[j] \in [state : RowStates, attempts : Seq(Attempts)] /\ LedgerFit /\ DiskFit
    BY DEF RetentionInv, LedgerFit, LedgerRows
<1>2. n \in DOMAIN ledger[j].attempts /\ ledger[j].attempts[n] \in Attempts
    BY <1>1 DEF LedgerFit, CompleteAttempt, Newest
<1>3. a \in Attempts
    BY <1>2 DEF Attempts
<1>4. ledger' = [ledger EXCEPT ![j] =
          [state |-> "complete", attempts |-> [ledger[j].attempts EXCEPT ![n] = a]]]
    BY DEF CompleteAttempt
<1> HIDE DEF a
<1>5. NewestEnds(j, "complete", a)
    BY <1>1, <1>3, <1>4, NewestChanges DEF CompleteAttempt
<1>6. /\ UNCHANGED <<receipts, holds, bundles, runs, collector>>
      /\ published' = [published EXCEPT ![j] = "whole"]
      /\ staging' = [staging EXCEPT ![j][n] = "moved"]
    BY DEF CompleteAttempt
<1>7. n \in 1..MaxAttempt
    BY <1>5 DEF NewestEnds
<1> HIDE DEF n
<1>8. staging' \in Directories /\ StagingBecomes(j, n, "moved")
    BY <1>1, <1>6, <1>7, StagingWritten DEF DiskFit
<1>9. DiskFit'
    BY <1>1, <1>6, <1>8 DEF DiskFit
<1>10. HistoryKept
    BY <1>5, <1>6 DEF HistoryKept, NewestEnds, EndedKept
<1>11. CollectorsFit' /\ BundlesFit'
    BY <1>6, <1>10, CollectorsStay DEF RetentionInv, BundlesFit, OneBundle
<1>12. ASSUME NEW k \in QueueJob, NEW g \in DOMAIN ledger'[k].attempts PROVE EvidenceAt(k, g)'
  <2>1. g \in DOMAIN ledger[k].attempts /\ EvidenceAt(k, g) /\ g \in 1..MaxAttempt
      BY <1>1, <1>5, RetentionAssumption DEF NewestEnds, RetentionInv, EvidenceSafe, LedgerFit,
         LedgerRows
  <2>2. CASE k = j /\ g = n
      BY <1>8, <2>2 DEF EvidenceAt, StagingBecomes
  <2>3. CASE k # j \/ g # n
    <3>1. staging'[k][g] = staging[k][g] /\ ledger'[k].attempts[g] = ledger[k].attempts[g]
        BY <1>5, <1>8, <2>1, <2>3 DEF NewestEnds, StagingBecomes, n
    <3> QED
        BY <1>6, <2>1, <3>1 DEF EvidenceAt, Bundled
  <2> QED
      BY <2>2, <2>3
<1>13. EvidenceSafe'
    BY <1>1, <1>6, <1>12 DEF RetentionInv, EvidenceSafe, DiskFit
<1> QED
    BY <1>5, <1>9, <1>11, <1>13 DEF RetentionInv, NewestEnds

-----------------------------------------------------------------------------
\* A step of the environment that touches neither rows nor bundles.
LEMMA OtherSteps ==
    ASSUME RetentionInv, UNCHANGED <<ledger, bundles, collector>>,
           HistoryKept, DiskFit', EvidenceSafe'
    PROVE  RetentionInv'
<1>1. LedgerFit' /\ BundlesFit'
    BY DEF RetentionInv, LedgerFit, Newest, BundlesFit, OneBundle
<1>2. CollectorsFit'
    BY CollectorsStay DEF RetentionInv
<1> QED
    BY <1>1, <1>2 DEF RetentionInv

LEMMA RequeueSafe ==
    ASSUME RetentionInv, NEW j \in QueueJob, RequeueFailed(j)
    PROVE  RetentionInv'
<1> DEFINE t == ledger[j].attempts
<1>1. LedgerFit /\ t \in Seq(Attempts) /\ Len(t) <= MaxAttempt
    BY DEF RetentionInv, LedgerFit, LedgerRows
<1>2. ledger' = [ledger EXCEPT ![j] = [state |-> "queued", attempts |-> t]]
    BY DEF RequeueFailed
<1>3. LedgerFit' /\ RowBecomes(j, "queued", t) /\ EndedKept
    BY <1>1, <1>2, RowChanges DEF RowStates
<1>4. UNCHANGED <<staging, published, receipts, holds, bundles, runs, collector>>
    BY DEF RequeueFailed, disk
<1>5. HistoryKept
    BY <1>3, <1>4 DEF HistoryKept, EndedKept
<1>6. CollectorsFit' /\ BundlesFit' /\ DiskFit'
    BY <1>4, <1>5, CollectorsStay DEF RetentionInv, BundlesFit, OneBundle, DiskFit
<1>7. ASSUME NEW k \in QueueJob PROVE ledger'[k].attempts = ledger[k].attempts
    BY <1>3 DEF RowBecomes
<1>8. EvidenceSafe'
    BY <1>4, <1>7 DEF RetentionInv, EvidenceSafe, EvidenceAt, Bundled
<1> QED
    BY <1>3, <1>6, <1>8 DEF RetentionInv

LEMMA LateWriteSafe ==
    ASSUME RetentionInv, NEW j \in QueueJob, LateWrite(j)
    PROVE  RetentionInv'
<1>1. PICK g \in DOMAIN ledger[j].attempts :
          /\ ledger[j].attempts[g].state = "expired" /\ staging[j][g] = "whole"
          /\ staging' = [staging EXCEPT ![j][g] = "changed"]
    BY DEF LateWrite
<1>2. UNCHANGED <<ledger, published, receipts, holds, bundles, runs, collector>>
    BY DEF LateWrite
<1>3. g \in 1..MaxAttempt
    BY RetentionAssumption DEF RetentionInv, LedgerFit, LedgerRows
<1>4. DiskFit' /\ StagingBecomes(j, g, "changed")
    BY <1>1, <1>2, <1>3, StagingChanges DEF RetentionInv, OnDisk
<1>5. ASSUME NEW k \in QueueJob, NEW h \in DOMAIN ledger[k].attempts PROVE EvidenceAt(k, h)'
  <2>1. EvidenceAt(k, h) /\ h \in 1..MaxAttempt
      BY RetentionAssumption DEF RetentionInv, EvidenceSafe, LedgerFit, LedgerRows
  <2>2. CASE k = j /\ h = g
      BY <1>4, <2>2 DEF EvidenceAt, StagingBecomes
  <2>3. CASE k # j \/ h # g
      BY <1>2, <1>4, <2>1, <2>3 DEF EvidenceAt, StagingBecomes, Bundled
  <2> QED
      BY <2>2, <2>3
<1>6. EvidenceSafe'
    BY <1>2, <1>5 DEF RetentionInv, EvidenceSafe
<1>7. HistoryKept
    BY <1>2 DEF HistoryKept
<1> QED
    BY <1>2, <1>4, <1>6, <1>7, OtherSteps

LEMMA ImportSafe ==
    ASSUME RetentionInv, NEW j \in QueueJob, ImportLane(j)
    PROVE  RetentionInv'
<1>1. UNCHANGED <<ledger, staging, published, holds, bundles, runs, collector>>
    BY DEF ImportLane
<1>2. receipts' = receipts \cup {j}
    BY DEF ImportLane
<1>3. HistoryKept /\ DiskFit'
    BY <1>1, <1>2 DEF RetentionInv, HistoryKept, DiskFit
<1>4. EvidenceSafe'
    BY <1>1, <1>2 DEF RetentionInv, EvidenceSafe, EvidenceAt, Bundled
<1> QED
    BY <1>1, <1>3, <1>4, OtherSteps

LEMMA HoldSafe ==
    ASSUME RetentionInv, AddHold
    PROVE  RetentionInv'
<1>1. UNCHANGED <<ledger, staging, published, receipts, bundles, runs, collector>>
    BY DEF AddHold
<1>2. HistoryKept /\ DiskFit'
    BY <1>1 DEF RetentionInv, HistoryKept, DiskFit, AddHold
<1>3. EvidenceSafe'
    BY <1>1 DEF RetentionInv, EvidenceSafe, EvidenceAt, Bundled
<1> QED
    BY <1>1, <1>2, <1>3, OtherSteps

LEMMA FinishSafe ==
    ASSUME RetentionInv, NEW r \in Run, FinishRun(r)
    PROVE  RetentionInv'
<1>1. UNCHANGED <<ledger, staging, published, receipts, holds, bundles, collector>>
    BY DEF FinishRun
<1>2. PICK bound \in BOOLEAN, s \in {"retaining", "failed"} :
          runs' = [runs EXCEPT ![r] = [@ EXCEPT !.state = s, !.scratch = TRUE,
                                                !.composites = TRUE, !.bound = bound]]
    BY DEF FinishRun
<1> DEFINE row == [runs[r] EXCEPT !.state = s, !.scratch = TRUE,
                                  !.composites = TRUE, !.bound = bound]
<1>3. runs \in [Run -> RunRows] /\ runs[r].state = "running"
    BY DEF RetentionInv, DiskFit, FinishRun
<1>4. row \in RunRows /\ row.scratch /\ row.composites
    BY <1>3 DEF RunRows
<1>5. runs' = [runs EXCEPT ![r] = row]
    BY <1>2
<1> HIDE DEF row
<1>6. /\ runs' \in [Run -> RunRows] /\ runs'[r] = row
      /\ \A q \in Run : q # r => runs'[q] = runs[q]
    BY <1>3, <1>4, <1>5
<1>7. HistoryKept /\ DiskFit'
    BY <1>1, <1>3, <1>6 DEF RetentionInv, HistoryKept, DiskFit
<1>8. EvidenceSafe'
  <2>1. \A j \in QueueJob : \A g \in DOMAIN ledger'[j].attempts : EvidenceAt(j, g)'
      BY <1>1 DEF RetentionInv, EvidenceSafe, EvidenceAt, Bundled
  <2>2. \A q \in Run : runs'[q].state \in {"retaining", "failed"} =>
            runs'[q].scratch /\ runs'[q].composites
      BY <1>4, <1>6 DEF RetentionInv, EvidenceSafe
  <2> QED
      BY <1>1, <2>1, <2>2 DEF RetentionInv, EvidenceSafe
<1> QED
    BY <1>1, <1>7, <1>8, OtherSteps

-----------------------------------------------------------------------------
(* The steps of a collector.                                               *)

\* One process moves; what the others rely on stays.
LEMMA CollectorMoves ==
    ASSUME CollectorsFit, NEW c \in Collector, NEW x, HistoryKept,
           collector' = [collector EXCEPT ![c] = x], CollectorSound(x)',
           x.step \in Locked => collector[c].step \in Locked \/ LockFree
    PROVE  CollectorsFit'
<1>1. /\ DOMAIN collector' = Collector /\ collector'[c] = x
      /\ \A d \in Collector : d # c => collector'[d] = collector[d]
    BY DEF CollectorsFit
<1>2. ASSUME NEW d \in Collector PROVE CollectorSound(collector[d])'
  <2>1. CASE d = c
      BY <1>1, <2>1
  <2>2. CASE d # c
    <3>1. PICK y : y = collector[d]
        OBVIOUS
    <3>2. CollectorSound(y)
        BY <3>1 DEF CollectorsFit
    <3>3. CollectorSound(y)'
        BY <3>2, CollectorStays
    <3>4. collector'[d] = y
        BY <1>1, <2>2, <3>1
    <3> QED
        BY <3>3, <3>4
  <2> QED
      BY <2>1, <2>2
<1>3. ASSUME NEW d \in Collector, NEW e \in Collector,
             collector'[d].step \in Locked, collector'[e].step \in Locked
      PROVE  d = e
    BY <1>1, <1>3 DEF CollectorsFit, LockFree
<1> QED
    BY <1>1, <1>2, <1>3 DEF CollectorsFit

-----------------------------------------------------------------------------
\* What a plan compiled from these holds and rows takes, at the moment it is compiled.
PlanTakes(held, rows, a) ==
    \/ a.kind = "success" /\ a.of \in receipts /\ ~JobHeld(held, a.of)
    \/ /\ a.kind = "bundle" /\ a.of \in QueueJob
       /\ \A g \in a.paths : /\ g \in DOMAIN rows[a.of].attempts
                             /\ rows[a.of].attempts[g].state \in Ended
                             /\ rows[a.of].attempts[g].error = a.error
                             /\ ~Held(held, a.of, g)
    \/ a.kind \in {"scratch", "composites"} /\ a.of \in Run /\ runs[a.of].state = "complete"

BundleFor(held, rows, j) ==
    [kind |-> "bundle", of |-> j, paths |-> Collapsible(held, rows, j),
     error |-> ErrorOf(rows, j, Latest(Collapsible(held, rows, j))),
     found |-> [g \in Collapsible(held, rows, j) |-> staging[j][g]]]

\* A bundle action takes failures with one fingerprint, none of them held.
LEMMA BundleTakes ==
    ASSUME NEW held, NEW rows \in LedgerRows, NEW j \in QueueJob, Len(rows[j].attempts) <= MaxAttempt,
           Candidates(held, rows, j) # {}
    PROVE  PlanTakes(held, rows, BundleFor(held, rows, j))
<1> DEFINE C == Candidates(held, rows, j)
           P == Collapsible(held, rows, j)
           b == BundleFor(held, rows, j)
<1>1. DOMAIN rows[j].attempts \subseteq 1..MaxAttempt
    BY RetentionAssumption DEF LedgerRows
<1>2. C \in SUBSET (1..MaxAttempt) /\ C # {}
    BY <1>1 DEF Candidates
<1>3. Latest(C) \in C
    BY <1>2, LatestIs
<1>4. Latest(C) \in P /\ P \in SUBSET (1..MaxAttempt)
    BY <1>2, <1>3 DEF Collapsible
<1>5. Latest(P) \in P
    BY <1>4, LatestIs
<1>6. /\ P \subseteq C
      /\ \A g \in P : ErrorOf(rows, j, g) = ErrorOf(rows, j, Latest(C))
    BY DEF Collapsible
<1>7. \A g \in P : ErrorOf(rows, j, g) = ErrorOf(rows, j, Latest(P))
    BY <1>5, <1>6
<1>8. \A g \in P : /\ g \in DOMAIN rows[j].attempts /\ rows[j].attempts[g].state \in Ended
                   /\ ~Held(held, j, g)
    BY <1>6 DEF Candidates
<1>9. b.kind = "bundle" /\ b.of = j /\ b.paths = P /\ b.error = ErrorOf(rows, j, Latest(P))
    BY DEF BundleFor
<1> HIDE DEF b, P, C
<1> QED
    BY <1>7, <1>8, <1>9 DEF PlanTakes, ErrorOf, b

\* Every action of a plan comes from one of its four clauses.
LEMMA PlanActions ==
    ASSUME NEW held, NEW rows \in LedgerRows, \A j \in QueueJob : Len(rows[j].attempts) <= MaxAttempt,
           NEW trigger, NEW a \in RetentionPlan(held, rows, trigger).actions
    PROVE  /\ PlanTakes(held, rows, a)
           /\ a.kind = "bundle" => a = BundleFor(held, rows, a.of)
<1>1. a \in SuccessActions(held, rows) \/ a \in BundleActions(held, rows) \/ a \in ValidationActions
    BY DEF RetentionPlan
<1>2. CASE a \in SuccessActions(held, rows)
    BY <1>2 DEF SuccessActions, PlanTakes
<1>3. CASE a \in BundleActions(held, rows)
  <2>1. PICK j \in QueueJob : Candidates(held, rows, j) # {} /\ a = BundleFor(held, rows, j)
      BY <1>3 DEF BundleActions, BundleFor
  <2>2. PlanTakes(held, rows, a)
      BY <2>1, BundleTakes
  <2>3. a.of = j
      BY <2>1 DEF BundleFor
  <2> QED
      BY <2>1, <2>2, <2>3
<1>4. CASE a \in ValidationActions
  <2>1. a.kind \in {"scratch", "composites"} /\ a.of \in VerifiedRuns
      BY <1>4 DEF ValidationActions, RelationshipComplete
  <2> QED
      BY <2>1 DEF PlanTakes, VerifiedRuns
<1> QED
    BY <1>1, <1>2, <1>3, <1>4

LEMMA PlanSound ==
    ASSUME NEW held, NEW rows, RowsOld(rows), NEW trigger
    PROVE  /\ OneBundle(RetentionPlan(held, rows, trigger).actions)
           /\ \A a \in RetentionPlan(held, rows, trigger).actions : ActionSound(a)
<1> DEFINE actions == RetentionPlan(held, rows, trigger).actions
<1>1. rows \in LedgerRows /\ \A j \in QueueJob : Len(rows[j].attempts) <= MaxAttempt
    BY DEF RowsOld
<1>2. \A a \in actions : PlanTakes(held, rows, a) /\ (a.kind = "bundle" => a = BundleFor(held, rows, a.of))
    BY <1>1, PlanActions
<1> HIDE DEF actions
<1>3. OneBundle(actions)
    BY <1>2 DEF OneBundle
<1>4. ASSUME NEW a \in actions PROVE ActionSound(a)
    BY <1>2 DEF PlanTakes, ActionSound, RowsOld
<1> QED
    BY <1>3, <1>4 DEF actions

-----------------------------------------------------------------------------
\* A collection ends, whatever came of it.
Outcomes == {"not-applied", "complete"}

LEMMA EndCollects ==
    ASSUME RetentionInv, NEW c \in Collector, NEW outcome \in Outcomes,
           EndCollection(c, outcome), UNCHANGED <<ledger, receipts, holds, bundles>>
    PROVE  /\ HistoryKept /\ LedgerFit' /\ BundlesFit' /\ CollectorsFit'
           /\ runs' \in [Run -> RunRows]
           /\ \A r \in Run : runs'[r].state \in {"retaining", "failed"} =>
                  runs'[r].scratch /\ runs'[r].composites
<1> DEFINE Ends(r) == [runs[r] EXCEPT !.state = "complete", !.retention = outcome]
           x == IF TriggerOf[c] = "drained" THEN [NotCollecting EXCEPT !.step = "parked"]
                ELSE NotCollecting
<1>1. runs \in [Run -> RunRows]
    BY DEF RetentionInv, DiskFit
<1>2. ASSUME NEW r \in Run PROVE Ends(r) \in RunRows /\ Ends(r).state = "complete"
    BY <1>1 DEF RunRows, Outcomes
<1>3. runs' = runs \/ runs' = [r \in Run |-> IF runs[r].state # "retaining" THEN runs[r]
                                             ELSE Ends(r)]
    BY DEF EndCollection
<1> HIDE DEF Ends
<1>4. \A r \in Run : runs'[r] = runs[r] \/ runs'[r] = Ends(r)
    BY <1>3
<1>5. runs' \in [Run -> RunRows]
    BY <1>1, <1>2, <1>3
<1>6. HistoryKept
    BY <1>2, <1>4 DEF HistoryKept
<1>7. \A r \in Run : runs'[r].state \in {"retaining", "failed"} =>
          runs'[r].scratch /\ runs'[r].composites
    BY <1>2, <1>4 DEF RetentionInv, EvidenceSafe
<1>8. collector' = [collector EXCEPT ![c] = x]
    BY DEF EndCollection
<1>9. IsCollector(x) /\ x.step \in {"idle", "parked"}
    BY DEF NotCollecting, IsCollector
<1> HIDE DEF x
<1>10. CollectorSound(x)'
    BY <1>9 DEF CollectorSound, CollectorSteps, WithPlan, IsCollector
<1>11. CollectorsFit'
    BY <1>6, <1>8, <1>9, <1>10, CollectorMoves DEF RetentionInv, Locked, Compiling
<1>12. LedgerFit' /\ BundlesFit'
    BY DEF RetentionInv, LedgerFit, Newest, BundlesFit, OneBundle
<1> QED
    BY <1>5, <1>6, <1>7, <1>11, <1>12

LEMMA EndsQuietly ==
    ASSUME RetentionInv, NEW c \in Collector, NEW outcome \in Outcomes,
           EndCollection(c, outcome),
           UNCHANGED <<ledger, staging, published, receipts, holds, bundles>>
    PROVE  RetentionInv'
<1>1. /\ LedgerFit' /\ BundlesFit' /\ CollectorsFit' /\ runs' \in [Run -> RunRows]
      /\ \A r \in Run : runs'[r].state \in {"retaining", "failed"} =>
             runs'[r].scratch /\ runs'[r].composites
    BY EndCollects
<1>2. DiskFit'
    BY <1>1 DEF RetentionInv, DiskFit
<1>3. EvidenceSafe'
    BY <1>1 DEF RetentionInv, EvidenceSafe, EvidenceAt, Bundled
<1> QED
    BY <1>1, <1>2, <1>3 DEF RetentionInv

\* A step that moves only its own process.
LEMMA KeepSteps ==
    ASSUME RetentionInv, Keep, NEW c \in Collector, NEW x,
           collector' = [collector EXCEPT ![c] = x], CollectorSound(x),
           x.step \in Locked => collector[c].step \in Locked \/ LockFree
    PROVE  RetentionInv'
<1>1. HistoryKept
    BY DEF HistoryKept, Keep
<1>2. CollectorSound(x)'
    BY <1>1, CollectorStays
<1>3. CollectorsFit'
    BY <1>1, <1>2, CollectorMoves DEF RetentionInv
<1>4. LedgerFit' /\ BundlesFit' /\ DiskFit'
    BY DEF Keep, RetentionInv, LedgerFit, Newest, BundlesFit, OneBundle, DiskFit
<1>5. EvidenceSafe'
    BY DEF Keep, RetentionInv, EvidenceSafe, EvidenceAt, Bundled
<1> QED
    BY <1>3, <1>4, <1>5 DEF RetentionInv

LEMMA StartPlanSafe ==
    ASSUME RetentionInv, NEW c \in Collector, StartPlan(c)
    PROVE  RetentionInv'
<1> DEFINE x == [collector[c] EXCEPT !.step = "planning", !.held = holds]
<1>1. CollectorSound(collector[c])
    BY DEF RetentionInv, CollectorsFit
<1>2. IsCollector(x) /\ x.step = "planning"
    BY <1>1 DEF CollectorSound, IsCollector
<1>3. collector' = [collector EXCEPT ![c] = x] /\ LockFree /\ Keep
    BY DEF StartPlan
<1> HIDE DEF x
<1>4. CollectorSound(x)
    BY <1>2 DEF CollectorSound, CollectorSteps, Locked, Compiling, WithPlan
<1> QED
    BY <1>3, <1>4, KeepSteps

LEMMA WritePlanSafe ==
    ASSUME RetentionInv, NEW c \in Collector, WritePlan(c)
    PROVE  RetentionInv'
<1> DEFINE p == RetentionPlan(collector[c].held, collector[c].rows, TriggerOf[c])
           x == [collector[c] EXCEPT !.step = "planned", !.held = {}, !.rows = NoPlan, !.plan = p]
<1>1. CollectorSound(collector[c]) /\ collector[c].step = "reading"
    BY DEF RetentionInv, CollectorsFit, WritePlan
<1>2. RowsOld(collector[c].rows)
    BY <1>1 DEF CollectorSound
<1>3. OneBundle(p.actions) /\ \A a \in p.actions : ActionSound(a)
  <2>1. PICK held, rows : held = collector[c].held /\ rows = collector[c].rows
      OBVIOUS
  <2>2. RowsOld(rows)
      BY <1>2, <2>1
  <2>3. p = RetentionPlan(held, rows, TriggerOf[c])
      BY <2>1
  <2> QED
      BY <2>2, <2>3, PlanSound
<1> HIDE DEF p
<1>4. IsCollector(x) /\ x.step = "planned" /\ x.plan = p
    BY <1>1 DEF CollectorSound, IsCollector
<1>5. collector' = [collector EXCEPT ![c] = x] /\ Keep
    BY DEF WritePlan, p
<1> HIDE DEF x
<1>6. CollectorSound(x)
    BY <1>3, <1>4 DEF CollectorSound, CollectorSteps, WithPlan
<1>7. x.step \notin Locked
    BY <1>4 DEF Locked, Compiling
<1> QED
    BY <1>5, <1>6, <1>7, KeepSteps

LEMMA LockSafe ==
    ASSUME RetentionInv, NEW c \in Collector, LockCollector(c)
    PROVE  RetentionInv'
<1>1. CASE /\ UNCHANGED runs
           /\ collector' = [collector EXCEPT ![c] = [@ EXCEPT !.step = "checked",
                                                             !.promised = holds]]
  <2> DEFINE x == [collector[c] EXCEPT !.step = "checked", !.promised = holds]
  <2>1. CollectorSound(collector[c]) /\ collector[c].step = "planned"
      BY DEF RetentionInv, CollectorsFit, LockCollector
  <2>2. /\ IsCollector(x) /\ x.step = "checked" /\ x.plan = collector[c].plan
        /\ x.promised = holds
      BY <2>1 DEF CollectorSound, IsCollector
  <2>3. collector' = [collector EXCEPT ![c] = x] /\ LockFree /\ Keep
      BY <1>1 DEF LockCollector, Keep
  <2> HIDE DEF x
  <2>4. CollectorSound(x)
      BY <2>1, <2>2 DEF CollectorSound, CollectorSteps, Locked, Compiling, WithPlan
  <2> QED
      BY <2>3, <2>4, KeepSteps
<1>2. CASE EndCollection(c, "not-applied")
    BY <1>2, EndsQuietly DEF LockCollector, Outcomes
<1> QED
    BY <1>1, <1>2 DEF LockCollector

LEMMA ReadHoldsSafe ==
    ASSUME RetentionInv, NEW c \in Collector, ReadHolds(c)
    PROVE  RetentionInv'
<1> DEFINE x == [collector[c] EXCEPT !.step = "replanning", !.held = holds]
<1>1. CollectorSound(collector[c]) /\ collector[c].step = "checked"
    BY DEF RetentionInv, CollectorsFit, ReadHolds
<1>2. /\ IsCollector(x) /\ x.step = "replanning" /\ x.plan = collector[c].plan
      /\ x.held = holds /\ x.promised = collector[c].promised
    BY <1>1 DEF CollectorSound, IsCollector
<1>3. collector' = [collector EXCEPT ![c] = x] /\ Keep
    BY DEF ReadHolds
<1> HIDE DEF x
<1>4. CollectorSound(x)
    BY <1>1, <1>2 DEF CollectorSound, CollectorSteps, Locked, Compiling, WithPlan
<1>5. collector[c].step \in Locked
    BY <1>1 DEF Locked, Compiling
<1> QED
    BY <1>3, <1>4, <1>5, KeepSteps

LEMMA ReadSafe ==
    ASSUME RetentionInv, NEW c \in Collector, ReadLedger(c)
    PROVE  RetentionInv'
<1> DEFINE s == IF collector[c].step = "planning" THEN "reading" ELSE "rereading"
           x == [collector[c] EXCEPT !.rows = ledger, !.step = s]
<1>1. CollectorSound(collector[c]) /\ collector[c].step \in {"planning", "replanning"}
    BY DEF RetentionInv, CollectorsFit, ReadLedger
<1>2. /\ IsCollector(x) /\ x.step = s /\ x.plan = collector[c].plan /\ x.rows = ledger
      /\ x.held = collector[c].held /\ x.promised = collector[c].promised
    BY <1>1 DEF CollectorSound, IsCollector
<1>3. collector' = [collector EXCEPT ![c] = x] /\ Keep
    BY <1>1 DEF ReadLedger, IsCollector, CollectorSound
<1> HIDE DEF x
<1>4. RowsOld(ledger)
    BY DEF RetentionInv, LedgerFit, RowsOld
<1>5. CollectorSound(x)
    BY <1>1, <1>2, <1>4 DEF CollectorSound, CollectorSteps, Locked, Compiling, WithPlan
<1>6. collector[c].step \in Locked
    BY <1>1 DEF Locked, Compiling
<1> QED
    BY <1>3, <1>5, <1>6, KeepSteps

LEMMA RecompileSafe ==
    ASSUME RetentionInv, NEW c \in Collector, Recompile(c)
    PROVE  RetentionInv'
<1>1. CASE EndCollection(c, "not-applied")
    BY <1>1, EndsQuietly DEF Recompile, Outcomes
<1>2. CASE /\ collector' = [collector EXCEPT ![c] = [@ EXCEPT !.step = "applying",
                              !.held = {}, !.rows = NoPlan, !.promised = {},
                              !.todo = collector[c].plan.actions]]
           /\ UNCHANGED runs
  <2> DEFINE x == [collector[c] EXCEPT !.step = "applying", !.held = {}, !.rows = NoPlan,
                                       !.promised = {}, !.todo = collector[c].plan.actions]
  <2>1. CollectorSound(collector[c]) /\ collector[c].step = "rereading"
      BY DEF RetentionInv, CollectorsFit, Recompile
  <2>2. /\ IsCollector(x) /\ x.step = "applying" /\ x.plan = collector[c].plan
        /\ x.todo = collector[c].plan.actions
      BY <2>1 DEF CollectorSound, IsCollector
  <2>3. collector' = [collector EXCEPT ![c] = x] /\ Keep
      BY <1>2 DEF Recompile, Keep
  <2> HIDE DEF x
  <2>4. CollectorSound(x)
      BY <2>1, <2>2 DEF CollectorSound, CollectorSteps, Locked, Compiling, WithPlan
  <2>5. collector[c].step \in Locked
      BY <2>1 DEF Locked, Compiling
  <2> QED
      BY <2>3, <2>4, <2>5, KeepSteps
<1> QED
    BY <1>1, <1>2 DEF Recompile

-----------------------------------------------------------------------------
LEMMA EasySteps ==
    ASSUME RetentionInv, NEW c \in Collector,
           Busy(c) \/ DropPlan(c) \/ BundleRefused(c) \/ EndApply(c)
    PROVE  RetentionInv'
<1>1. PICK outcome \in Outcomes : EndCollection(c, outcome)
    BY DEF Busy, DropPlan, BundleRefused, EndApply, Outcomes
<1>2. UNCHANGED <<ledger, staging, published, receipts, holds, bundles>>
    BY DEF Busy, DropPlan, BundleRefused, EndApply
<1> QED
    BY <1>1, <1>2, EndsQuietly

LEMMA KillSafe ==
    ASSUME RetentionInv, NEW c \in Collector, KillCollector(c) \/ Wake(c)
    PROVE  RetentionInv'
<1>1. CASE KillCollector(c)
  <2>1. CollectorSound(NotCollecting)
      BY DEF NotCollecting, CollectorSound, IsCollector, CollectorSteps, WithPlan
  <2>2. NotCollecting.step \notin Locked
      BY DEF NotCollecting, Locked, Compiling
  <2>3. collector' = [collector EXCEPT ![c] = NotCollecting] /\ Keep
      BY <1>1 DEF KillCollector
  <2> QED
      BY <2>1, <2>2, <2>3, KeepSteps
<1>2. CASE Wake(c)
  <2> DEFINE x == [collector[c] EXCEPT !.step = "idle"]
  <2>1. CollectorSound(collector[c])
      BY DEF RetentionInv, CollectorsFit
  <2>2. IsCollector(x) /\ x.step = "idle"
      BY <2>1 DEF CollectorSound, IsCollector
  <2>3. collector' = [collector EXCEPT ![c] = x] /\ Keep
      BY <1>2 DEF Wake, CollectorStep
  <2> HIDE DEF x
  <2>4. CollectorSound(x) /\ x.step \notin Locked
      BY <2>2 DEF CollectorSound, CollectorSteps, Locked, Compiling, WithPlan
  <2> QED
      BY <2>3, <2>4, KeepSteps
<1> QED
    BY <1>1, <1>2

\* The targets of one action, in the step that starts to remove them.
LEMMA RemovingStarts ==
    ASSUME NEW c \in Collector, CollectorSound(collector[c]), collector[c].step = "applying",
           NEW a \in collector[c].todo, Removing(c, a)
    PROVE  \E x : /\ collector' = [collector EXCEPT ![c] = x]
                  /\ IsCollector(x) /\ x.step = "removing" /\ x.plan = collector[c].plan
                  /\ x.todo = collector[c].todo
                  /\ x.left = {[action |-> a, path |-> p] : p \in a.paths}
<1> DEFINE targets == {[action |-> a, path |-> p] : p \in a.paths}
           x == [collector[c] EXCEPT !.step = "removing", !.left = targets]
<1>1. collector' = [collector EXCEPT ![c] = x]
    BY DEF Removing
<1> HIDE DEF targets
<1>2. /\ IsCollector(x) /\ x.step = "removing" /\ x.plan = collector[c].plan
      /\ x.todo = collector[c].todo /\ x.left = targets
    BY DEF CollectorSound, IsCollector
<1> HIDE DEF x
<1> QED
    BY <1>1, <1>2 DEF targets

LEMMA StartPruneSafe ==
    ASSUME RetentionInv, NEW c \in Collector, StartPrune(c)
    PROVE  RetentionInv'
<1>1. PICK a \in collector[c].todo : a.kind # "bundle" /\ Removing(c, a)
    BY DEF StartPrune
<1>2. CollectorSound(collector[c]) /\ collector[c].step = "applying" /\ Keep
    BY DEF RetentionInv, CollectorsFit, StartPrune
<1>3. PICK x : /\ collector' = [collector EXCEPT ![c] = x]
               /\ IsCollector(x) /\ x.step = "removing" /\ x.plan = collector[c].plan
               /\ x.todo = collector[c].todo
               /\ x.left = {[action |-> a, path |-> p] : p \in a.paths}
    BY <1>1, <1>2, RemovingStarts
<1>4. /\ x.todo \subseteq x.plan.actions /\ a \in x.plan.actions
      /\ OneBundle(x.plan.actions) /\ \A d \in x.plan.actions : ActionSound(d)
    BY <1>1, <1>2, <1>3 DEF CollectorSound, WithPlan
<1>5. \A l \in x.left : l.action = a /\ l.path \in a.paths
    BY <1>3
<1>6. CollectorSound(x)
    BY <1>1, <1>3, <1>4, <1>5 DEF CollectorSound, CollectorSteps, Locked, Compiling
<1>7. collector[c].step \in Locked
    BY <1>2 DEF Locked, Compiling
<1> QED
    BY <1>2, <1>3, <1>6, <1>7, KeepSteps

\* A bundle that is there and of this plan holds the attempts of the action.
LEMMA BundleThere ==
    ASSUME BundlesFit, NEW a, NEW p, a \in p.actions, a.kind = "bundle",
           OneBundle(p.actions), NEW b \in BundleAt(a), b.plan = p
    PROVE  \A g \in a.paths : Bundled(a.of, g, a.error)
<1>1. b \in bundles /\ b.job = a.of /\ b.error = a.error
    BY DEF BundleAt
<1>2. PICK d \in b.plan.actions : d.kind = "bundle" /\ d.of = b.job /\ d.paths = b.attempts
    BY <1>1 DEF BundlesFit
<1>3. d = a
    BY <1>1, <1>2 DEF OneBundle
<1> QED
    BY <1>1, <1>2, <1>3 DEF Bundled

LEMMA CopySafe ==
    ASSUME RetentionInv, NEW c \in Collector, CopyBundle(c)
    PROVE  RetentionInv'
<1>1. PICK a \in collector[c].todo :
          /\ a.kind = "bundle" /\ Removing(c, a)
          /\ \/ /\ BundleAt(a) # {} /\ \A b \in BundleAt(a) : b.plan = collector[c].plan
                /\ UNCHANGED bundles
             \/ BundleAt(a) = {} /\ bundles' = bundles \cup {BundleOf(c, a)}
    BY DEF CopyBundle
<1>2. /\ CollectorSound(collector[c]) /\ collector[c].step = "applying"
      /\ UNCHANGED <<ledger, staging, published, receipts, holds, runs>>
    BY DEF RetentionInv, CollectorsFit, CopyBundle
<1>3. PICK x : /\ collector' = [collector EXCEPT ![c] = x]
               /\ IsCollector(x) /\ x.step = "removing" /\ x.plan = collector[c].plan
               /\ x.todo = collector[c].todo
               /\ x.left = {[action |-> a, path |-> p] : p \in a.paths}
    BY <1>1, <1>2, RemovingStarts
<1>4. /\ x.todo \subseteq x.plan.actions /\ a \in x.plan.actions
      /\ OneBundle(x.plan.actions) /\ \A d \in x.plan.actions : ActionSound(d)
    BY <1>1, <1>2, <1>3 DEF CollectorSound, WithPlan
<1>5. PICK p : p = collector[c].plan
    OBVIOUS
<1> DEFINE new == [job |-> a.of, error |-> a.error, attempt |-> Latest(a.paths),
                   plan |-> p, attempts |-> a.paths]
<1>6. new = BundleOf(c, a)
    BY <1>5 DEF BundleOf
<1>7. /\ new.job = a.of /\ new.error = a.error /\ new.attempt = Latest(a.paths)
      /\ new.plan = p /\ new.attempts = a.paths
    OBVIOUS
<1> HIDE DEF new
<1>8. BundlesFit' /\ bundles \subseteq bundles' /\ \A g \in a.paths : Bundled(a.of, g, a.error)'
  <2>1. CASE BundleAt(a) # {} /\ (\A b \in BundleAt(a) : b.plan = collector[c].plan)
             /\ UNCHANGED bundles
    <3>1. BundlesFit /\ a \in p.actions /\ OneBundle(p.actions)
        BY <1>3, <1>4, <1>5 DEF RetentionInv
    <3>2. PICK b \in BundleAt(a) : b.plan = p
        BY <1>5, <2>1
    <3>3. \A g \in a.paths : Bundled(a.of, g, a.error)
        BY <1>1, <3>1, <3>2, BundleThere
    <3> QED
        BY <2>1, <3>1, <3>3 DEF BundlesFit, OneBundle, Bundled
  <2>2. CASE BundleAt(a) = {} /\ bundles' = bundles \cup {new}
    <3>1. OneBundle(p.actions) /\ a \in p.actions
        BY <1>3, <1>4, <1>5
    <3>2. ASSUME NEW b \in bundles'
          PROVE  /\ OneBundle(b.plan.actions)
                 /\ \E d \in b.plan.actions : /\ d.kind = "bundle" /\ d.of = b.job
                                              /\ d.paths = b.attempts /\ d.error = b.error
      <4>1. CASE b \in bundles
          BY <4>1 DEF RetentionInv, BundlesFit
      <4>2. CASE b = new
          BY <1>1, <1>7, <3>1, <4>2
      <4> QED
          BY <2>2, <4>1, <4>2
    <3>3. \A b \in bundles : ~ (b.job = a.of /\ b.error = a.error /\ b.attempt = Latest(a.paths))
        BY <2>2 DEF BundleAt
    <3>4. \A b, d \in bundles' :
              b.job = d.job /\ b.error = d.error /\ b.attempt = d.attempt => b = d
        BY <1>7, <2>2, <3>3 DEF RetentionInv, BundlesFit
    <3>5. BundlesFit'
        BY <3>2, <3>4 DEF BundlesFit, OneBundle
    <3> QED
        BY <1>7, <2>2, <3>5 DEF Bundled
  <2> QED
      BY <1>1, <1>6, <2>1, <2>2
<1>9. HistoryKept
    BY <1>2, <1>8 DEF HistoryKept
<1>10. \A l \in x.left : l.action = a /\ l.path \in a.paths
    BY <1>3
<1>11. \A d \in x.plan.actions : ActionSound(d)'
    BY <1>4, <1>9, ActionsStay
<1>12. CollectorSound(x)'
    BY <1>3, <1>4, <1>8, <1>10, <1>11 DEF CollectorSound, CollectorSteps, Locked, Compiling, IsCollector,
       OneBundle, WithPlan
<1>13. collector[c].step \in Locked
    BY <1>2 DEF Locked, Compiling
<1>14. CollectorsFit'
    BY <1>3, <1>9, <1>12, <1>13, CollectorMoves DEF RetentionInv
<1>15. LedgerFit' /\ DiskFit'
    BY <1>2 DEF RetentionInv, LedgerFit, DiskFit, Newest
<1>16. EvidenceSafe'
    BY <1>2, <1>8 DEF RetentionInv, EvidenceSafe, EvidenceAt, Bundled
<1> QED
    BY <1>8, <1>14, <1>15, <1>16 DEF RetentionInv

-----------------------------------------------------------------------------
\* An attempt whose failure is written down loses its directory.
LEMMA DirectoryRemoved ==
    ASSUME RetentionInv, UNCHANGED <<ledger, bundles>>,
           NEW j \in QueueJob, NEW n \in DOMAIN ledger[j].attempts,
           ledger[j].attempts[n].state \in Ended,
           Bundled(j, n, ledger[j].attempts[n].error), NEW d \in {"gone", "partial"},
           staging' = [staging EXCEPT ![j][n] = d]
    PROVE  /\ staging' \in Directories
           /\ \A k \in QueueJob : \A g \in DOMAIN ledger'[k].attempts : EvidenceAt(k, g)'
<1>1. n \in 1..MaxAttempt
    BY RetentionAssumption DEF RetentionInv, LedgerFit, LedgerRows
<1>2. staging' \in Directories /\ StagingBecomes(j, n, d)
    BY <1>1, StagingWritten DEF RetentionInv, DiskFit, OnDisk
<1>3. ASSUME NEW k \in QueueJob, NEW g \in DOMAIN ledger'[k].attempts PROVE EvidenceAt(k, g)'
  <2>1. EvidenceAt(k, g) /\ g \in 1..MaxAttempt
      BY RetentionAssumption DEF RetentionInv, EvidenceSafe, LedgerFit, LedgerRows
  <2>2. CASE k = j /\ g = n
      BY <2>2 DEF EvidenceAt, Bundled
  <2>3. CASE k # j \/ g # n
      BY <1>2, <2>1, <2>3 DEF EvidenceAt, StagingBecomes, Bundled
  <2> QED
      BY <2>2, <2>3
<1> QED
    BY <1>2, <1>3

\* What the target of a removal is, while its collector is removing.
Target(l) ==
    \/ /\ l.action.kind = "bundle" /\ l.action.of \in QueueJob
       /\ l.path \in DOMAIN ledger[l.action.of].attempts
       /\ ledger[l.action.of].attempts[l.path].state \in Ended
       /\ Bundled(l.action.of, l.path, ledger[l.action.of].attempts[l.path].error)
    \/ l.action.kind = "success" /\ l.action.of \in receipts
    \/ /\ l.action.kind \in {"scratch", "composites"} /\ l.action.of \in Run
       /\ runs[l.action.of].state = "complete"

LEMMA TargetsSound ==
    ASSUME NEW x, CollectorSound(x), x.step = "removing", NEW l \in x.left
    PROVE  Target(l)
<1>1. /\ l.action \in x.plan.actions /\ l.path \in l.action.paths
      /\ l.action.kind = "bundle" => Bundled(l.action.of, l.path, l.action.error)
    BY DEF CollectorSound
<1>2. ActionSound(l.action)
    BY <1>1 DEF CollectorSound, WithPlan
<1> QED
    BY <1>1, <1>2 DEF ActionSound, Target

\* _remove_retention_target of a sound target.
LEMMA DeleteSafe ==
    ASSUME RetentionInv, NEW l, Target(l), Delete(l.action, l.path, "gone"),
           UNCHANGED <<ledger, receipts, holds, bundles>>
    PROVE  HistoryKept /\ DiskFit' /\ EvidenceSafe'
<1> DEFINE a == l.action
<1>1. CASE a.kind = "bundle"
  <2>1. UNCHANGED <<published, runs>>
      BY <1>1 DEF Delete
  <2>2. staging' = staging \/ staging' = [staging EXCEPT ![a.of][l.path] = "gone"]
      BY DEF Delete
  <2>3. /\ staging' \in Directories
        /\ \A k \in QueueJob : \A g \in DOMAIN ledger'[k].attempts : EvidenceAt(k, g)'
    <3>1. CASE staging' = staging
        BY <3>1 DEF RetentionInv, DiskFit, EvidenceSafe, EvidenceAt, Bundled
    <3>2. CASE staging' = [staging EXCEPT ![a.of][l.path] = "gone"]
      <4>1. PICK j, n : j = a.of /\ n = l.path
          OBVIOUS
      <4>2. /\ j \in QueueJob /\ n \in DOMAIN ledger[j].attempts
            /\ ledger[j].attempts[n].state \in Ended
            /\ Bundled(j, n, ledger[j].attempts[n].error)
          BY <1>1, <4>1 DEF Target
      <4>3. staging' = [staging EXCEPT ![j][n] = "gone"]
          BY <3>2, <4>1
      <4> QED
          BY <4>2, <4>3, DirectoryRemoved
    <3> QED
        BY <2>2, <3>1, <3>2
  <2>4. HistoryKept
      BY <2>1 DEF HistoryKept
  <2> QED
      BY <2>1, <2>3, <2>4 DEF RetentionInv, DiskFit, EvidenceSafe
<1>2. CASE a.kind = "success"
  <2>1. /\ UNCHANGED <<staging, runs>> /\ published' = [published EXCEPT ![a.of] = "pruned"]
        /\ a.of \in receipts
      BY <1>2 DEF Delete, Target
  <2> HIDE DEF a
  <2>2. HistoryKept
      BY <2>1 DEF HistoryKept
  <2>3. /\ published' \in [QueueJob -> {"none", "whole", "pruned"}]
        /\ \A j \in QueueJob : published'[j] = "pruned" => j \in receipts'
      BY <2>1 DEF RetentionInv, DiskFit, EvidenceSafe
  <2>4. DiskFit'
      BY <2>1, <2>3 DEF RetentionInv, DiskFit
  <2>5. EvidenceSafe'
      BY <2>1, <2>3 DEF RetentionInv, EvidenceSafe, EvidenceAt, Bundled
  <2> QED
      BY <2>2, <2>4, <2>5
<1>3. CASE a.kind \in {"scratch", "composites"}
  <2>1. PICK r : r = a.of
      OBVIOUS
  <2>2. r \in Run /\ runs[r].state = "complete" /\ UNCHANGED <<staging, published>>
      BY <1>3, <2>1 DEF Delete, Target
  <2>3. \/ runs' = [runs EXCEPT ![r].scratch = FALSE]
        \/ runs' = [runs EXCEPT ![r].composites = FALSE]
      BY <1>3, <2>1 DEF Delete
  <2>4. runs \in [Run -> RunRows]
      BY DEF RetentionInv, DiskFit
  <2>5. PICK row \in RunRows : runs' = [runs EXCEPT ![r] = row] /\ row.state = "complete"
    <3>1. CASE runs' = [runs EXCEPT ![r].scratch = FALSE]
      <4> DEFINE row == [runs[r] EXCEPT !.scratch = FALSE]
      <4>1. row \in RunRows /\ row.state = "complete"
          BY <2>2, <2>4 DEF RunRows
      <4>2. runs' = [runs EXCEPT ![r] = row]
          BY <3>1
      <4> HIDE DEF row
      <4> QED
          BY <4>1, <4>2
    <3>2. CASE runs' = [runs EXCEPT ![r].composites = FALSE]
      <4> DEFINE row == [runs[r] EXCEPT !.composites = FALSE]
      <4>1. row \in RunRows /\ row.state = "complete"
          BY <2>2, <2>4 DEF RunRows
      <4>2. runs' = [runs EXCEPT ![r] = row]
          BY <3>2
      <4> HIDE DEF row
      <4> QED
          BY <4>1, <4>2
    <3> QED
        BY <2>3, <3>1, <3>2
  <2>6. /\ runs' \in [Run -> RunRows] /\ runs'[r].state = "complete"
        /\ \A q \in Run : q # r => runs'[q] = runs[q]
      BY <2>2, <2>4, <2>5
  <2>7. HistoryKept
      BY <2>6 DEF HistoryKept
  <2>8. DiskFit'
      BY <2>2, <2>6 DEF RetentionInv, DiskFit
  <2>9. \A q \in Run : runs'[q].state \in {"retaining", "failed"} =>
            runs'[q].scratch /\ runs'[q].composites
      BY <2>6 DEF RetentionInv, EvidenceSafe
  <2>10. EvidenceSafe'
      BY <2>2, <2>9 DEF RetentionInv, EvidenceSafe, EvidenceAt, Bundled
  <2> QED
      BY <2>7, <2>8, <2>10
<1> QED
    BY <1>1, <1>2, <1>3 DEF Target

LEMMA RemoveSafe ==
    ASSUME RetentionInv, NEW c \in Collector, RemovePath(c)
    PROVE  RetentionInv'
<1>1. PICK l \in collector[c].left :
          /\ Delete(l.action, l.path, "gone")
          /\ collector' = [collector EXCEPT ![c] =
                IF collector[c].left # {l} THEN [@ EXCEPT !.left = collector[c].left \ {l}]
                ELSE [@ EXCEPT !.step = "applying", !.left = {},
                               !.todo = collector[c].todo \ {l.action}]]
    BY DEF RemovePath
<1>2. /\ CollectorSound(collector[c]) /\ collector[c].step = "removing"
      /\ UNCHANGED <<ledger, receipts, holds, bundles>>
    BY DEF RetentionInv, CollectorsFit, RemovePath
<1>3. PICK y : y = collector[c]
    OBVIOUS
<1>4. CollectorSound(y) /\ y.step = "removing" /\ l \in y.left
    BY <1>2, <1>3
<1>5. HistoryKept /\ DiskFit' /\ EvidenceSafe'
  <2>1. Target(l)
      BY <1>4, TargetsSound
  <2> QED
      BY <1>1, <1>2, <2>1, DeleteSafe
<1> DEFINE less == [y EXCEPT !.left = y.left \ {l}]
           done == [y EXCEPT !.step = "applying", !.left = {}, !.todo = y.todo \ {l.action}]
<1>6. CollectorSound(less) /\ less.step = "removing"
  <2>1. /\ IsCollector(less) /\ less.step = "removing" /\ less.plan = y.plan
        /\ less.todo = y.todo /\ less.left = y.left \ {l} /\ less.rows = y.rows
      BY <1>4 DEF CollectorSound, IsCollector
  <2> HIDE DEF less
  <2> QED
      BY <1>4, <2>1 DEF CollectorSound, WithPlan
<1>7. CollectorSound(done) /\ done.step = "applying"
  <2>1. /\ IsCollector(done) /\ done.step = "applying" /\ done.plan = y.plan
        /\ done.todo = y.todo \ {l.action}
      BY <1>4 DEF CollectorSound, IsCollector
  <2> HIDE DEF done
  <2> QED
      BY <1>4, <2>1 DEF CollectorSound, WithPlan, CollectorSteps, Locked, Compiling
<1>8. collector' = [collector EXCEPT ![c] = less] \/ collector' = [collector EXCEPT ![c] = done]
    BY <1>1, <1>3
<1> HIDE DEF less, done
<1>9. PICK x : CollectorSound(x) /\ collector' = [collector EXCEPT ![c] = x]
    BY <1>6, <1>7, <1>8
<1>10. CollectorSound(x)'
    BY <1>5, <1>9, CollectorStays
<1>11. collector[c].step \in Locked
    BY <1>2 DEF Locked, Compiling
<1>12. CollectorsFit'
    BY <1>5, <1>9, <1>10, <1>11, CollectorMoves DEF RetentionInv
<1>13. LedgerFit' /\ BundlesFit'
    BY <1>2 DEF RetentionInv, LedgerFit, Newest, BundlesFit, OneBundle
<1> QED
    BY <1>5, <1>12, <1>13 DEF RetentionInv

LEMMA RemoveFailsSafe ==
    ASSUME RetentionInv, NEW c \in Collector, RemoveFails(c)
    PROVE  RetentionInv'
<1>1. PICK l \in collector[c].left :
          /\ l.action.kind = "bundle"
          /\ staging' = [staging EXCEPT ![l.action.of][l.path] = "partial"]
    BY DEF RemoveFails
<1>2. /\ CollectorSound(collector[c]) /\ collector[c].step = "removing"
      /\ UNCHANGED <<ledger, published, receipts, holds, bundles>>
      /\ EndCollection(c, "not-applied")
    BY DEF RetentionInv, CollectorsFit, RemoveFails
<1>3. PICK y, j, n : y = collector[c] /\ j = l.action.of /\ n = l.path
    OBVIOUS
<1>4. Target(l)
    BY <1>1, <1>2, <1>3, TargetsSound
<1>5. /\ j \in QueueJob /\ n \in DOMAIN ledger[j].attempts
      /\ ledger[j].attempts[n].state \in Ended
      /\ Bundled(j, n, ledger[j].attempts[n].error)
    BY <1>1, <1>3, <1>4 DEF Target
<1>6. staging' = [staging EXCEPT ![j][n] = "partial"]
    BY <1>1, <1>3
<1>7. /\ staging' \in Directories
      /\ \A k \in QueueJob : \A g \in DOMAIN ledger'[k].attempts : EvidenceAt(k, g)'
    BY <1>2, <1>5, <1>6, DirectoryRemoved
<1>8. /\ LedgerFit' /\ BundlesFit' /\ CollectorsFit' /\ runs' \in [Run -> RunRows]
      /\ \A r \in Run : runs'[r].state \in {"retaining", "failed"} =>
             runs'[r].scratch /\ runs'[r].composites
    BY <1>2, EndCollects DEF Outcomes
<1>9. DiskFit'
    BY <1>2, <1>7, <1>8 DEF RetentionInv, DiskFit
<1>10. EvidenceSafe'
    BY <1>2, <1>7, <1>8 DEF RetentionInv, EvidenceSafe
<1> QED
    BY <1>8, <1>9, <1>10 DEF RetentionInv

\* Every step of the environment and of a collector keeps the invariant.
LEMMA RetentionInductive == RetentionInv /\ [RetentionNext]_retentionVars => RetentionInv'
<1> SUFFICES ASSUME RetentionInv, [RetentionNext]_retentionVars PROVE RetentionInv'
    OBVIOUS
<1>1. CASE Environment
  <2>1. ASSUME NEW j \in QueueJob, \/ ClaimForWork(j) \/ EndLeasedAttempt(j) \/ CompleteAttempt(j)
                                   \/ RequeueFailed(j) \/ LateWrite(j) \/ ImportLane(j)
        PROVE  RetentionInv'
      BY <2>1, ClaimSafe, EndAttemptSafe, CompleteSafe, RequeueSafe, LateWriteSafe, ImportSafe
  <2>2. CASE AddHold
      BY <2>2, HoldSafe
  <2>3. ASSUME NEW r \in Run, FinishRun(r) PROVE RetentionInv'
      BY <2>3, FinishSafe
  <2> QED
      BY <1>1, <2>1, <2>2, <2>3 DEF Environment
<1>2. ASSUME NEW c \in Collector, Collects(c) PROVE RetentionInv'
    BY <1>2, WritePlanSafe, LockSafe, ReadHoldsSafe, ReadSafe, RecompileSafe, StartPruneSafe, CopySafe,
       EasySteps, RemoveSafe DEF Collects
<1>3. ASSUME NEW c \in Collector, \/ Busy(c) \/ StartPlan(c) \/ DropPlan(c)
                                  \/ RemoveFails(c) \/ KillCollector(c) \/ Wake(c)
      PROVE  RetentionInv'
    BY <1>3, EasySteps, StartPlanSafe, RemoveFailsSafe, KillSafe
<1>4. CASE UNCHANGED retentionVars
  <2>1. UNCHANGED <<ledger, staging, published, receipts, holds, bundles, runs, collector>>
      BY <1>4 DEF retentionVars
  <2>2. HistoryKept /\ DiskFit' /\ EvidenceSafe'
      BY <2>1 DEF RetentionInv, HistoryKept, DiskFit, EvidenceSafe, EvidenceAt, Bundled
  <2> QED
      BY <2>1, <2>2, OtherSteps
<1> QED
    BY <1>1, <1>2, <1>3, <1>4 DEF RetentionNext

\* A collection takes a failed attempt only after its evidence is in a bundle,
\* a success only with its receipt, and of a run only what is disposable
\* (apply_retention_plan), whatever happened between the idle check and the
\* removals.
THEOREM CollectionIsSafe == RetentionSpec => []CollectionSafe
<1>1. RetentionInv => CollectionSafe
    BY EvidenceFollows DEF RetentionInv
<1> QED
    BY <1>1, RetentionStart, RetentionInductive, PTL DEF RetentionSpec

-----------------------------------------------------------------------------
Steps(c) == \/ Collects(c) \/ Busy(c) \/ StartPlan(c) \/ DropPlan(c)
            \/ RemoveFails(c) \/ KillCollector(c) \/ Wake(c)

\* A process moves itself, and only a recompiled plan that is current starts
\* to be applied.
LEMMA OneMoves ==
    ASSUME CollectorsFit, NEW d \in Collector, Steps(d)
    PROVE  /\ \A c \in Collector : c # d => collector'[c] = collector[c]
           /\ collector[d].step = "rereading" /\ collector'[d].step = "applying" =>
                 PlanIsCurrent(d)
<1>1. DOMAIN collector = Collector
    BY DEF CollectorsFit
<1>2. PICK x : collector' = [collector EXCEPT ![d] = x]
  <2>1. CASE WritePlan(d) \/ ReadHolds(d) \/ ReadLedger(d) \/ RemovePath(d) \/ KillCollector(d)
      BY <2>1 DEF WritePlan, ReadHolds, ReadLedger, RemovePath, KillCollector
  <2>2. CASE StartPrune(d) \/ CopyBundle(d)
      BY <2>2 DEF StartPrune, CopyBundle, Removing
  <2>3. CASE \/ LockCollector(d) \/ Recompile(d) \/ BundleRefused(d) \/ EndApply(d) \/ Busy(d)
             \/ StartPlan(d) \/ DropPlan(d) \/ RemoveFails(d) \/ Wake(d)
      BY <2>3 DEF LockCollector, Recompile, BundleRefused, EndApply, Busy, StartPlan, DropPlan,
         RemoveFails, Wake, EndCollection, CollectorStep
  <2> QED
      BY <2>1, <2>2, <2>3 DEF Steps, Collects
<1>3. ASSUME collector[d].step = "rereading", collector'[d].step = "applying"
      PROVE  PlanIsCurrent(d)
  <2>1. CASE Recompile(d)
    <3>1. CASE EndCollection(d, "not-applied")
      <4>1. collector'[d].step \in {"idle", "parked"}
          BY <1>1, <3>1 DEF EndCollection, NotCollecting
      <4> QED
          BY <1>3, <4>1
    <3>2. CASE PlanIsCurrent(d)
        BY <3>2
    <3> QED
        BY <2>1, <3>1, <3>2 DEF Recompile
  <2>2. CASE KillCollector(d)
      BY <1>1, <1>3, <2>2 DEF KillCollector, NotCollecting
  <2>3. CASE \/ WritePlan(d) \/ ReadHolds(d) \/ ReadLedger(d) \/ RemovePath(d)
             \/ StartPrune(d) \/ CopyBundle(d) \/ LockCollector(d) \/ BundleRefused(d)
             \/ EndApply(d) \/ Busy(d) \/ StartPlan(d) \/ DropPlan(d) \/ RemoveFails(d)
             \/ Wake(d)
      BY <1>3, <2>3 DEF WritePlan, ReadHolds, ReadLedger, RemovePath, StartPrune, CopyBundle,
         LockCollector, BundleRefused, EndApply, Busy, StartPlan, DropPlan, RemoveFails, Wake
  <2> QED
      BY <2>1, <2>2, <2>3 DEF Steps, Collects
<1> QED
    BY <1>1, <1>2, <1>3

\* What a plan removes was not held when its apply took the lock.
UnheldPlan(c) ==
    \A a \in collector[c].plan.actions :
        /\ a.kind = "bundle" => \A g \in a.paths : ~Held(collector[c].promised, a.of, g)
        /\ a.kind = "success" => ~JobHeld(collector[c].promised, a.of)

LEMMA CurrentUnheld ==
    ASSUME CollectorsFit, NEW c \in Collector, collector[c].step = "rereading", PlanIsCurrent(c)
    PROVE  UnheldPlan(c)
<1>1. PICK held, rows : held = collector[c].held /\ rows = collector[c].rows
    OBVIOUS
<1>2. /\ RowsOld(rows) /\ collector[c].plan = RetentionPlan(held, rows, TriggerOf[c])
      /\ collector[c].promised \subseteq held
    BY <1>1 DEF CollectorsFit, CollectorSound, PlanIsCurrent
<1>3. rows \in LedgerRows /\ \A j \in QueueJob : Len(rows[j].attempts) <= MaxAttempt
    BY <1>2 DEF RowsOld
<1>4. \A a \in collector[c].plan.actions : PlanTakes(held, rows, a)
    BY <1>2, <1>3, PlanActions
<1>5. /\ \A j, g : Held(collector[c].promised, j, g) => Held(held, j, g)
      /\ \A j : JobHeld(collector[c].promised, j) => JobHeld(held, j)
    BY <1>2 DEF Held, JobHeld
<1> QED
    BY <1>4, <1>5 DEF UnheldPlan, PlanTakes

\* Operator holds always win: a plan is applied only when, compiled again from
\* the holds read after the lock was taken, it is the same, and no plan takes
\* what was held when its holds were read (compile_retention_plan).
THEOREM HoldsAlwaysWin == RetentionSpec => HoldsWin
<1>1. ASSUME RetentionInv, [RetentionNext]_retentionVars
      PROVE  [\A c \in Collector :
                collector[c].step = "rereading" /\ collector'[c].step = "applying" =>
                   UnheldPlan(c)]_retentionVars
  <2>1. SUFFICES ASSUME RetentionNext, NEW c \in Collector,
                        collector[c].step = "rereading", collector'[c].step = "applying"
                 PROVE  UnheldPlan(c)
      BY <1>1
  <2>2. CollectorsFit
      BY <1>1 DEF RetentionInv
  <2>3. CASE Environment
    <3>1. collector' = collector
        BY <2>3 DEF Environment, ClaimForWork, EndLeasedAttempt, CompleteAttempt, RequeueFailed,
           LateWrite, ImportLane, AddHold, FinishRun
    <3> QED
        BY <2>1, <3>1
  <2>4. ASSUME NEW d \in Collector, Steps(d) PROVE UnheldPlan(c)
    <3>1. d = c /\ PlanIsCurrent(c)
        BY <2>1, <2>2, <2>4, OneMoves
    <3> QED
        BY <2>1, <2>2, <3>1, CurrentUnheld
  <2> QED
      BY <2>1, <2>3, <2>4 DEF RetentionNext, Steps
<1> QED
    BY <1>1, RetentionStart, RetentionInductive, PTL DEF RetentionSpec, HoldsWin, UnheldPlan

\* At most one process holds the collector lock.
LEMMA OneHolder == CollectorsFit => Cardinality({c \in Collector : collector[c].step \in Locked}) <= 1
<1> SUFFICES ASSUME CollectorsFit
             PROVE  Cardinality({c \in Collector : collector[c].step \in Locked}) <= 1
    OBVIOUS
<1> DEFINE H == {c \in Collector : collector[c].step \in Locked}
<1>1. \A c, d \in H : c = d
    BY DEF CollectorsFit
<1> HIDE DEF H
<1>2. CASE H = {}
    BY <1>2, FS_EmptySet DEF H
<1>3. CASE H # {}
  <2>1. PICK c \in H : H = {c}
      BY <1>1, <1>3
  <2>2. Cardinality(H) = 1
      BY <2>1, FS_Singleton
  <2> QED
      BY <2>2 DEF H
<1> QED
    BY <1>2, <1>3

\* The directories, bundles and processes are what retention.py writes: a
\* bundle is made once and one process at most holds the collector lock.
THEOREM RetentionTyped == RetentionSpec => []RetentionTypeOK
<1>1. ASSUME RetentionInv PROVE RetentionTypeOK
  <2>1. /\ \A j \in QueueJob :
              /\ ledger[j].state \in {"queued", "leased", "complete", "failed"}
              /\ Len(ledger[j].attempts) <= MaxAttempt
              /\ \A g \in DOMAIN ledger[j].attempts : ledger[j].attempts[g] \in
                    [state : {"leased", "completed"} \cup Ended,
                     error : Error \cup {"none", "expired"}]
        /\ \A r \in Run : runs[r].state \in {"running", "retaining", "complete", "failed"}
    <3>1. ASSUME NEW j \in QueueJob
          PROVE /\ ledger[j].state \in RowStates /\ ledger[j].attempts \in Seq(Attempts)
                /\ Len(ledger[j].attempts) <= MaxAttempt
        BY <1>1 DEF RetentionInv, LedgerFit, LedgerRows
    <3>2. ASSUME NEW j \in QueueJob, NEW g \in DOMAIN ledger[j].attempts
          PROVE ledger[j].attempts[g] \in Attempts
        BY <3>1
    <3>3. \A r \in Run : runs[r].state \in {"running", "retaining", "complete", "failed"}
        BY <1>1 DEF RetentionInv, DiskFit, RunRows
    <3> QED
        BY <3>1, <3>2, <3>3 DEF RowStates, Attempts
  <2>2. \A b, d \in bundles :
            <<b.job, b.error, b.attempt>> = <<d.job, d.error, d.attempt>> => b = d
      BY <1>1 DEF RetentionInv, BundlesFit
  <2>3. \A c \in Collector : collector[c].step \in CollectorSteps
      BY <1>1 DEF RetentionInv, CollectorsFit, CollectorSound
  <2> QED
      BY <1>1, <2>1, <2>2, <2>3, OneHolder DEF RetentionInv, DiskFit, Directories,
         RetentionTypeOK, CollectorSteps
<1> QED
    BY <1>1, RetentionStart, RetentionInductive, PTL DEF RetentionSpec

-----------------------------------------------------------------------------
(* The database export.                                                    *)

Freezing == [step : {"rest", "freeze", "backup", "read", "receipt"},
             population : 0..MaxPopulation]
BuildSteps == {"rest", "inspect", "read", "verify", "assemble", "stream", "publish", "checksum"}
BuildStates == [step : BuildSteps, population : 0..MaxPopulation, named : 0..MaxPopulation,
                bound : Receipts \cup {NoFileYet}, listed : Receipts \cup {NoFileYet},
                crossed : BOOLEAN]

\* Where the two processes stand, and what they rely on by then.
SafeguardStands ==
    /\ freezing \in Freezing
    /\ freezing.step \in {"backup", "read"} => snapshot.partial \in Snapshots
    /\ freezing.step = "read" => snapshot.partial.whole
    /\ freezing.step = "receipt" =>
          /\ snapshot.final \in Snapshots /\ snapshot.final.whole
          /\ snapshot.final.population = freezing.population
          /\ freezing.population > 0

\* A receipt that names a whole snapshot of the population it was written for.
TrueReceipt(r) ==
    /\ r \in Receipts /\ r.population \in frozen
    /\ r.snapshot.whole /\ r.snapshot.population = r.population

ReceiptTrue == receipt # NoFileYet => TrueReceipt(receipt)

\* Between its reads of the receipt a build knows of one that was true, and it
\* is still in force unless a safeguard has crossed the build.
BuildStands ==
    /\ building \in BuildStates
    /\ building.step = "inspect" => building.named > 0
    /\ building.step \in BetweenReads =>
          /\ building.named > 0 /\ receipt # NoFileYet
          /\ TrueReceipt(building.bound) /\ building.bound.population = building.named
          /\ building.crossed \/ receipt = building.bound
    /\ building.step \in {"assemble", "stream"} =>
          /\ building.population \in frozen
          /\ building.crossed \/ building.population = building.named
    /\ building.step = "stream" =>
          /\ building.listed \in Receipts
          /\ building.crossed \/ building.listed = building.bound
    /\ building.step = "publish" => package.partial \in Packages
    /\ building.step = "checksum" => package.final # NoFileYet

ExportInv ==
    /\ ExportTypeOK /\ PackageFrozen /\ PackageBound
    /\ SafeguardStands /\ BuildStands /\ ReceiptTrue

LEMMA ExportStart == ExportInit => ExportInv
<1> SUFFICES ASSUME ExportInit PROVE ExportInv
    OBVIOUS
<1>1. ExportTypeOK
  <2>1. population \in 0..MaxPopulation /\ frozen \subseteq 1..MaxPopulation
      BY ExportAssumption DEF ExportInit
  <2>2. working \in BOOLEAN /\ ready \in BOOLEAN /\ checksum = FALSE
      BY Zenon DEF ExportInit
  <2>3. /\ snapshot \in [final : Snapshots \cup {NoFileYet}, partial : Snapshots \cup {NoFileYet}]
        /\ package \in [final : Packages \cup {NoFileYet}, partial : Packages \cup {NoFileYet}]
      BY DEF ExportInit
  <2> QED
      BY <2>1, <2>2, <2>3 DEF ExportInit, ExportTypeOK
<1>2. PackageFrozen /\ PackageBound /\ ReceiptTrue
    BY DEF ExportInit, PackageFrozen, PackageBound, Archives, ReceiptTrue
<1>3. SafeguardStands /\ BuildStands
    BY ExportAssumption DEF ExportInit, SafeguardStands, BuildStands, Resting, NotBuilding,
        Freezing, BuildSteps, BuildStates, BetweenReads
<1> QED
    BY <1>1, <1>2, <1>3 DEF ExportInv

\* A step that leaves the packages alone and forgets no safeguard keeps what is
\* said of the packages.
LEMMA PackagesStand ==
    ASSUME PackageFrozen, PackageBound, UNCHANGED package, frozen \subseteq frozen'
    PROVE  PackageFrozen' /\ PackageBound'
    BY DEF PackageFrozen, PackageBound, Archives

\* A step of the safeguard before its receipt, or of the world outside.
LEMMA ExportSafeguards ==
    ASSUME ExportInv,
           \/ Outside \/ StartSafeguard \/ BeginBackup \/ EndBackup
           \/ PublishSnapshot \/ KillSafeguard
    PROVE  ExportInv'
<1> USE ExportAssumption
<1>1. UNCHANGED <<receipt, package, checksum, building, frozen>>
    BY DEF Outside, StartSafeguard, BeginBackup, EndBackup, PublishSnapshot, KillSafeguard,
        NotBuilt
<1>2. PackageFrozen' /\ PackageBound' /\ ReceiptTrue' /\ BuildStands'
    BY <1>1, PackagesStand DEF ExportInv, ReceiptTrue, TrueReceipt, BuildStands
<1>3. ExportTypeOK' /\ SafeguardStands'
  <2>1. CASE Outside
    <3>1. population' \in 0..MaxPopulation
        BY <2>1 DEF ExportInv, ExportTypeOK, Outside, LeaseSome, CompleteSome
    <3>2. working' \in BOOLEAN /\ ready' \in BOOLEAN
        BY <2>1, Zenon DEF ExportInv, ExportTypeOK, Outside, LeaseSome, CompleteSome
    <3>3. UNCHANGED <<snapshot, freezing>>
        BY <2>1 DEF Outside
    <3>4. checksum' \in BOOLEAN /\ (checksum' => package'.final # NoFileYet)
        BY <1>1, Zenon DEF ExportInv, ExportTypeOK
    <3> QED
        BY <1>1, <3>1, <3>2, <3>3, <3>4 DEF ExportInv, ExportTypeOK, SafeguardStands
  <2>2. CASE StartSafeguard
      BY <1>1, <2>2 DEF ExportInv, ExportTypeOK, SafeguardStands, StartSafeguard, Safeguard,
          NotBuilt, Freezing
  <2>3. CASE BeginBackup
    <3>1. PICK rows \in BOOLEAN : snapshot' = [snapshot EXCEPT !.partial =
                [population |-> population, rows |-> rows, whole |-> FALSE]]
        BY <2>3 DEF BeginBackup
    <3>2. [population |-> population, rows |-> rows, whole |-> FALSE] \in Snapshots
        BY DEF ExportInv, ExportTypeOK, Snapshots
    <3>3. freezing.step = "freeze" /\ freezing' = [freezing EXCEPT !.step = "backup"]
        BY <2>3 DEF BeginBackup, Safeguard
    <3>4. UNCHANGED <<population, working, ready>>
        BY <2>3 DEF BeginBackup, NotBuilt
    <3> QED
        BY <1>1, <3>1, <3>2, <3>3, <3>4 DEF ExportInv, ExportTypeOK, SafeguardStands, Freezing
  <2>4. CASE EndBackup
    <3>1. PICK s : s = [snapshot.partial EXCEPT !.whole = TRUE]
        OBVIOUS
    <3>2. snapshot.partial \in Snapshots /\ freezing \in Freezing
        BY <2>4 DEF ExportInv, SafeguardStands, EndBackup, Safeguard
    <3>3. s \in Snapshots /\ s.whole
        BY <3>1, <3>2 DEF Snapshots
    <3>4. snapshot' = [snapshot EXCEPT !.partial = s] /\ UNCHANGED <<population, working, ready>>
        BY <2>4, <3>1 DEF EndBackup, NotBuilt
    <3>5. /\ snapshot'.final = snapshot.final /\ snapshot'.partial = s
          /\ snapshot' \in [final : Snapshots \cup {NoFileYet}, partial : Snapshots \cup {NoFileYet}]
        BY <3>3, <3>4 DEF ExportInv, ExportTypeOK
    <3>6. freezing' \in Freezing /\ freezing.step' = "read"
        BY <2>4, <3>2 DEF EndBackup, Safeguard, Freezing
    <3>7. SafeguardStands'
        BY <3>3, <3>5, <3>6 DEF SafeguardStands
    <3>8. checksum' \in BOOLEAN /\ (checksum' => package'.final # NoFileYet)
        BY <1>1, Zenon DEF ExportInv, ExportTypeOK
    <3>9. working' \in BOOLEAN /\ ready' \in BOOLEAN
        BY <3>4, Zenon DEF ExportInv, ExportTypeOK
    <3> QED
        BY <1>1, <3>4, <3>5, <3>7, <3>8, <3>9 DEF ExportInv, ExportTypeOK
  <2>5. CASE PublishSnapshot
      BY <1>1, <2>5 DEF ExportInv, ExportTypeOK, SafeguardStands, PublishSnapshot, NotBuilt,
          Freezing, Snapshots
  <2>6. CASE KillSafeguard
      BY <1>1, <2>6 DEF ExportInv, ExportTypeOK, SafeguardStands, KillSafeguard, NotBuilt,
          Freezing, Resting
  <2> QED
      BY <2>1, <2>2, <2>3, <2>4, <2>5, <2>6
<1> QED
    BY <1>2, <1>3 DEF ExportInv

\* The receipt is written: it is true, and a build that is reading is crossed.
LEMMA ExportReceipt == ASSUME ExportInv, WriteReceipt PROVE ExportInv'
<1> USE ExportAssumption
<1>1. /\ freezing.population \in 1..MaxPopulation
      /\ snapshot.final \in Snapshots /\ snapshot.final.whole
      /\ snapshot.final.population = freezing.population
    BY DEF ExportInv, SafeguardStands, WriteReceipt, Freezing
<1>2. receipt' = [population |-> freezing.population, snapshot |-> snapshot.final]
    BY DEF WriteReceipt
<1>3. receipt' \in Receipts /\ ReceiptTrue' /\ receipt' # NoFileYet
    BY <1>1, <1>2 DEF ReceiptTrue, TrueReceipt, WriteReceipt, Receipts
<1>4. ExportTypeOK'
    BY <1>1, <1>3 DEF ExportInv, ExportTypeOK, WriteReceipt
<1>5. PackageFrozen' /\ PackageBound'
    BY PackagesStand DEF ExportInv, WriteReceipt
<1>6. SafeguardStands'
    BY DEF ExportInv, SafeguardStands, WriteReceipt, Resting, Freezing
<1>7. BuildStands'
  <2>1. frozen \subseteq frozen' /\ package' = package
      BY DEF WriteReceipt
  <2>2. building' \in BuildStates /\ building.step' = building.step
        /\ building.named' = building.named /\ building.bound' = building.bound
        /\ building.listed' = building.listed /\ building.population' = building.population
        /\ (building.step \in BetweenReads => building.crossed')
      BY DEF ExportInv, BuildStands, BuildStates, WriteReceipt
  <2> QED
      BY <1>3, <2>1, <2>2 DEF ExportInv, BuildStands, TrueReceipt, BetweenReads
<1> QED
    BY <1>3, <1>4, <1>5, <1>6, <1>7 DEF ExportInv

\* A step of a build up to the packing, or a kill of one.
LEMMA ExportReads ==
    ASSUME ExportInv,
           \/ StartBuild \/ InspectSafeguard \/ ReadArtifacts \/ VerifyBuild \/ Assemble
           \/ WriteChecksum \/ KillBuild
    PROVE  ExportInv'
<1> USE ExportAssumption
<1>1. UNCHANGED <<population, working, ready, snapshot, receipt, freezing, frozen>>
    BY DEF StartBuild, InspectSafeguard, ReadArtifacts, VerifyBuild, Assemble, WriteChecksum,
        KillBuild, NotFrozen
<1>2. /\ package'.final = package.final /\ package'.partial \in {package.partial, NoFileYet}
      /\ package' \in [final : Packages \cup {NoFileYet}, partial : Packages \cup {NoFileYet}]
    BY DEF ExportInv, ExportTypeOK, StartBuild, InspectSafeguard, ReadArtifacts, VerifyBuild,
        Assemble, WriteChecksum, KillBuild
<1>3. PackageFrozen' /\ PackageBound' /\ ReceiptTrue' /\ SafeguardStands'
    BY <1>1, <1>2 DEF ExportInv, PackageFrozen, PackageBound, Archives, ReceiptTrue,
        TrueReceipt, SafeguardStands
<1>4. building \in BuildStates /\ NotBuilding \in BuildStates /\ NotBuilding.step = "rest"
    BY DEF ExportInv, BuildStands, BuildStates, BuildSteps, NotBuilding
<1>5. BuildStands'
  <2>1. CASE StartBuild
    <3>1. building' \in BuildStates /\ building.step' = "inspect" /\ building.named' > 0
        BY <2>1, <1>4 DEF ExportInv, ExportTypeOK, StartBuild, Unblocked, BuildStates,
            BuildSteps, NotBuilding
    <3> QED
        BY <3>1 DEF BuildStands, BetweenReads
  <2>2. CASE InspectSafeguard
    <3>1. CASE ReceiptCurrent(building.named)
      <4>1. receipt # NoFileYet /\ TrueReceipt(receipt) /\ receipt.population = building.named
          BY <3>1 DEF ReceiptCurrent, ExportInv, ReceiptTrue
      <4>2. building' = [building EXCEPT !.step = "read", !.bound = receipt]
          BY <2>2, <3>1 DEF InspectSafeguard
      <4>3. building' \in BuildStates /\ building.step' = "read" /\ building.bound' = receipt
            /\ building.named' = building.named
          BY <1>4, <4>1, <4>2 DEF BuildStates, BuildSteps, TrueReceipt
      <4>4. building.named > 0
          BY <2>2 DEF InspectSafeguard, Building, ExportInv, BuildStands
      <4> QED
          BY <1>1, <4>1, <4>3, <4>4 DEF BuildStands, TrueReceipt, BetweenReads
    <3>2. CASE ~ReceiptCurrent(building.named)
        BY <2>2, <3>2, <1>4 DEF InspectSafeguard, BuildStands, BetweenReads
    <3> QED
        BY <3>1, <3>2
  <2>3. CASE ReadArtifacts
    <3>1. building.step = "read" /\ building' = [building EXCEPT !.step = "verify",
                                                               !.population = population]
        BY <2>3 DEF ReadArtifacts, Building
    <3>2. /\ building' \in BuildStates /\ building.step' = "verify"
          /\ building.named' = building.named /\ building.bound' = building.bound
          /\ building.crossed' = building.crossed
        BY <1>4, <3>1 DEF ExportInv, ExportTypeOK, BuildStates, BuildSteps
    <3> QED
        BY <1>1, <3>1, <3>2 DEF ExportInv, BuildStands, TrueReceipt, BetweenReads
  <2>4. CASE VerifyBuild
    <3>1. CASE FullyVerified(building.population)
      <4>1. building.step = "verify" /\ building' = [building EXCEPT !.step = "assemble"]
          BY <2>4, <3>1 DEF VerifyBuild, Building
      <4>2. /\ building' \in BuildStates /\ building.step' = "assemble"
            /\ building.named' = building.named /\ building.bound' = building.bound
            /\ building.crossed' = building.crossed
            /\ building.population' = building.population
          BY <1>4, <4>1 DEF BuildStates, BuildSteps
      <4>3. receipt.population = building.population /\ building.population \in frozen
          BY <3>1 DEF FullyVerified, ReceiptCurrent, ExportInv, ReceiptTrue, TrueReceipt
      <4> QED
          BY <1>1, <4>1, <4>2, <4>3 DEF ExportInv, BuildStands, TrueReceipt, BetweenReads
    <3>2. CASE ~FullyVerified(building.population)
        BY <2>4, <3>2, <1>4 DEF VerifyBuild, BuildStands, BetweenReads
    <3> QED
        BY <3>1, <3>2
  <2>5. CASE Assemble
    <3>1. building.step = "assemble" /\ building' = [building EXCEPT !.step = "stream",
                                                                   !.listed = receipt]
        BY <2>5 DEF Assemble, Building
    <3>2. receipt \in Receipts
        BY <3>1 DEF ExportInv, BuildStands, BetweenReads, ReceiptTrue, TrueReceipt
    <3>3. /\ building' \in BuildStates /\ building.step' = "stream"
          /\ building.named' = building.named /\ building.bound' = building.bound
          /\ building.crossed' = building.crossed /\ building.listed' = receipt
          /\ building.population' = building.population
        BY <1>4, <3>1, <3>2 DEF BuildStates, BuildSteps
    <3> QED
        BY <1>1, <3>1, <3>2, <3>3 DEF ExportInv, BuildStands, TrueReceipt, BetweenReads
  <2>6. CASE WriteChecksum \/ KillBuild
      BY <2>6, <1>4 DEF WriteChecksum, KillBuild, BuildStands, BetweenReads
  <2> QED
      BY <2>1, <2>2, <2>3, <2>4, <2>5, <2>6
<1>6. checksum' \in BOOLEAN /\ (checksum' => package'.final # NoFileYet)
  <2>1. CASE WriteChecksum
    <3>1. checksum' = TRUE
        BY <2>1, Zenon DEF WriteChecksum
    <3>2. package.final # NoFileYet
        BY <2>1 DEF WriteChecksum, Building, ExportInv, BuildStands
    <3> QED
        BY <3>1, <3>2, <1>2
  <2>2. CASE ~WriteChecksum
    <3>1. checksum' = checksum
        BY <2>2, Zenon DEF StartBuild, InspectSafeguard, ReadArtifacts, VerifyBuild, Assemble,
            KillBuild
    <3>2. checksum \in BOOLEAN /\ (checksum => package.final # NoFileYet)
        BY Zenon DEF ExportInv, ExportTypeOK
    <3>3. package'.final = package.final
        BY <1>2
    <3> QED
        BY <3>1, <3>2, <3>3, Zenon
  <2> QED
      BY <2>1, <2>2
<1>7. ExportTypeOK'
    BY <1>1, <1>2, <1>6 DEF ExportInv, ExportTypeOK
<1> QED
    BY <1>3, <1>5, <1>7 DEF ExportInv

\* The receipt is packed: it is the one that the build knows of, or a safeguard
\* has crossed the build.
LEMMA ExportStreams == ASSUME ExportInv, StreamPackage PROVE ExportInv'
<1> USE ExportAssumption
<1>1. /\ building.step = "stream" /\ building \in BuildStates
      /\ building.named > 0 /\ building.population \in frozen
      /\ TrueReceipt(building.bound) /\ building.bound.population = building.named
      /\ building.listed \in Receipts /\ receipt # NoFileYet
      /\ building.crossed \/ (/\ receipt = building.bound /\ building.listed = building.bound
                            /\ building.population = building.named)
    BY DEF ExportInv, BuildStands, StreamPackage, Building, BetweenReads
<1>2. TrueReceipt(receipt)
    BY <1>1 DEF ExportInv, ReceiptTrue
<1>3. PICK p : p = [population |-> building.population, named |-> building.named,
                    bound |-> building.bound, listed |-> building.listed,
                    packed |-> receipt, crossed |-> building.crossed]
    OBVIOUS
<1>4. p \in Packages
    BY <1>1, <1>2, <1>3 DEF ExportInv, ExportTypeOK, BuildStates, TrueReceipt, Packages
<1>5. /\ p.population \in frozen
      /\ ~p.crossed => /\ p.packed = p.bound /\ p.packed = p.listed
                       /\ p.packed.population = p.population /\ p.named = p.population
                       /\ p.packed.snapshot.whole /\ p.packed.snapshot.population = p.population
    BY <1>1, <1>2, <1>3 DEF TrueReceipt
<1>6. package' = [package EXCEPT !.partial = p]
    BY <1>3 DEF StreamPackage
<1>7. /\ package'.final = package.final /\ package'.partial = p
      /\ package' \in [final : Packages \cup {NoFileYet}, partial : Packages \cup {NoFileYet}]
    BY <1>4, <1>6 DEF ExportInv, ExportTypeOK
<1>8. UNCHANGED <<population, working, ready, snapshot, receipt, freezing, frozen, checksum>>
    BY DEF StreamPackage, NotFrozen
<1>9. PackageFrozen'
    BY <1>5, <1>7, <1>8 DEF ExportInv, PackageFrozen, Archives
<1>10. PackageBound'
    BY <1>5, <1>7 DEF ExportInv, PackageBound, Archives
<1>11. building' \in BuildStates /\ building.step' = "publish"
    BY <1>1 DEF StreamPackage, BuildStates, BuildSteps
<1>12. BuildStands'
    BY <1>4, <1>7, <1>11 DEF BuildStands, BetweenReads
<1>13. ExportTypeOK' /\ SafeguardStands' /\ ReceiptTrue'
    BY <1>7, <1>8 DEF ExportInv, ExportTypeOK, SafeguardStands, ReceiptTrue, TrueReceipt
<1> QED
    BY <1>9, <1>10, <1>12, <1>13 DEF ExportInv

LEMMA ExportPublishes == ASSUME ExportInv, PublishPackage PROVE ExportInv'
<1> USE ExportAssumption
<1>1. building.step = "publish" /\ package.partial \in Packages /\ building \in BuildStates
    BY DEF ExportInv, BuildStands, PublishPackage, Building
<1>2. /\ package'.final = package.partial /\ package'.partial = NoFileYet
      /\ package' \in [final : Packages \cup {NoFileYet}, partial : Packages \cup {NoFileYet}]
      /\ checksum' = FALSE
    BY <1>1 DEF PublishPackage
<1>3. UNCHANGED <<population, working, ready, snapshot, receipt, freezing, frozen>>
    BY DEF PublishPackage, NotFrozen
<1>4. PackageFrozen' /\ PackageBound'
    BY <1>2, <1>3 DEF ExportInv, PackageFrozen, PackageBound, Archives
<1>5. building' \in BuildStates /\ building.step' = "checksum"
    BY <1>1 DEF PublishPackage, BuildStates, BuildSteps
<1>6. BuildStands'
    BY <1>1, <1>2, <1>5 DEF BuildStands, BetweenReads
<1>7. ExportTypeOK' /\ SafeguardStands' /\ ReceiptTrue'
    BY <1>2, <1>3 DEF ExportInv, ExportTypeOK, SafeguardStands, ReceiptTrue, TrueReceipt
<1> QED
    BY <1>4, <1>6, <1>7 DEF ExportInv

LEMMA ExportStep == ExportInv /\ [ExportNext]_exportVars => ExportInv'
<1> SUFFICES ASSUME ExportInv, [ExportNext]_exportVars PROVE ExportInv'
    OBVIOUS
<1>1. CASE UNCHANGED exportVars
    BY <1>1 DEF ExportInv, ExportTypeOK, PackageFrozen, PackageBound, Archives,
        SafeguardStands, BuildStands, ReceiptTrue, TrueReceipt, exportVars
<1> QED
    BY <1>1, ExportSafeguards, ExportReceipt, ExportReads, ExportStreams, ExportPublishes
       DEF ExportNext

LEMMA ExportInductive == ExportSpec => []ExportInv
    BY ExportStart, ExportStep, PTL DEF ExportSpec

LEMMA RestoresFollows == ExportInv => SafeguardRestores
    BY DEF ExportInv, ExportTypeOK, ReceiptTrue, TrueReceipt, SafeguardRestores, FullyVerified,
        ReceiptCurrent

-----------------------------------------------------------------------------
(* The toolchain store.                                                    *)

Routes == [pack : Pack, root : Nat, composition : BOOLEAN]
ToolSteps == {"pull", "fetch", "prepare", "verified", "extract", "bind", "binding",
              "compose", "composing", "qualify", "smoking"}
CommandRecords ==
    [do : ToolSteps, pack : Pack, root : Nat, composition : BOOLEAN,
     input : Input \cup {Unset}, tries : Nat, material : MaterialDigests \cup {Unset}]

\* The tools that a material stands for: those of its pack and its input.
Genuine(m) == [of |-> m.route.pack, input |-> m.input]

\* What a command c may rely on from the payloads and the private inputs.
CommandTrue(c, stored, inputs) ==
    /\ c.do \in {"verified", "extract"} => stored[c.pack] = c.pack
    /\ c.do = "binding" => c.input \in inputs
    /\ c.do \in {"compose", "composing", "qualify", "smoking"} =>
          /\ c.material \in MaterialDigests
          /\ c.material.route.pack = c.pack /\ c.material.input = c.input

ToolStores ==
    /\ revision \in DOMAIN Revisions
    /\ payloads \in [Pack -> Pack \cup {"rotten", Unset}]
    /\ trees \in [Pack -> [root : Nat, of : Pack] \cup {Unset}]
    /\ materials \subseteq Input /\ binding \in materials \cup {Unset}
    /\ DOMAIN composed = MaterialDigests /\ DOMAIN qualified = MaterialDigests

StoresGenuine ==
    /\ \A p \in Pack : trees[p] # Unset => trees[p].of = p
    /\ \A m \in MaterialDigests : composed[m] # Unset => composed[m] = Genuine(m)
    /\ \A m \in MaterialDigests : qualified[m] # Unset => qualified[m] = Genuine(m)

CommandsSound ==
    /\ commands \in [Operator -> CommandRecords \cup {NoCommand}]
    /\ \A o \in Operator : CommandTrue(commands[o], payloads, materials)
    /\ \A o, q \in Operator :
          At(o, "extract") /\ At(q, "extract") /\ commands[o].pack = commands[q].pack => o = q

ToolsInv == ToolStores /\ StoresGenuine /\ CommandsSound

-----------------------------------------------------------------------------
LEMMA RoutesReviewed ==
    /\ Revisions \in Seq(Routes) /\ DOMAIN Revisions = 1..Len(Revisions) /\ 1 \in DOMAIN Revisions
    /\ \A n \in DOMAIN Revisions : Revisions[n] \in Routes
<1>1. Revisions \in Seq(Routes) /\ Revisions # <<>>
    BY ToolchainsAssumption DEF Routes
<1> QED
    BY <1>1

LEMMA MaterialFit ==
    ASSUME NEW m \in MaterialDigests
    PROVE  m.route \in Routes /\ m.input \in Input
<1>1. PICK n \in DOMAIN Revisions, i \in Input : m = Material(n, i)
    BY DEF MaterialDigests
<1>2. Revisions[n] \in Routes
    BY <1>1, RoutesReviewed
<1> QED
    BY <1>1, <1>2 DEF Material

\* Tools that resolve are those of the material.
LEMMA ToolsAreGenuine ==
    ASSUME ToolsInv, NEW m \in MaterialDigests, ToolsOf(m) # Unset
    PROVE  ToolsOf(m) = Genuine(m)
<1>1. m.route.pack \in Pack
    BY MaterialFit DEF Routes
<1>2. CASE m.route.composition
    BY <1>2 DEF ToolsInv, StoresGenuine, ToolsOf
<1>3. CASE ~m.route.composition
  <2>1. trees[m.route.pack] # Unset
      BY <1>3 DEF ToolsOf, PreparedState
  <2>2. trees[m.route.pack].of = m.route.pack
      BY <1>1, <2>1 DEF ToolsInv, StoresGenuine
  <2> QED
      BY <1>3, <2>2 DEF ToolsOf, Genuine, PreparedState
<1> QED
    BY <1>2, <1>3

\* A step in which one command goes on or ends.
LEMMA CommandStep ==
    ASSUME ToolsInv, NEW o \in Operator, NEW c \in CommandRecords \cup {NoCommand},
           commands' = [commands EXCEPT ![o] = c],
           CommandTrue(c, payloads', materials'), materials \subseteq materials',
           \A p \in Pack : payloads[p] = p => payloads'[p] = p,
           c.do = "extract" => \A q \in Operator \ {o} :
                ~(At(q, "extract") /\ commands[q].pack = c.pack)
    PROVE  CommandsSound'
<1>1. commands \in [Operator -> CommandRecords \cup {NoCommand}]
    BY DEF ToolsInv, CommandsSound
<1>2. /\ commands' \in [Operator -> CommandRecords \cup {NoCommand}]
      /\ commands'[o] = c /\ \A q \in Operator \ {o} : commands'[q] = commands[q]
    BY <1>1
<1>3. ASSUME NEW q \in Operator \ {o} PROVE CommandTrue(commands[q], payloads', materials')
  <2>1. CommandTrue(commands[q], payloads, materials)
      BY DEF ToolsInv, CommandsSound
  <2>2. commands[q] = NoCommand \/ commands[q].pack \in Pack
      BY <1>1 DEF CommandRecords
  <2> QED
      BY <2>1, <2>2 DEF CommandTrue, NoCommand
<1>4. ASSUME NEW p \in Operator, NEW q \in Operator, commands'[p].do = "extract",
             commands'[q].do = "extract", commands'[p].pack = commands'[q].pack
      PROVE  p = q
    BY <1>2, <1>4 DEF ToolsInv, CommandsSound, At
<1> QED
    BY <1>2, <1>3, <1>4 DEF CommandsSound, At

LEMMA ToolchainsStart == ToolchainsInit => ToolsInv
<1> SUFFICES ASSUME ToolchainsInit PROVE ToolsInv
    OBVIOUS
<1>1. ToolStores
    BY RoutesReviewed DEF ToolchainsInit, ToolStores
<1>2. StoresGenuine
    BY DEF ToolchainsInit, StoresGenuine
<1>3. CommandsSound
    BY DEF ToolchainsInit, CommandsSound, CommandTrue, NoCommand, At
<1> QED
    BY <1>1, <1>2, <1>3 DEF ToolsInv

\* From the resolved state, a command of a bound route has its material.
LEMMA ResolvedBound ==
    ASSUME ToolsInv,
           RouteState \in {"composition-required", "qualification-required", "qualified"}
    PROVE  binding # Unset /\ binding \in Input
<1>1. BindingState \notin {"broken", "missing"}
    BY DEF RouteState, PrerequisiteState
<1> QED
    BY <1>1 DEF BindingState, ToolsInv, ToolStores

\* A command begins with the authority and the binding in force.
LEMMA BeginsSound ==
    ASSUME ToolsInv, NEW o \in Operator,
           NEW step \in {"pull", "prepare", "bind", "compose", "qualify"}, Begins(o, step),
           step \in {"compose", "qualify"} => binding # Unset
    PROVE  ToolsInv'
<1> DEFINE c == [do |-> step, pack |-> Revisions[revision].pack, root |-> Revisions[revision].root,
                 composition |-> Revisions[revision].composition, input |-> binding, tries |-> 0,
                 material |-> IF binding = Unset THEN Unset ELSE Material(revision, binding)]
<1>1. /\ UNCHANGED <<stores, revision>> /\ commands' = [commands EXCEPT ![o] = c]
    BY DEF Begins
<1>2. /\ revision \in DOMAIN Revisions /\ Revisions[revision] \in Routes
      /\ binding \in Input \cup {Unset}
    BY RoutesReviewed DEF ToolsInv, ToolStores
<1>3. binding # Unset => Material(revision, binding) \in MaterialDigests
    BY <1>2 DEF MaterialDigests
<1>4. c \in CommandRecords
    BY <1>2, <1>3 DEF CommandRecords, ToolSteps, Routes
<1>5. CommandTrue(c, payloads, materials) /\ c.do # "extract"
    BY <1>3 DEF CommandTrue, Material
<1> HIDE DEF c
<1>6. CommandsSound'
    BY <1>1, <1>4, <1>5, CommandStep DEF stores
<1> QED
    BY <1>1, <1>6 DEF ToolsInv, ToolStores, StoresGenuine, stores

\* One step of one command: what it becomes and what it does to the stores.
LEMMA MovesSound ==
    ASSUME ToolsInv, NEW o \in Operator, ~At(o, "rest"),
           NEW c \in CommandRecords \cup {NoCommand},
           commands' = [commands EXCEPT ![o] = c],
           CommandTrue(c, payloads', materials'), materials \subseteq materials',
           \A p \in Pack : payloads[p] = p => payloads'[p] = p,
           c.do = "extract" => \A q \in Operator \ {o} :
                ~(At(q, "extract") /\ commands[q].pack = c.pack),
           revision' = revision, ToolStores', StoresGenuine'
    PROVE  ToolsInv'
    BY CommandStep DEF ToolsInv

\* What a command at work is.
LEMMA AtWork ==
    ASSUME ToolsInv, NEW o \in Operator, ~At(o, "rest")
    PROVE  /\ commands \in [Operator -> CommandRecords \cup {NoCommand}]
           /\ commands[o] \in CommandRecords /\ CommandTrue(commands[o], payloads, materials)
           /\ commands[o].pack \in Pack
           /\ NoCommand \in CommandRecords \cup {NoCommand}
           /\ CommandTrue(NoCommand, payloads', materials') /\ NoCommand.do # "extract"
    BY DEF ToolsInv, CommandsSound, At, NoCommand, CommandRecords, CommandTrue

LEMMA PullSteps ==
    ASSUME ToolsInv, NEW o \in Operator, LockPayload(o) \/ Fetch(o)
    PROVE  ToolsInv'
<1> DEFINE p == commands[o].pack
<1>1. /\ ~At(o, "rest") /\ UNCHANGED <<revision, trees, materials, binding, composed, qualified>>
    BY DEF LockPayload, Fetch, At, Calm
<1>2. /\ commands \in [Operator -> CommandRecords \cup {NoCommand}]
      /\ commands[o] \in CommandRecords /\ p \in Pack
      /\ CommandTrue(NoCommand, payloads', materials') /\ NoCommand.do # "extract"
    BY <1>1, AtWork
<1>3. /\ payloads' \in [Pack -> Pack \cup {"rotten", Unset}]
      /\ \A q \in Pack : payloads[q] = q => payloads'[q] = q
  <2>1. payloads \in [Pack -> Pack \cup {"rotten", Unset}]
      BY DEF ToolsInv, ToolStores
  <2>2. CASE LockPayload(o)
    <3>1. \/ payloads' = payloads
          \/ CachedState(p) # "verified-cached" /\ payloads' = [payloads EXCEPT ![p] = Unset]
        BY <2>2 DEF LockPayload
    <3>2. payloads[p] = p => p = Unset \/ CachedState(p) = "verified-cached"
        BY DEF CachedState
    <3> HIDE DEF p
    <3> QED
        BY <1>2, <2>1, <3>1, <3>2
  <2>3. CASE Fetch(o)
    <3>1. payloads' = payloads \/ payloads' = [payloads EXCEPT ![p] = p]
        BY <2>3 DEF Fetch
    <3> HIDE DEF p
    <3> QED
        BY <1>2, <2>1, <3>1
  <2> QED
      BY <2>2, <2>3
<1>4. PICK c \in CommandRecords \cup {NoCommand} :
         /\ commands' = [commands EXCEPT ![o] = c]
         /\ c = NoCommand \/ c.do = "fetch"
  <2>1. CASE commands' = [commands EXCEPT ![o] = NoCommand]
      BY <2>1
  <2>2. CASE commands' = [commands EXCEPT ![o].do = "fetch"]
    <3>1. [commands[o] EXCEPT !.do = "fetch"] \in CommandRecords
        BY <1>2 DEF CommandRecords, ToolSteps
    <3>2. [commands[o] EXCEPT !.do = "fetch"].do = "fetch"
        BY <1>2 DEF CommandRecords
    <3>3. commands' = [commands EXCEPT ![o] = [commands[o] EXCEPT !.do = "fetch"]]
        BY <2>2
    <3> QED
        BY <3>1, <3>2, <3>3
  <2>3. CASE At(o, "fetch") /\ commands' = [commands EXCEPT ![o].tries = @ + 1]
    <3>1. [commands[o] EXCEPT !.tries = @ + 1] \in CommandRecords
        BY <1>2 DEF CommandRecords
    <3>2. [commands[o] EXCEPT !.tries = @ + 1].do = "fetch"
        BY <1>2, <2>3 DEF CommandRecords, At
    <3> QED
        BY <1>2, <2>3, <3>1, <3>2
  <2> QED
      BY <2>1, <2>2, <2>3 DEF LockPayload, Fetch, Finishes, Does
<1>5. CommandTrue(c, payloads', materials') /\ c.do # "extract"
    BY <1>2, <1>4 DEF CommandTrue
<1>6. ToolStores' /\ StoresGenuine'
    BY <1>1, <1>3 DEF ToolsInv, ToolStores, StoresGenuine
<1> QED
    BY <1>1, <1>3, <1>4, <1>5, <1>6, MovesSound

LEMMA DoesNext ==
    ASSUME NEW o \in Operator, commands[o] \in CommandRecords, NEW step \in ToolSteps
    PROVE  LET c == [commands[o] EXCEPT !.do = step] IN
           /\ c \in CommandRecords /\ c.do = step /\ c.pack = commands[o].pack
           /\ c.input = commands[o].input /\ c.material = commands[o].material
    BY DEF CommandRecords

LEMMA PrepareSteps ==
    ASSUME ToolsInv, NEW o \in Operator, VerifyArchive(o) \/ LockTree(o) \/ Extract(o)
    PROVE  ToolsInv'
<1> DEFINE p == commands[o].pack
           next(step) == [commands[o] EXCEPT !.do = step]
<1>1. /\ ~At(o, "rest")
      /\ UNCHANGED <<revision, payloads, materials, binding, composed, qualified>>
    BY DEF VerifyArchive, LockTree, Extract, At, Calm, stores
<1>2. /\ commands \in [Operator -> CommandRecords \cup {NoCommand}]
      /\ commands[o] \in CommandRecords /\ p \in Pack
      /\ CommandTrue(commands[o], payloads, materials)
      /\ CommandTrue(NoCommand, payloads', materials') /\ NoCommand.do # "extract"
    BY <1>1, AtWork
<1>3. \A step \in ToolSteps : next(step) \in CommandRecords /\ next(step).do = step
                              /\ next(step).pack = p
    BY <1>2, DoesNext
<1>4. trees' \in [Pack -> [root : Nat, of : Pack] \cup {Unset}]
      /\ \A q \in Pack : trees'[q] # Unset => trees'[q].of = q
  <2>1. /\ trees \in [Pack -> [root : Nat, of : Pack] \cup {Unset}]
        /\ \A q \in Pack : trees[q] # Unset => trees[q].of = q
      BY DEF ToolsInv, ToolStores, StoresGenuine
  <2>2. CASE trees' = trees
      BY <2>1, <2>2
  <2>3. CASE trees' = [trees EXCEPT ![p] = Unset]
    <3> HIDE DEF p
    <3> QED
        BY <1>2, <2>1, <2>3
  <2>4. CASE /\ At(o, "extract")
             /\ trees' = [trees EXCEPT ![p] = [root |-> commands[o].root, of |-> payloads[p]]]
    <3>1. payloads[p] = p
        BY <1>2, <2>4 DEF CommandTrue, At
    <3>2. commands[o].root \in Nat
        BY <1>2 DEF CommandRecords
    <3> DEFINE tree == [root |-> commands[o].root, of |-> payloads[p]]
    <3>3. tree \in [root : Nat, of : Pack] /\ tree.of = p
        BY <1>2, <3>1, <3>2
    <3>4. trees' = [trees EXCEPT ![p] = tree]
        BY <2>4
    <3> HIDE DEF p, tree
    <3> QED
        BY <1>2, <2>1, <3>3, <3>4
  <2>5. trees' = trees \/ trees' = [trees EXCEPT ![p] = Unset]
           \/ /\ At(o, "extract")
              /\ trees' = [trees EXCEPT ![p] = [root |-> commands[o].root, of |-> payloads[p]]]
      BY DEF VerifyArchive, LockTree, Extract, stores
  <2> QED
      BY <2>2, <2>3, <2>4, <2>5
<1>5. PICK c \in CommandRecords \cup {NoCommand} :
         /\ commands' = [commands EXCEPT ![o] = c]
         /\ c.do \in {"verified", "extract"} => payloads[p] = p /\ c.pack = p
         /\ c.do \in {"rest", "verified", "extract"}
         /\ c.do = "extract" => Unlocked("extract", "pack", p)
  <2>1. CASE commands' = [commands EXCEPT ![o] = NoCommand]
    <3>1. NoCommand \in CommandRecords \cup {NoCommand} /\ NoCommand.do = "rest"
        BY DEF NoCommand
    <3> HIDE DEF p, next
    <3> QED
        BY <2>1, <3>1
  <2>2. CASE VerifyArchive(o) /\ Does(o, "verified") /\ CachedState(p) = "verified-cached"
    <3>1. payloads[p] = p
        BY <2>2 DEF CachedState
    <3>2. commands' = [commands EXCEPT ![o] = next("verified")]
        BY <2>2 DEF Does
    <3>3. next("verified") \in CommandRecords /\ next("verified").do = "verified"
          /\ next("verified").pack = p
        BY <1>3 DEF ToolSteps
    <3> HIDE DEF p, next
    <3> QED
        BY <3>1, <3>2, <3>3
  <2>3. CASE LockTree(o) /\ Does(o, "extract")
    <3>1. payloads[p] = p /\ Unlocked("extract", "pack", p)
        BY <1>2, <2>3 DEF LockTree, At, CommandTrue
    <3>2. commands' = [commands EXCEPT ![o] = next("extract")]
        BY <2>3 DEF Does
    <3>3. next("extract") \in CommandRecords /\ next("extract").do = "extract"
          /\ next("extract").pack = p
        BY <1>3 DEF ToolSteps
    <3> HIDE DEF p, next
    <3> QED
        BY <3>1, <3>2, <3>3
  <2> QED
      BY <2>1, <2>2, <2>3 DEF VerifyArchive, LockTree, Extract, Finishes
<1>6. CommandTrue(c, payloads', materials')
    BY <1>1, <1>5 DEF CommandTrue
<1>7. c.do = "extract" => \A q \in Operator \ {o} : ~(At(q, "extract") /\ commands[q].pack = c.pack)
    BY <1>5 DEF Unlocked
<1>8. ToolStores' /\ StoresGenuine'
    BY <1>1, <1>4 DEF ToolsInv, ToolStores, StoresGenuine
<1> QED
    BY <1>1, <1>5, <1>6, <1>7, <1>8, MovesSound

LEMMA BindSteps ==
    ASSUME ToolsInv, NEW o \in Operator, StoreMaterial(o) \/ WriteBinding(o)
    PROVE  ToolsInv'
<1>1. ~At(o, "rest") /\ UNCHANGED <<revision, payloads, trees, composed, qualified>>
    BY DEF StoreMaterial, WriteBinding, At, Calm
<1>2. /\ commands \in [Operator -> CommandRecords \cup {NoCommand}]
      /\ commands[o] \in CommandRecords
      /\ CommandTrue(commands[o], payloads, materials)
      /\ CommandTrue(NoCommand, payloads', materials') /\ NoCommand.do # "extract"
    BY <1>1, AtWork
<1>3. CASE StoreMaterial(o)
  <2>1. PICK i \in Input :
           /\ materials' = materials \cup {i}
           /\ commands' = [commands EXCEPT ![o].do = "binding", ![o].input = i]
      BY <1>3 DEF StoreMaterial
  <2> DEFINE c == [commands[o] EXCEPT !.do = "binding", !.input = i]
  <2>2. commands' = [commands EXCEPT ![o] = c]
      BY <1>2, <2>1
  <2>3. c \in CommandRecords /\ c.do = "binding" /\ c.input = i
      BY <1>2 DEF CommandRecords, ToolSteps
  <2> HIDE DEF c
  <2>4. CommandTrue(c, payloads', materials')
      BY <2>1, <2>3 DEF CommandTrue
  <2>5. binding' = binding
      BY <1>3 DEF StoreMaterial
  <2>6. ToolStores' /\ StoresGenuine'
      BY <1>1, <2>1, <2>5 DEF ToolsInv, ToolStores, StoresGenuine
  <2> QED
      BY <1>1, <2>1, <2>2, <2>3, <2>4, <2>6, MovesSound
<1>4. CASE WriteBinding(o)
  <2>1. /\ commands' = [commands EXCEPT ![o] = NoCommand] /\ materials' = materials
        /\ binding' = commands[o].input /\ At(o, "binding")
      BY <1>4 DEF WriteBinding, Finishes
  <2>2. binding' \in materials
      BY <1>2, <2>1 DEF CommandTrue, At
  <2>3. ToolStores' /\ StoresGenuine'
      BY <1>1, <2>1, <2>2 DEF ToolsInv, ToolStores, StoresGenuine
  <2> QED
      BY <1>1, <1>2, <2>1, <2>3, MovesSound
<1> QED
    BY <1>3, <1>4

LEMMA ComposeSteps ==
    ASSUME ToolsInv, NEW o \in Operator,
           \/ LockComposition(o) \/ Composing(o) \/ LockQualification(o) \/ Smoke(o)
    PROVE  ToolsInv'
<1> DEFINE m == commands[o].material
           next(step) == [commands[o] EXCEPT !.do = step]
<1>1. /\ ~At(o, "rest") /\ UNCHANGED <<revision, payloads, trees, materials, binding>>
      /\ commands[o].do \in {"compose", "composing", "qualify", "smoking"}
    BY DEF LockComposition, Composing, LockQualification, Smoke, At, Calm, stores
<1>2. /\ commands \in [Operator -> CommandRecords \cup {NoCommand}]
      /\ commands[o] \in CommandRecords
      /\ CommandTrue(commands[o], payloads, materials) /\ commands[o].pack \in Pack
      /\ CommandTrue(NoCommand, payloads', materials') /\ NoCommand.do # "extract"
    BY <1>1, AtWork
<1>3. m \in MaterialDigests /\ m.route.pack = commands[o].pack /\ m.input = commands[o].input
    BY <1>1, <1>2 DEF CommandTrue
<1>4. \A step \in ToolSteps :
         /\ next(step) \in CommandRecords /\ next(step).do = step
         /\ next(step).pack = commands[o].pack /\ next(step).input = commands[o].input
         /\ next(step).material = m
    BY <1>2, DoesNext
<1>5. PICK c \in CommandRecords \cup {NoCommand} :
         /\ commands' = [commands EXCEPT ![o] = c]
         /\ \/ c = NoCommand
            \/ /\ c.do \in {"composing", "smoking"} /\ c.material = m
               /\ c.pack = commands[o].pack /\ c.input = commands[o].input
  <2>1. CASE Finishes(o)
      BY <2>1 DEF Finishes
  <2>2. ASSUME NEW step \in {"composing", "smoking"}, Does(o, step)
        PROVE  \E c \in CommandRecords :
                  /\ commands' = [commands EXCEPT ![o] = c] /\ c.do = step /\ c.material = m
                  /\ c.pack = commands[o].pack /\ c.input = commands[o].input
    <3>1. step \in ToolSteps /\ commands' = [commands EXCEPT ![o] = next(step)]
        BY <2>2 DEF Does, ToolSteps
    <3>2. /\ next(step) \in CommandRecords /\ next(step).do = step
          /\ next(step).pack = commands[o].pack /\ next(step).input = commands[o].input
          /\ next(step).material = m
        BY <1>4, <3>1
    <3> HIDE DEF m, next
    <3> QED
        BY <3>1, <3>2
  <2>3. Finishes(o) \/ Does(o, "composing") \/ Does(o, "smoking")
      BY DEF LockComposition, Composing, LockQualification, Smoke
  <2> QED
      BY <2>1, <2>2, <2>3
<1>6. CommandTrue(c, payloads', materials') /\ c.do # "extract"
    BY <1>2, <1>3, <1>5 DEF CommandTrue
<1>7. /\ DOMAIN composed' = MaterialDigests /\ DOMAIN qualified' = MaterialDigests
      /\ \A n \in MaterialDigests : composed'[n] # Unset => composed'[n] = Genuine(n)
      /\ \A n \in MaterialDigests : qualified'[n] # Unset => qualified'[n] = Genuine(n)
  <2>1. /\ DOMAIN composed = MaterialDigests /\ DOMAIN qualified = MaterialDigests
        /\ \A n \in MaterialDigests : composed[n] # Unset => composed[n] = Genuine(n)
        /\ \A n \in MaterialDigests : qualified[n] # Unset => qualified[n] = Genuine(n)
      BY DEF ToolsInv, ToolStores, StoresGenuine
  <2>2. CASE UNCHANGED <<composed, qualified>>
      BY <2>1, <2>2
  <2>3. CASE /\ qualified' = qualified /\ trees[commands[o].pack] # Unset
             /\ composed' = [composed EXCEPT ![m] =
                   [of |-> trees[commands[o].pack].of, input |-> commands[o].input]]
    <3>1. trees[commands[o].pack].of = commands[o].pack
        BY <1>2, <2>3 DEF ToolsInv, StoresGenuine
    <3>2. composed' = [composed EXCEPT ![m] = Genuine(m)]
        BY <1>3, <2>3, <3>1 DEF Genuine
    <3> HIDE DEF m
    <3> QED
        BY <1>3, <2>1, <2>3, <3>2
  <2>4. CASE /\ composed' = composed /\ ToolsOf(m) # Unset
             /\ qualified' = [qualified EXCEPT ![m] = ToolsOf(m)]
    <3>1. ToolsOf(m) = Genuine(m)
        BY <1>3, <2>4, ToolsAreGenuine
    <3> HIDE DEF m
    <3> QED
        BY <1>3, <2>1, <2>4, <3>1
  <2> QED
      BY <2>2, <2>3, <2>4 DEF LockComposition, Composing, LockQualification, Smoke, stores
<1>8. ToolStores' /\ StoresGenuine'
    BY <1>1, <1>7 DEF ToolsInv, ToolStores, StoresGenuine
<1> QED
    BY <1>1, <1>5, <1>6, <1>8, MovesSound

LEMMA RotSound ==
    ASSUME ToolsInv, NEW p \in Pack, Rot(p)
    PROVE  ToolsInv'
<1>1. /\ payloads' = [payloads EXCEPT ![p] = "rotten"]
      /\ \A o \in Operator : ~At(o, "verified") /\ ~At(o, "extract")
      /\ UNCHANGED <<revision, trees, materials, binding, composed, qualified, commands>>
    BY DEF Rot
<1>2. ToolStores' /\ StoresGenuine'
    BY <1>1 DEF ToolsInv, ToolStores, StoresGenuine
<1>3. CommandsSound'
    BY <1>1 DEF ToolsInv, CommandsSound, CommandTrue, At
<1> QED
    BY <1>2, <1>3 DEF ToolsInv

LEMMA ToolchainsStep == ToolsInv /\ [ToolchainsNext]_toolVars => ToolsInv'
<1> SUFFICES ASSUME ToolsInv, [ToolchainsNext]_toolVars PROVE ToolsInv'
    OBVIOUS
<1>1. ASSUME NEW o \in Operator,
             BeginPull(o) \/ BeginPrepare(o) \/ BeginBind(o) \/ BeginCompose(o) \/ BeginQualify(o)
      PROVE  ToolsInv'
  <2>1. CASE BeginPull(o) \/ BeginPrepare(o) \/ BeginBind(o)
      BY <2>1, BeginsSound DEF BeginPull, BeginPrepare, BeginBind
  <2>2. CASE BeginCompose(o) \/ BeginQualify(o)
    <3>1. binding # Unset
        BY <2>2, ResolvedBound DEF BeginCompose, BeginQualify
    <3> QED
        BY <2>2, <3>1, BeginsSound DEF BeginCompose, BeginQualify
  <2> QED
      BY <1>1, <2>1, <2>2
<1>2. ASSUME NEW o \in Operator, LockPayload(o) \/ Fetch(o) PROVE ToolsInv'
    BY <1>2, PullSteps
<1>3. ASSUME NEW o \in Operator, VerifyArchive(o) \/ LockTree(o) \/ Extract(o) PROVE ToolsInv'
    BY <1>3, PrepareSteps
<1>4. ASSUME NEW o \in Operator, StoreMaterial(o) \/ WriteBinding(o) PROVE ToolsInv'
    BY <1>4, BindSteps
<1>5. ASSUME NEW o \in Operator,
             LockComposition(o) \/ Composing(o) \/ LockQualification(o) \/ Smoke(o)
      PROVE  ToolsInv'
    BY <1>5, ComposeSteps
<1>6. ASSUME NEW o \in Operator, KillCommand(o) PROVE ToolsInv'
  <2>1. /\ ~At(o, "rest") /\ UNCHANGED <<stores, revision>>
        /\ commands' = [commands EXCEPT ![o] = NoCommand]
      BY <1>6 DEF KillCommand, Finishes
  <2>2. ToolStores' /\ StoresGenuine'
      BY <2>1 DEF ToolsInv, ToolStores, StoresGenuine, stores
  <2> QED
      BY <2>1, <2>2, AtWork, MovesSound DEF stores
<1>7. CASE Review
  <2>1. UNCHANGED <<stores, commands>> /\ revision' \in DOMAIN Revisions
      BY <1>7, RoutesReviewed DEF Review, ToolsInv, ToolStores
  <2> QED
      BY <2>1 DEF ToolsInv, ToolStores, StoresGenuine, CommandsSound, At, stores
<1>8. ASSUME NEW p \in Pack, Rot(p) PROVE ToolsInv'
    BY <1>8, RotSound
<1>9. CASE UNCHANGED toolVars
    BY <1>9 DEF ToolsInv, ToolStores, StoresGenuine, CommandsSound, At, toolVars
<1> QED
    BY <1>1, <1>2, <1>3, <1>4, <1>5, <1>6, <1>7, <1>8, <1>9 DEF ToolchainsNext

LEMMA ToolchainsInductive == ToolchainsSpec => []ToolsInv
    BY ToolchainsStart, ToolchainsStep, PTL DEF ToolchainsSpec

LEMMA GenuineFollows == ToolsInv => ToolsGenuine
<1> SUFFICES ASSUME ToolsInv, Resolvable PROVE ToolsGenuine
    BY DEF ToolsGenuine
<1> DEFINE m == Material(revision, binding)
<1>1. binding # Unset /\ qualified[m] # Unset /\ ToolsOf(m) # Unset
    BY DEF Resolvable, BindingState, QualifiedState
<1>2. m \in MaterialDigests /\ m.route = Revisions[revision] /\ m.input = binding
    BY <1>1 DEF MaterialDigests, Material, ToolsInv, ToolStores
<1> HIDE DEF m
<1>3. ToolsOf(m) = Genuine(m) /\ qualified[m] = Genuine(m)
    BY <1>1, <1>2, ToolsAreGenuine DEF ToolsInv, StoresGenuine
<1>4. ToolsOf(m).of = Revisions[revision].pack /\ ToolsOf(m).input = binding
    BY <1>2, <1>3 DEF Genuine
<1> QED
    BY <1>3, <1>4 DEF ToolsGenuine, m

LEMMA OneAtMost ==
    ASSUME NEW S, \A x, y \in S : x = y
    PROVE  Cardinality(S) <= 1
<1>1. CASE S = {}
    BY <1>1, FS_EmptySet
<1>2. CASE S # {}
  <2>1. PICK x \in S : TRUE
      BY <1>2
  <2>2. S = {x}
      BY <2>1
  <2> QED
      BY <2>2, FS_Singleton
<1> QED
    BY <1>1, <1>2

LEMMA ToolchainsTyped == ToolsInv => ToolchainsTypeOK
<1> SUFFICES ASSUME ToolsInv PROVE ToolchainsTypeOK
    OBVIOUS
<1>1. ASSUME NEW p \in Pack
      PROVE  Cardinality({o \in Operator : At(o, "extract") /\ commands[o].pack = p}) <= 1
  <2> DEFINE S == {o \in Operator : At(o, "extract") /\ commands[o].pack = p}
  <2>1. \A o, q \in S : o = q
      BY DEF ToolsInv, CommandsSound
  <2> QED
      BY <2>1, OneAtMost
<1> QED
    BY <1>1 DEF ToolsInv, ToolStores, ToolchainsTypeOK

-----------------------------------------------------------------------------
(* The acquisition of sources.                                             *)

\* A pull that is under way, and what it works on.
PullRecords == [at : {"write", "fetch"}, of : Locks, records : SUBSET Candidate,
                failed : SUBSET Candidate, pending : SUBSET Candidate,
                fetched : SUBSET Candidate]
SourceReceipts == [names : {0} \union Locks, records : SUBSET Candidate,
                   failed : SUBSET Candidate]

PinsIn(n, K, S) == \A k \in K : PinOf[n][k] \in S

\* Everything that a pull has put on record was verified, and what its lock's
\* receipt says is in it, unless two pulls of that lock have met.
PullSound(o) ==
    pulling[o] # <<>> =>
        /\ Len(pulling[o]) = 1 /\ Pull(o) \in PullRecords
        /\ Pull(o).pending \subseteq Pinned(Pull(o).of)
        /\ PinsIn(Pull(o).of, Pull(o).records, seen) /\ PinsIn(Pull(o).of, Pull(o).fetched, seen)
        /\ \/ Pull(o).of \in overlapped
           \/ sourceReceipts[Pull(o).of].records \subseteq Pull(o).records

SourcesFit ==
    /\ metadata \in {0} \union Locks /\ lock \in {0} \union Locks /\ cached \subseteq Payload
    /\ sourceReceipts \in [Locks -> SourceReceipts]
    /\ pulling \in [Puller -> Seq(PullRecords)]

AcquisitionInv ==
    /\ SourcesFit
    /\ \A n \in Locks : PinsIn(n, sourceReceipts[n].records, seen)
    /\ \A o \in Puller : PullSound(o)

\* A puller goes from one record to the next, and the others stay.
PullBecomes(o, r) ==
    /\ pulling'[o] # <<>> /\ Len(pulling'[o]) = 1 /\ pulling'[o][1] = r
    /\ pulling' \in [Puller -> Seq(PullRecords)]
    /\ \A q \in Puller \ {o} : pulling'[q] = pulling[q]

LEMMA LocksCounted == /\ Cardinality(Locks) \in Nat /\ Locks = 1..Cardinality(Locks)
<1>1. PICK last \in Nat : Locks = 1..last
    BY AcquisitionAssumption DEF Locks
<1>2. Cardinality(1..last) = last
    BY FS_Interval
<1> QED
    BY <1>1, <1>2

LEMMA ChangePull ==
    ASSUME AcquisitionInv, NEW o \in Puller, pulling[o] # <<>>, NEW r \in PullRecords,
           pulling' = [pulling EXCEPT ![o] = [pulling[o] EXCEPT ![1] = r]]
    PROVE  PullBecomes(o, r)
<1>1. /\ pulling \in [Puller -> Seq(PullRecords)] /\ Len(pulling[o]) = 1
      /\ pulling[o] \in Seq(PullRecords)
    BY DEF AcquisitionInv, SourcesFit, PullSound
<1> DEFINE s == [pulling[o] EXCEPT ![1] = r]
<1>2. s \in Seq(PullRecords) /\ Len(s) = 1 /\ s[1] = r
    BY <1>1
<1>3. s # <<>>
    BY <1>2
<1>4. pulling' = [pulling EXCEPT ![o] = s]
    OBVIOUS
<1> HIDE DEF s
<1>5. /\ pulling'[o] = s /\ \A q \in Puller \ {o} : pulling'[q] = pulling[q]
      /\ pulling' \in [Puller -> Seq(PullRecords)]
    BY <1>1, <1>2, <1>4
<1> QED
    BY <1>2, <1>3, <1>5 DEF PullBecomes

\* A step of one puller that grows what was verified and adds no conflict
\* leaves what the others work on sound.
LEMMA OthersStay ==
    ASSUME NEW q \in Puller, PullSound(q), pulling'[q] = pulling[q],
           seen \subseteq seen', overlapped \subseteq overlapped',
           pulling[q] # <<>> =>
              \/ Pull(q).of \in overlapped'
              \/ sourceReceipts'[Pull(q).of].records \subseteq
                    sourceReceipts[Pull(q).of].records
    PROVE  PullSound(q)'
<1> SUFFICES ASSUME pulling[q] # <<>> PROVE PullSound(q)'
    BY DEF PullSound
<1>1. Pull(q)' = Pull(q)
    BY DEF Pull
<1>2. PinsIn(Pull(q).of, Pull(q).records, seen)' /\ PinsIn(Pull(q).of, Pull(q).fetched, seen)'
    BY <1>1 DEF PullSound, PinsIn
<1>3. \/ Pull(q)'.of \in overlapped'
      \/ sourceReceipts'[Pull(q)'.of].records \subseteq Pull(q)'.records
    BY <1>1 DEF PullSound
<1> QED
    BY <1>1, <1>2, <1>3 DEF PullSound, Pinned

\* What a puller is at, and what it has done, as a step leaves it.
LEMMA PullStays ==
    ASSUME NEW o \in Puller, NEW r \in PullRecords, PullBecomes(o, r),
           r.pending \subseteq Pinned(r.of),
           PinsIn(r.of, r.records, seen'), PinsIn(r.of, r.fetched, seen'),
           \/ r.of \in overlapped'
           \/ sourceReceipts'[r.of].records \subseteq r.records
    PROVE  PullSound(o)'
<1>1. Pull(o)' = r
    BY DEF PullBecomes, Pull
<1> QED
    BY <1>1 DEF PullBecomes, PullSound, Pinned

LEMMA AcquisitionStart == AcquisitionInit => AcquisitionInv
<1> SUFFICES ASSUME AcquisitionInit PROVE AcquisitionInv
    OBVIOUS
<1>1. SourcesFit
  <2>1. NoReceipt \in SourceReceipts
      BY DEF NoReceipt, SourceReceipts
  <2> QED
      BY <2>1 DEF AcquisitionInit, SourcesFit
<1>2. \A n \in Locks : PinsIn(n, sourceReceipts[n].records, seen)
    BY DEF AcquisitionInit, PinsIn, NoReceipt
<1>3. \A o \in Puller : PullSound(o)
    BY DEF AcquisitionInit, PullSound
<1> QED
    BY <1>1, <1>2, <1>3 DEF AcquisitionInv

LEMMA BeginKeeps ==
    ASSUME AcquisitionInv, NEW o \in Puller, NEW asked \in SUBSET Candidate,
           BeginSourcePull(o, asked)
    PROVE  AcquisitionInv'
<1> DEFINE r == [at |-> "write", of |-> lock, records |-> RecordsBefore(lock, asked),
                 failed |-> sourceReceipts[lock].failed,
                 pending |-> {k \in asked \cap Pinned(lock) : ~IsCached(lock, k)},
                 fetched |-> {}]
<1>1. lock \in Locks /\ sourceReceipts[lock] \in SourceReceipts
    BY DEF AcquisitionInv, SourcesFit, BeginSourcePull
<1>2. r \in PullRecords
    BY <1>1 DEF PullRecords, RecordsBefore, SourceReceipts, Pinned
<1>3. r.pending \subseteq Pinned(r.of)
    OBVIOUS
<1>4. PinsIn(r.of, r.records, seen') /\ PinsIn(r.of, r.fetched, seen')
  <2>1. seen' = seen \union {PinOf[lock][k] : k \in RecordsFound(lock, asked)}
      BY DEF BeginSourcePull
  <2>2. PinsIn(lock, sourceReceipts[lock].records, seen)
      BY <1>1 DEF AcquisitionInv
  <2> QED
      BY <2>1, <2>2 DEF PinsIn, RecordsBefore, RecordsFound
<1>5. sourceReceipts'[r.of].records \subseteq r.records
    BY DEF BeginSourcePull, RecordsBefore
<1>6. /\ pulling' = [pulling EXCEPT ![o] = <<r>>]
      /\ pulling \in [Puller -> Seq(PullRecords)]
    BY DEF BeginSourcePull, AcquisitionInv, SourcesFit
<1>7. UNCHANGED <<metadata, lock, cached, sourceReceipts, overlapped>> /\ seen \subseteq seen'
    BY DEF BeginSourcePull
<1> HIDE DEF r
<1>8. PullBecomes(o, r)
  <2>1. <<r>> \in Seq(PullRecords) /\ <<r>> # <<>> /\ Len(<<r>>) = 1 /\ <<r>>[1] = r
      BY <1>2
  <2> QED
      BY <1>6, <2>1 DEF PullBecomes
<1>9. PullSound(o)'
    BY <1>2, <1>3, <1>4, <1>5, <1>8, PullStays
<1>10. ASSUME NEW q \in Puller \ {o} PROVE PullSound(q)'
  <2>1. PullSound(q) /\ pulling'[q] = pulling[q]
      BY <1>8 DEF AcquisitionInv, PullBecomes
  <2> QED
      BY <1>7, <2>1, OthersStay
<1>11. SourcesFit'
    BY <1>7, <1>8 DEF AcquisitionInv, SourcesFit, PullBecomes
<1>12. ASSUME NEW n \in Locks PROVE PinsIn(n, sourceReceipts[n].records, seen)'
    BY <1>7 DEF AcquisitionInv, PinsIn
<1> QED
    BY <1>9, <1>10, <1>11, <1>12 DEF AcquisitionInv

\* A step that changes the record of one puller and the store only.
LEMMA WorkKeeps ==
    ASSUME AcquisitionInv, NEW o \in Puller, pulling[o] # <<>>, NEW r \in PullRecords,
           pulling' = [pulling EXCEPT ![o] = [pulling[o] EXCEPT ![1] = r]],
           r.of = Pull(o).of, Pull(o).records \subseteq r.records,
           r.pending \subseteq Pull(o).pending,
           PinsIn(r.of, r.records, seen'), PinsIn(r.of, r.fetched, seen'),
           UNCHANGED <<metadata, lock, sourceReceipts, overlapped>>,
           cached' \subseteq Payload, seen \subseteq seen'
    PROVE  AcquisitionInv'
<1>1. PullBecomes(o, r)
    BY ChangePull
<1>2. PullSound(o)
    BY DEF AcquisitionInv
<1>3. PullSound(o)'
  <2>1. r.pending \subseteq Pinned(r.of)
      BY <1>2 DEF PullSound
  <2>2. \/ r.of \in overlapped'
        \/ sourceReceipts'[r.of].records \subseteq r.records
      BY <1>2 DEF PullSound
  <2> QED
      BY <1>1, <2>1, <2>2, PullStays
<1>4. ASSUME NEW q \in Puller \ {o} PROVE PullSound(q)'
  <2>1. PullSound(q) /\ pulling'[q] = pulling[q]
      BY <1>1 DEF AcquisitionInv, PullBecomes
  <2> QED
      BY <2>1, OthersStay
<1>5. SourcesFit'
    BY <1>1 DEF AcquisitionInv, SourcesFit, PullBecomes
<1>6. ASSUME NEW n \in Locks PROVE PinsIn(n, sourceReceipts[n].records, seen)'
    BY DEF AcquisitionInv, PinsIn
<1> QED
    BY <1>3, <1>4, <1>5, <1>6 DEF AcquisitionInv

\* The work of a pull between two writes of its receipt.
LEMMA FetchKeeps ==
    ASSUME AcquisitionInv, NEW o \in Puller, NEW k \in Candidate,
           FetchSource(o, k) \/ Settle(o, k) \/ FetchSourceFails(o, k)
    PROVE  AcquisitionInv'
<1>1. /\ pulling[o] # <<>> /\ PullSound(o) /\ Pull(o) \in PullRecords
      /\ Pull(o).of \in Locks
    BY DEF FetchSource, Settle, FetchSourceFails, Pulls, AcquisitionInv, PullSound, PullRecords
<1>2. cached \subseteq Payload
    BY DEF AcquisitionInv, SourcesFit
<1>3. /\ pulling \in [Puller -> Seq(PullRecords)] /\ Len(pulling[o]) = 1
      /\ pulling[o] \in Seq(PullRecords)
    BY <1>1 DEF AcquisitionInv, SourcesFit, PullSound
<1>4. CASE FetchSource(o, k)
  <2> DEFINE r == [Pull(o) EXCEPT !.pending = @ \ {k}, !.fetched = @ \union {k}]
  <2>1. pulling' = [pulling EXCEPT ![o] = [pulling[o] EXCEPT ![1] = r]]
      BY <1>3, <1>4 DEF FetchSource, Pull
  <2>2. /\ r \in PullRecords /\ r.of = Pull(o).of /\ r.records = Pull(o).records
        /\ r.pending \subseteq Pull(o).pending /\ r.fetched = Pull(o).fetched \union {k}
      BY <1>1 DEF PullRecords
  <2>3. PinOf[Pull(o).of][k] \in Payload
    <3>1. Pull(o).of \in Locks /\ PinOf[Pull(o).of][k] # Unresolved
        BY <1>1, <1>4 DEF FetchSource, PullSound, Pinned
    <3> QED
        BY <3>1 DEF Payload
  <2>4. /\ seen' = seen \union {PinOf[Pull(o).of][k]} /\ cached' \subseteq Payload
        /\ UNCHANGED <<metadata, lock, sourceReceipts, overlapped>>
      BY <1>2, <1>4, <2>3 DEF FetchSource
  <2> HIDE DEF r
  <2>5. PinsIn(r.of, r.records, seen') /\ PinsIn(r.of, r.fetched, seen')
      BY <1>1, <2>2, <2>4 DEF PullSound, PinsIn
  <2> QED
      BY <1>1, <2>1, <2>2, <2>4, <2>5, WorkKeeps
<1>5. CASE Settle(o, k)
  <2>1. /\ k \in Pull(o).fetched
        /\ UNCHANGED <<metadata, lock, cached, sourceReceipts, overlapped, seen>>
      BY <1>5 DEF Settle
  <2>2. PICK r \in PullRecords :
           /\ pulling' = [pulling EXCEPT ![o] = [pulling[o] EXCEPT ![1] = r]]
           /\ r.of = Pull(o).of /\ r.pending = Pull(o).pending
           /\ r.fetched \subseteq Pull(o).fetched
           /\ Pull(o).records \subseteq r.records
           /\ r.records \subseteq Pull(o).records \union {k}
    <3> DEFINE good == [Pull(o) EXCEPT !.fetched = @ \ {k}, !.at = "write",
                                       !.records = @ \union {k}]
               bad == [Pull(o) EXCEPT !.fetched = @ \ {k}, !.at = "write",
                                      !.failed = @ \union {k}]
    <3>1. /\ good \in PullRecords /\ good.of = Pull(o).of /\ good.pending = Pull(o).pending
          /\ good.fetched \subseteq Pull(o).fetched /\ good.records = Pull(o).records \union {k}
        BY <1>1 DEF PullRecords
    <3>2. /\ bad \in PullRecords /\ bad.of = Pull(o).of /\ bad.pending = Pull(o).pending
          /\ bad.fetched \subseteq Pull(o).fetched /\ bad.records = Pull(o).records
        BY <1>1 DEF PullRecords
    <3>3. \/ pulling' = [pulling EXCEPT ![o] = [pulling[o] EXCEPT ![1] = good]]
          \/ pulling' = [pulling EXCEPT ![o] = [pulling[o] EXCEPT ![1] = bad]]
      <4>1. CASE pulling' = [pulling EXCEPT ![o][1].fetched = @ \ {k}, ![o][1].at = "write",
                                            ![o][1].records = @ \union {k}]
          BY <1>3, <4>1 DEF Pull
      <4>2. CASE pulling' = [pulling EXCEPT ![o][1].fetched = @ \ {k}, ![o][1].at = "write",
                                            ![o][1].failed = @ \union {k}]
          BY <1>3, <4>2 DEF Pull
      <4> QED
          BY <1>5, <4>1, <4>2 DEF Settle
    <3> HIDE DEF good, bad
    <3> QED
        BY <3>1, <3>2, <3>3
  <2>3. PinsIn(r.of, r.records, seen') /\ PinsIn(r.of, r.fetched, seen')
      BY <1>1, <2>1, <2>2 DEF PullSound, PinsIn
  <2> QED
      BY <1>1, <1>2, <2>1, <2>2, <2>3, WorkKeeps
<1>6. CASE FetchSourceFails(o, k)
  <2> DEFINE r == [Pull(o) EXCEPT !.pending = @ \ {k}, !.at = "write",
                                  !.failed = @ \union {k}]
  <2>1. pulling' = [pulling EXCEPT ![o] = [pulling[o] EXCEPT ![1] = r]]
      BY <1>3, <1>6 DEF FetchSourceFails, Pull
  <2>2. /\ r \in PullRecords /\ r.of = Pull(o).of /\ r.records = Pull(o).records
        /\ r.pending \subseteq Pull(o).pending /\ r.fetched = Pull(o).fetched
      BY <1>1 DEF PullRecords
  <2>3. UNCHANGED <<metadata, lock, cached, sourceReceipts, overlapped, seen>>
      BY <1>6 DEF FetchSourceFails
  <2> HIDE DEF r
  <2>4. PinsIn(r.of, r.records, seen') /\ PinsIn(r.of, r.fetched, seen')
      BY <1>1, <2>2, <2>3 DEF PullSound, PinsIn
  <2> QED
      BY <1>1, <1>2, <2>1, <2>2, <2>3, <2>4, WorkKeeps
<1> QED
    BY <1>4, <1>5, <1>6


\* What a step may not take out of the receipts.
RecordsGrow ==
    \A n \in Locks \ overlapped' :
        sourceReceipts[n].records \subseteq sourceReceipts'[n].records

\* A write puts on record what the pull knows, or meets another pull.
LEMMA WriteKeeps ==
    ASSUME AcquisitionInv, NEW o \in Puller, pulling[o] # <<>>,
           NEW names \in {0} \union Locks, WriteSourceReceipt(o, names)
    PROVE  /\ RecordsGrow /\ overlapped \subseteq overlapped'
           /\ sourceReceipts' \in [Locks -> SourceReceipts]
           /\ sourceReceipts'[Pull(o).of].records = Pull(o).records
           /\ \A n \in Locks : PinsIn(n, sourceReceipts'[n].records, seen)
           /\ \A q \in Puller \ {o} : pulling[q] # <<>> =>
                 \/ Pull(q).of \in overlapped'
                 \/ sourceReceipts'[Pull(q).of].records \subseteq
                       sourceReceipts[Pull(q).of].records
<1> DEFINE new == [names |-> names, records |-> Pull(o).records, failed |-> Pull(o).failed]
<1>1. /\ sourceReceipts \in [Locks -> SourceReceipts]
      /\ Pull(o) \in PullRecords /\ PullSound(o) /\ Pull(o).of \in Locks
    BY DEF AcquisitionInv, SourcesFit, PullSound, PullRecords
<1>2. new \in SourceReceipts /\ new.records = Pull(o).records
    BY <1>1 DEF SourceReceipts, PullRecords
<1>3. sourceReceipts' = [sourceReceipts EXCEPT ![Pull(o).of] = new]
    BY DEF WriteSourceReceipt
<1> HIDE DEF new
<1>4. /\ sourceReceipts' \in [Locks -> SourceReceipts]
      /\ sourceReceipts'[Pull(o).of].records = Pull(o).records
      /\ \A n \in Locks \ {Pull(o).of} : sourceReceipts'[n] = sourceReceipts[n]
    BY <1>1, <1>2, <1>3
<1>5. /\ overlapped \subseteq overlapped'
      /\ Others(o) # {} => Pull(o).of \in overlapped'
    BY DEF WriteSourceReceipt
<1>6. RecordsGrow
    BY <1>1, <1>4, <1>5 DEF RecordsGrow, PullSound
<1>7. ASSUME NEW n \in Locks PROVE PinsIn(n, sourceReceipts'[n].records, seen)
    BY <1>1, <1>4 DEF AcquisitionInv, PullSound
<1>8. ASSUME NEW q \in Puller \ {o}, pulling[q] # <<>>
      PROVE  \/ Pull(q).of \in overlapped'
             \/ sourceReceipts'[Pull(q).of].records \subseteq
                   sourceReceipts[Pull(q).of].records
  <2>1. Pull(q).of \in Locks
      BY <1>8 DEF AcquisitionInv, PullSound, PullRecords
  <2>2. Pull(q).of = Pull(o).of => Others(o) # {}
      BY <1>8 DEF Others
  <2> QED
      BY <1>4, <1>5, <2>1, <2>2
<1> QED
    BY <1>4, <1>5, <1>6, <1>7, <1>8

LEMMA InterimKeeps ==
    ASSUME AcquisitionInv, NEW o \in Puller, WriteInterim(o)
    PROVE  AcquisitionInv' /\ RecordsGrow
<1> DEFINE r == [Pull(o) EXCEPT !.at = "fetch"]
<1>1. /\ pulling[o] # <<>> /\ PullSound(o) /\ Pull(o) \in PullRecords
      /\ Pull(o).of \in Locks /\ WriteSourceReceipt(o, Pull(o).of)
      /\ UNCHANGED <<metadata, lock, cached, seen>>
    BY DEF WriteInterim, Pulls, AcquisitionInv, PullSound, PullRecords
<1>2. /\ RecordsGrow /\ overlapped \subseteq overlapped'
      /\ sourceReceipts' \in [Locks -> SourceReceipts]
      /\ sourceReceipts'[Pull(o).of].records = Pull(o).records
      /\ \A n \in Locks : PinsIn(n, sourceReceipts'[n].records, seen)
      /\ \A q \in Puller \ {o} : pulling[q] # <<>> =>
            \/ Pull(q).of \in overlapped'
            \/ sourceReceipts'[Pull(q).of].records \subseteq
                  sourceReceipts[Pull(q).of].records
    BY <1>1, WriteKeeps
<1>3. /\ pulling \in [Puller -> Seq(PullRecords)] /\ Len(pulling[o]) = 1
      /\ pulling[o] \in Seq(PullRecords)
    BY <1>1 DEF AcquisitionInv, SourcesFit, PullSound
<1>4. pulling' = [pulling EXCEPT ![o] = [pulling[o] EXCEPT ![1] = r]]
    BY <1>3 DEF WriteInterim, Pull
<1>5. /\ r \in PullRecords /\ r.of = Pull(o).of /\ r.records = Pull(o).records
      /\ r.pending = Pull(o).pending /\ r.fetched = Pull(o).fetched
    BY <1>1 DEF PullRecords
<1> HIDE DEF r
<1>6. PullBecomes(o, r)
    BY <1>1, <1>4, <1>5, ChangePull
<1>7. PullSound(o)'
  <2>1. /\ r.pending \subseteq Pinned(r.of)
        /\ PinsIn(r.of, r.records, seen') /\ PinsIn(r.of, r.fetched, seen')
        /\ sourceReceipts'[r.of].records \subseteq r.records
      BY <1>1, <1>2, <1>5 DEF PullSound
  <2> QED
      BY <1>5, <1>6, <2>1, PullStays
<1>8. ASSUME NEW q \in Puller \ {o} PROVE PullSound(q)'
  <2>1. PullSound(q) /\ pulling'[q] = pulling[q]
      BY <1>6 DEF AcquisitionInv, PullBecomes
  <2> QED
      BY <1>1, <1>2, <2>1, OthersStay
<1>9. SourcesFit'
    BY <1>1, <1>2, <1>6 DEF AcquisitionInv, SourcesFit, PullBecomes
<1>10. ASSUME NEW n \in Locks PROVE PinsIn(n, sourceReceipts[n].records, seen)'
    BY <1>1, <1>2 DEF PinsIn
<1> QED
    BY <1>2, <1>7, <1>8, <1>9, <1>10 DEF AcquisitionInv

\* A puller that is done, after its last write or by a kill.
LEMMA DoneKeeps ==
    ASSUME AcquisitionInv, NEW o \in Puller, EndPull(o) \/ KillPull(o)
    PROVE  AcquisitionInv' /\ RecordsGrow
<1>1. /\ pulling[o] # <<>> /\ pulling' = [pulling EXCEPT ![o] = <<>>]
      /\ UNCHANGED <<metadata, lock, cached, seen>>
    BY DEF EndPull, KillPull, Pulls, Done
<1>2. /\ RecordsGrow /\ overlapped \subseteq overlapped'
      /\ sourceReceipts' \in [Locks -> SourceReceipts]
      /\ \A n \in Locks : PinsIn(n, sourceReceipts'[n].records, seen)
      /\ \A q \in Puller \ {o} : pulling[q] # <<>> =>
            \/ Pull(q).of \in overlapped'
            \/ sourceReceipts'[Pull(q).of].records \subseteq
                  sourceReceipts[Pull(q).of].records
  <2>1. CASE EndPull(o)
    <3>1. lock \in {0} \union Locks /\ WriteSourceReceipt(o, lock)
        BY <2>1 DEF EndPull, AcquisitionInv, SourcesFit
    <3> QED
        BY <1>1, <3>1, WriteKeeps
  <2>2. CASE KillPull(o)
    <3>1. UNCHANGED <<sourceReceipts, overlapped>>
        BY <2>2 DEF KillPull
    <3> QED
        BY <3>1 DEF AcquisitionInv, SourcesFit, RecordsGrow
  <2> QED
      BY <2>1, <2>2
<1>3. /\ pulling' \in [Puller -> Seq(PullRecords)] /\ pulling'[o] = <<>>
      /\ \A q \in Puller \ {o} : pulling'[q] = pulling[q]
    BY <1>1 DEF AcquisitionInv, SourcesFit
<1>4. PullSound(o)'
    BY <1>3 DEF PullSound
<1>5. ASSUME NEW q \in Puller \ {o} PROVE PullSound(q)'
  <2>1. PullSound(q) /\ pulling'[q] = pulling[q]
      BY <1>3 DEF AcquisitionInv
  <2> QED
      BY <1>1, <1>2, <2>1, OthersStay
<1>6. SourcesFit'
    BY <1>1, <1>2, <1>3 DEF AcquisitionInv, SourcesFit
<1>7. ASSUME NEW n \in Locks PROVE PinsIn(n, sourceReceipts[n].records, seen)'
    BY <1>1, <1>2 DEF PinsIn
<1> QED
    BY <1>2, <1>4, <1>5, <1>6, <1>7 DEF AcquisitionInv

LEMMA AcquisitionStep ==
    AcquisitionInv /\ [AcquisitionNext]_sourceVars => AcquisitionInv' /\ RecordsGrow
<1> SUFFICES ASSUME AcquisitionInv, [AcquisitionNext]_sourceVars
             PROVE  AcquisitionInv' /\ RecordsGrow
    OBVIOUS
<1>1. CASE RefreshMetadata \/ ResolveAcquisition \/ LosePayload \/ UNCHANGED sourceVars
  <2>1. UNCHANGED <<sourceReceipts, pulling, overlapped, seen>>
      BY <1>1 DEF RefreshMetadata, ResolveAcquisition, LosePayload, sourceVars
  <2>2. /\ metadata' \in {0} \union Locks /\ lock' \in {0} \union Locks
        /\ cached' \subseteq Payload
      BY <1>1, LocksCounted DEF RefreshMetadata, ResolveAcquisition, LosePayload, sourceVars,
         AcquisitionInv, SourcesFit
  <2>3. ASSUME NEW o \in Puller PROVE PullSound(o)'
    <3>1. PullSound(o)
        BY DEF AcquisitionInv
    <3> QED
        BY <2>1, <3>1, OthersStay
  <2> QED
      BY <2>1, <2>2, <2>3 DEF AcquisitionInv, SourcesFit, PinsIn, RecordsGrow
<1>2. ASSUME NEW o \in Puller, NEW asked \in SUBSET Candidate, BeginSourcePull(o, asked)
      PROVE  AcquisitionInv' /\ RecordsGrow
  <2>1. sourceReceipts' = sourceReceipts
      BY <1>2 DEF BeginSourcePull
  <2> QED
      BY <1>2, <2>1, BeginKeeps DEF RecordsGrow
<1>3. ASSUME NEW o \in Puller, WriteInterim(o) \/ EndPull(o) \/ KillPull(o)
      PROVE  AcquisitionInv' /\ RecordsGrow
    BY <1>3, InterimKeeps, DoneKeeps
<1>4. ASSUME NEW o \in Puller, NEW k \in Candidate,
             FetchSource(o, k) \/ Settle(o, k) \/ FetchSourceFails(o, k)
      PROVE  AcquisitionInv' /\ RecordsGrow
  <2>1. sourceReceipts' = sourceReceipts
      BY <1>4 DEF FetchSource, Settle, FetchSourceFails
  <2> QED
      BY <1>4, <2>1, FetchKeeps DEF RecordsGrow
<1> QED
    BY <1>1, <1>2, <1>3, <1>4 DEF AcquisitionNext

LEMMA AcquisitionTyped == AcquisitionInv => AcquisitionTypeOK
    BY DEF AcquisitionInv, AcquisitionTypeOK, SourcesFit, SourceReceipts, PinsIn

LEMMA AcquisitionInductive == AcquisitionSpec => []AcquisitionInv
    BY AcquisitionStart, AcquisitionStep, PTL DEF AcquisitionSpec

\* What a receipt records is recorded for good (source_acquisition.py), unless
\* two pulls of its lock have met.
THEOREM RecordsKeptSafe == AcquisitionSpec => RecordsKept
<1>1. AcquisitionInv /\ [AcquisitionNext]_sourceVars => [RecordsGrow]_sourceVars
    BY AcquisitionStep
<1> QED
    BY <1>1, AcquisitionInductive, PTL DEF AcquisitionSpec, RecordsKept, RecordsGrow

-----------------------------------------------------------------------------
(* The maintenance system: each component takes its own steps.             *)

LEMMA PartsTakeTurns ==
    MaintenanceSpec => RetentionSpec /\ ExportSpec /\ ToolchainsSpec /\ AcquisitionSpec
<1> DEFINE all == <<part, vars, retentionVars, exportVars, toolVars, sourceVars>>
<1>1. MaintenanceInit => RetentionInit /\ ExportInit /\ ToolchainsInit /\ AcquisitionInit
    BY DEF MaintenanceInit
<1>2. [MaintenanceNext]_all => [RetentionNext]_retentionVars
    BY DEF MaintenanceNext, Only
<1>3. [MaintenanceNext]_all => [ExportNext]_exportVars
    BY DEF MaintenanceNext, Only
<1>4. [MaintenanceNext]_all => [ToolchainsNext]_toolVars
    BY DEF MaintenanceNext, Only
<1>5. [MaintenanceNext]_all => [AcquisitionNext]_sourceVars
    BY DEF MaintenanceNext, Only
<1> QED
    BY <1>1, <1>2, <1>3, <1>4, <1>5, PTL DEF MaintenanceSpec, RetentionSpec, ExportSpec,
       ToolchainsSpec, AcquisitionSpec

\* A package is of a safeguarded population; its packed receipt is the one that
\* was verified, listed and named, with a whole snapshot of that population,
\* unless a safeguard was completed during its build; and a receipt that passes
\* the full verification restores the ledger (database_export.py, build_export
\* and safeguard_export), whatever completes or is killed between their steps.
THEOREM PackageSafe == ExportSpec => []PackageSound
<1>1. ExportInv => PackageSound
    BY RestoresFollows DEF ExportInv, PackageSound
<1> QED
    BY <1>1, ExportInductive, PTL

\* What a material resolves to are the reviewed pack's tools over the bound
\* input, qualified as such (toolchain_prepare.py, toolchain_qualification.py),
\* whatever the other commands and reviews did meanwhile.
THEOREM ToolsSafe == ToolchainsSpec => []ToolsGenuine
    BY GenuineFollows, ToolchainsInductive, PTL

\* Both in the run's system: a package whose build no safeguard crossed is bound
\* to what its receipt restores (database_export.py), and a resolved tool is the
\* reviewed one (toolchain_prepare.py).
THEOREM StoresAreSound == MaintenanceSpec => []StoresSound
<1>1. PackageSound /\ ToolsGenuine => StoresSound
    BY DEF StoresSound
<1> QED
    BY <1>1, PartsTakeTurns, PackageSafe, ToolsSafe, PTL

\* Directories, bundles, snapshots, packages, tool stores and receipts are what
\* the commands write; one collector at most is locked, one extraction at most
\* of a pack is under way.
THEOREM MaintenanceTyped == MaintenanceSpec => []MaintenanceTypeOK
<1>1. ExportInv => ExportTypeOK
    BY DEF ExportInv
<1>2. RetentionTypeOK /\ ExportTypeOK /\ ToolchainsTypeOK /\ AcquisitionTypeOK
        => MaintenanceTypeOK
    BY DEF MaintenanceTypeOK
<1> QED
    BY <1>1, <1>2, PartsTakeTurns, RetentionTyped, ExportInductive, ToolchainsTyped,
       ToolchainsInductive, AcquisitionTyped, AcquisitionInductive, PTL
=============================================================================
