----------------------------- MODULE ControlPanel -----------------------------
(***************************************************************************)
(* The coordinator API of the control panel (local_api.py) over several    *)
(* campaigns (campaign_registry.py), each with a queue file and a ledger   *)
(* of its own.  A local selection file says which campaign is active, and  *)
(* the API resolves it anew whenever a request needs a path.  Requests run *)
(* in threads of their own; snapshots and timings are projections that are *)
(* reused until the ledger's files change.                                 *)
(*                                                                         *)
(* A ledger is the number of its commits; a commit changes the time or the *)
(* size of the database or of its log, which is what the cache compares.   *)
(***************************************************************************)
EXTENDS Naturals, Sequences, Functions

CONSTANTS Campaign, DefaultCampaign, NoSelection,
          Client,                   \* who has requests running
          MaxCommits, MaxSwitches   \* bounds

ASSUME PanelAssumption == DefaultCampaign \in Campaign /\ NoSelection \notin Campaign

VARIABLES
    queueFile,      \* a campaign's queue authority: armed or disarmed
    chosen,         \* the campaign of the selection file, or NoSelection
    ledgers,        \* campaign -> [commits, armed, live]
    projection,     \* the cache: <<>> or <<[generation, campaign, first, last]>>
    requests,       \* client -> <<>> or <<[kind, at, campaign, ...]>>
    crossed,        \* kinds of requests that a change of the selection met
    misled,         \* an answer was of another ledger, or older than its request
    switches

panelVars == <<queueFile, chosen, ledgers, projection, requests, crossed, misled, switches>>

\* load_campaign_registry and active_campaign.  Only a disarmed queue can be
\* selected, and the selection is bound to the digest of the queue file.
ActiveCampaign == IF chosen = NoSelection THEN DefaultCampaign ELSE chosen
SelectionHolds == chosen = NoSelection \/ queueFile[ActiveCampaign] = "disarmed"

PanelInit ==
    /\ queueFile = [c \in Campaign |-> "disarmed"]
    /\ chosen = NoSelection
    /\ ledgers = [c \in Campaign |-> [commits |-> 0, armed |-> FALSE, live |-> FALSE]]
    /\ projection = <<>>
    /\ requests = [q \in Client |-> <<>>]
    /\ crossed = {} /\ misled = FALSE /\ switches = 0

Requesting(q, at) == requests[q] # <<>> /\ requests[q][1].at = at
Req(q) == requests[q][1]
Becomes(q, row) == requests' = [requests EXCEPT ![q] = <<row>>]
Answered(q) == requests' = [requests EXCEPT ![q] = <<>>]

\* The identity of a ledger's files, as _ledger_generation reads it.
Generation(c) == [campaign |-> c, commits |-> ledgers[c].commits]

-----------------------------------------------------------------------------
(* The surroundings: a reviewed edit that arms or disarms a queue, and     *)
(* workers that resolved their campaign when they started.                 *)

EditQueue(c) ==
    /\ queueFile' = [queueFile EXCEPT ![c] = IF @ = "armed" THEN "disarmed" ELSE "armed"]
    /\ UNCHANGED <<chosen, ledgers, projection, requests, crossed, misled, switches>>

MayCommit == FoldFunction(LAMBDA l, n : l.commits + n, 0, ledgers) < MaxCommits
Commit(c, armed, live) ==
    /\ MayCommit
    /\ ledgers' = [ledgers EXCEPT ![c] =
                     [commits |-> @.commits + 1, armed |-> armed, live |-> live]]

WorkOn(c) ==
    /\ ledgers[c].armed \/ ledgers[c].live
    /\ Commit(c, ledgers[c].armed, ~ledgers[c].live)
    /\ UNCHANGED <<queueFile, chosen, projection, requests, crossed, misled, switches>>

-----------------------------------------------------------------------------
(* Snapshots and timings.                                                  *)

\* _coordinator: the ledger of the campaign that is active now.
OpenSnapshot(q) ==
    /\ requests[q] = <<>> /\ SelectionHolds
    /\ Becomes(q, [kind |-> "snapshot", at |-> "generation", campaign |-> ActiveCampaign,
                   since |-> ledgers[ActiveCampaign].commits,
                   generation |-> Generation(ActiveCampaign), first |-> 0, last |-> 0])
    /\ UNCHANGED <<queueFile, chosen, ledgers, projection, crossed, misled, switches>>

\* A selection that cannot be resolved is an error to every request.
RefuseRequest(q) ==
    /\ requests[q] # <<>> /\ Req(q).kind = "snapshot" /\ Req(q).at \in {"generation", "store"}
    /\ ~SelectionHolds
    /\ Answered(q)
    /\ UNCHANGED <<queueFile, chosen, ledgers, projection, crossed, misled, switches>>

\* cached_ledger_projection reads the generation before it takes the lock.
ReadGeneration(q) ==
    /\ Requesting(q, "generation") /\ SelectionHolds
    /\ Becomes(q, [Req(q) EXCEPT !.at = "look", !.generation = Generation(ActiveCampaign)])
    /\ UNCHANGED <<queueFile, chosen, ledgers, projection, crossed, misled, switches>>

\* An answer that is not of the request's ledger, or older than the request.
Misleads(q, of, first) == of # Req(q).campaign \/ first < Req(q).since

ProjectionLocked == \E q \in Client : requests[q] # <<>> /\ Req(q).at \in {"build", "rest", "store"}

LookUp(q) ==
    /\ Requesting(q, "look") /\ ~ProjectionLocked
    /\ IF projection # <<>> /\ projection[1].generation = Req(q).generation
       THEN /\ Answered(q)
            /\ misled' = (misled \/ Misleads(q, projection[1].campaign, projection[1].first))
       ELSE /\ Becomes(q, [Req(q) EXCEPT !.at = "build"])
            /\ UNCHANGED misled
    /\ UNCHANGED <<queueFile, chosen, ledgers, projection, crossed, switches>>

\* The projection is read in several statements, with commits in between.
BuildFirst(q) ==
    /\ Requesting(q, "build")
    /\ Becomes(q, [Req(q) EXCEPT !.at = "rest", !.first = ledgers[Req(q).campaign].commits])
    /\ UNCHANGED <<queueFile, chosen, ledgers, projection, crossed, misled, switches>>

BuildRest(q) ==
    /\ Requesting(q, "rest")
    /\ Becomes(q, [Req(q) EXCEPT !.at = "store", !.last = ledgers[Req(q).campaign].commits])
    /\ UNCHANGED <<queueFile, chosen, ledgers, projection, crossed, misled, switches>>

\* Mutant: whatever was built is kept.
KeepsAny(read) == TRUE

\* The projection is kept when no file changed since its generation was read.
Keeps(read) == Generation(ActiveCampaign) = read

StoreProjection(q) ==
    /\ Requesting(q, "store") /\ SelectionHolds
    /\ projection' =
          IF Keeps(Req(q).generation)
          THEN <<[generation |-> Req(q).generation, campaign |-> Req(q).campaign,
                  first |-> Req(q).first, last |-> Req(q).last]>>
          ELSE projection
    /\ misled' = (misled \/ Misleads(q, Req(q).campaign, Req(q).first))
    /\ Answered(q)
    /\ UNCHANGED <<queueFile, chosen, ledgers, crossed, switches>>

-----------------------------------------------------------------------------
(* Synchronization and selection.                                          *)

OpenSync(q) ==
    /\ requests[q] = <<>> /\ SelectionHolds
    /\ Becomes(q, [kind |-> "sync", at |-> "sync", campaign |-> ActiveCampaign])
    /\ UNCHANGED <<queueFile, chosen, ledgers, projection, crossed, misled, switches>>

\* sync_queue reads the queue file of now into the ledger that was resolved.
SyncCampaign(q) ==
    LET c == Req(q).campaign IN
    /\ Requesting(q, "sync")
    /\ Commit(c, queueFile[c] = "armed", ledgers[c].live)
    /\ crossed' = IF \E other \in Client : Requesting(other, "replace")
                  THEN crossed \union {"sync"} ELSE crossed
    /\ Answered(q)
    /\ UNCHANGED <<queueFile, chosen, projection, misled, switches>>

SelectionLocked == \E q \in Client : Requesting(q, "replace")

SafeToLeave(c) == ~ledgers[c].armed /\ ~ledgers[c].live

\* select_campaign, under the selection lock: the target's queue is disarmed,
\* the current ledger is disarmed and has no live job.
CheckSelection(q, target) ==
    /\ requests[q] = <<>> /\ switches < MaxSwitches /\ ~SelectionLocked
    /\ SelectionHolds /\ target # ActiveCampaign
    /\ queueFile[target] = "disarmed" /\ SafeToLeave(ActiveCampaign)
    /\ Becomes(q, [kind |-> "select", at |-> "replace", campaign |-> target])
    /\ switches' = switches + 1
    /\ UNCHANGED <<queueFile, chosen, ledgers, projection, crossed, misled>>

\* Requests that work with paths of the selection that changes.
Met(q) == {Req(o).kind : o \in {o \in Client \ {q} : requests[o] # <<>>}}

\* _durable_replace: one rename.  The selection names the digest of the queue
\* file that was checked, a disarmed one.
ReplaceSelection(q) ==
    /\ Requesting(q, "replace")
    /\ chosen' = Req(q).campaign
    /\ crossed' = crossed \union Met(q)
    /\ Answered(q)
    /\ UNCHANGED <<queueFile, ledgers, projection, misled, switches>>

\* The operator removes a selection whose binding changed, after a review.
RemoveSelection ==
    /\ chosen # NoSelection /\ ~SelectionHolds /\ SafeToLeave(chosen)
    /\ chosen' = NoSelection
    /\ crossed' = crossed \union {Req(o).kind : o \in {o \in Client : requests[o] # <<>>}}
    /\ UNCHANGED <<queueFile, ledgers, projection, requests, misled, switches>>

PanelNext ==
    \/ RemoveSelection
    \/ \E c \in Campaign : EditQueue(c) \/ WorkOn(c)
    \/ \E q \in Client :
          \/ OpenSnapshot(q) \/ RefuseRequest(q) \/ ReadGeneration(q) \/ LookUp(q)
          \/ BuildFirst(q) \/ BuildRest(q) \/ StoreProjection(q)
          \/ OpenSync(q) \/ SyncCampaign(q)
          \/ \E target \in Campaign : CheckSelection(q, target)
          \/ ReplaceSelection(q)

PanelSpec == PanelInit /\ [][PanelNext]_panelVars

-----------------------------------------------------------------------------
PanelTypeOK ==
    /\ chosen \in Campaign \union {NoSelection}
    /\ \A q \in Client : Len(requests[q]) <= 1
    /\ \A q, o \in Client : Requesting(q, "replace") /\ Requesting(o, "replace") => q = o

\* What the cache keeps is one state of the ledger it is kept for, and every
\* answer is of the ledger that the request opened and no older than the
\* request, whatever commits and other requests interleave; excepted are
\* snapshots that a change of the selection meets: those open the ledger of one
\* campaign and keep it as that of another (cached_ledger_projection).
ProjectionsTrue ==
    \/ "snapshot" \in crossed
    \/ /\ ~misled
       /\ projection # <<>> =>
             /\ projection[1].campaign = projection[1].generation.campaign
             /\ projection[1].first = projection[1].last
             /\ projection[1].first = projection[1].generation.commits

\* A campaign that is not selected is disarmed and has no live job
\* (select_campaign), unless a synchronization that resolved it before a
\* change of the selection ended after it.
LeftIdle ==
    \/ "sync" \in crossed
    \/ \A c \in Campaign \ {ActiveCampaign} : SafeToLeave(c)
=============================================================================
