-------------------------- MODULE SourceAcquisition --------------------------
(***************************************************************************)
(* Source acquisition (source_acquisition.py): refresh freezes the         *)
(* registries' metadata, resolve makes a lock of pins from them, pull      *)
(* downloads what the lock pins and keeps a receipt named for the lock,    *)
(* and a projection of the receipt tells operators' views what is there.   *)
(* Several operators run these commands at once, and nothing locks.        *)
(*                                                                         *)
(* A lock is the number of the metadata it was resolved from; PinOf says   *)
(* which payload it pins for a candidate.                                  *)
(***************************************************************************)
EXTENDS Naturals, Sequences, FiniteSets

CONSTANTS Candidate,
          PinOf,                \* lock -> candidate -> payload, or Unresolved
          Unresolved,
          Puller,               \* who pulls
          MaxFetches, MaxLosses     \* bounds: pulls and damaged payloads

Locks == DOMAIN PinOf
Payload == {PinOf[n][k] : n \in Locks, k \in Candidate} \ {Unresolved}

ASSUME AcquisitionAssumption ==
    /\ Len(PinOf) \in Nat /\ Locks = 1..Len(PinOf)     \* a sequence
    /\ \A n \in Locks : DOMAIN PinOf[n] = Candidate

VARIABLES
    metadata,       \* the frozen metadata, 0 for none
    lock,           \* the lock file, 0 for none
    cached,         \* the payloads of the download store whose digest agrees
    sourceReceipts, \* receipt files, by the lock in their name
    pulling,        \* a puller's command: <<>> or <<[at, of, records, ...]>>
    overlapped,     \* a receipt was written by two commands at once
    seen,           \* payloads that were verified at some time
    fetches, losses

sourceVars == <<metadata, lock, cached, sourceReceipts, pulling, overlapped, seen, fetches, losses>>

NoReceipt == [names |-> 0, records |-> {}, failed |-> {}]

AcquisitionInit ==
    /\ metadata = 0 /\ lock = 0 /\ cached = {}
    /\ sourceReceipts = [n \in Locks |-> NoReceipt]
    /\ pulling = [o \in Puller |-> <<>>]
    /\ overlapped = {} /\ seen = {}
    /\ fetches = 0 /\ losses = 0

Pinned(n) == {k \in Candidate : PinOf[n][k] # Unresolved}
IsCached(n, k) == PinOf[n][k] \in cached
Pulls(o, at) == pulling[o] # <<>> /\ pulling[o][1].at = at
Pull(o) == pulling[o][1]
Done(o) == pulling' = [pulling EXCEPT ![o] = <<>>]

-----------------------------------------------------------------------------
(* Metadata and lock, each replaced by one rename.                         *)

RefreshMetadata ==
    /\ metadata < Cardinality(Locks)
    /\ metadata' = metadata + 1
    /\ UNCHANGED <<lock, cached, sourceReceipts, pulling, overlapped, seen, fetches, losses>>

ResolveAcquisition ==
    /\ metadata # 0 /\ lock # metadata
    /\ lock' = metadata
    /\ UNCHANGED <<metadata, cached, sourceReceipts, pulling, overlapped, seen, fetches, losses>>

\* A payload of the store is damaged or removed.
LosePayload ==
    /\ losses < MaxLosses
    /\ \E p \in cached : cached' = cached \ {p}
    /\ losses' = losses + 1
    /\ UNCHANGED <<metadata, lock, sourceReceipts, pulling, overlapped, seen, fetches>>

-----------------------------------------------------------------------------
(* pull_acquisition.                                                       *)

\* Mutant: only what this command finds is recorded.
RecordsFound(n, asked) == {k \in asked \cap Pinned(n) : IsCached(n, k)}

\* What the receipt says already, and what this command finds in the store.
RecordsBefore(n, asked) ==
    sourceReceipts[n].records \union {k \in asked \cap Pinned(n) : IsCached(n, k)}

\* acquisition_status and _existing_receipt: a receipt that names another
\* lock than the file's name is refused.
BeginSourcePull(o, asked) ==
    /\ pulling[o] = <<>> /\ lock # 0 /\ fetches < MaxFetches
    /\ sourceReceipts[lock].names \in {0, lock}
    /\ fetches' = fetches + 1
    /\ seen' = seen \union {PinOf[lock][k] : k \in RecordsFound(lock, asked)}
    /\ pulling' = [pulling EXCEPT ![o] =
          <<[at |-> "write", of |-> lock, records |-> RecordsBefore(lock, asked),
             failed |-> sourceReceipts[lock].failed,
             pending |-> {k \in asked \cap Pinned(lock) : ~IsCached(lock, k)},
             fetched |-> {}]>>]
    /\ UNCHANGED <<metadata, lock, cached, sourceReceipts, overlapped, losses>>

\* Others that work on the same receipt: what they record gets lost.
Others(o) == {q \in Puller \ {o} : pulling[q] # <<>> /\ Pull(q).of = Pull(o).of}

WriteSourceReceipt(o, names) ==
    /\ sourceReceipts' = [sourceReceipts EXCEPT ![Pull(o).of] =
          [names |-> names, records |-> Pull(o).records, failed |-> Pull(o).failed]]
    /\ overlapped' = IF Others(o) = {} THEN overlapped ELSE overlapped \union {Pull(o).of}

\* write_receipt(before), and again after each download.
WriteInterim(o) ==
    /\ Pulls(o, "write")
    /\ WriteSourceReceipt(o, Pull(o).of)
    /\ pulling' = [pulling EXCEPT ![o][1].at = "fetch"]
    /\ UNCHANGED <<metadata, lock, cached, seen, fetches, losses>>

\* A download thread: acquire_pinned puts the payload into the store.
FetchSource(o, k) ==
    /\ Pulls(o, "fetch") /\ k \in Pull(o).pending
    /\ cached' = cached \union {PinOf[Pull(o).of][k]}
    /\ seen' = seen \union {PinOf[Pull(o).of][k]}
    /\ pulling' = [pulling EXCEPT ![o][1].pending = @ \ {k}, ![o][1].fetched = @ \union {k}]
    /\ UNCHANGED <<metadata, lock, sourceReceipts, overlapped, fetches, losses>>

\* as_completed: the outcome is recorded; a size that is not the pin's makes
\* a failure of a payload that is in the store.
Settle(o, k) ==
    /\ Pulls(o, "fetch") /\ k \in Pull(o).fetched
    /\ \/ pulling' = [pulling EXCEPT ![o][1].fetched = @ \ {k}, ![o][1].at = "write",
                                     ![o][1].records = @ \union {k}]
       \/ pulling' = [pulling EXCEPT ![o][1].fetched = @ \ {k}, ![o][1].at = "write",
                                     ![o][1].failed = @ \union {k}]
    /\ UNCHANGED <<metadata, lock, cached, sourceReceipts, overlapped, seen, fetches, losses>>

\* A download that failed: the others go on.
FetchSourceFails(o, k) ==
    /\ Pulls(o, "fetch") /\ k \in Pull(o).pending
    /\ pulling' = [pulling EXCEPT ![o][1].pending = @ \ {k}, ![o][1].at = "write",
                                  ![o][1].failed = @ \union {k}]
    /\ UNCHANGED <<metadata, lock, cached, sourceReceipts, overlapped, seen, fetches, losses>>

\* The status of the end is that of the lock of now.
EndPull(o) ==
    /\ Pulls(o, "fetch") /\ Pull(o).pending = {} /\ Pull(o).fetched = {}
    /\ WriteSourceReceipt(o, lock)
    /\ Done(o)
    /\ UNCHANGED <<metadata, lock, cached, seen, fetches, losses>>

KillPull(o) ==
    /\ pulling[o] # <<>>
    /\ Done(o)
    /\ UNCHANGED <<metadata, lock, cached, sourceReceipts, overlapped, seen, fetches, losses>>

\* acquisition_receipt_projection, for a row of the current lock.
Projected(k) ==
    /\ lock # 0 /\ k \in Pinned(lock)
    /\ sourceReceipts[lock].names = lock
    /\ k \in sourceReceipts[lock].records /\ IsCached(lock, k)

AcquisitionNext ==
    \/ RefreshMetadata \/ ResolveAcquisition \/ LosePayload
    \/ \E o \in Puller :
          \/ \E asked \in SUBSET Candidate \ {{}} : BeginSourcePull(o, asked)
          \/ WriteInterim(o) \/ EndPull(o) \/ KillPull(o)
          \/ \E k \in Candidate : FetchSource(o, k) \/ Settle(o, k) \/ FetchSourceFails(o, k)

AcquisitionSpec == AcquisitionInit /\ [][AcquisitionNext]_sourceVars

-----------------------------------------------------------------------------
\* A record of a receipt is about a pin whose payload was verified.
AcquisitionTypeOK ==
    /\ metadata \in {0} \union Locks /\ lock \in {0} \union Locks /\ cached \subseteq Payload
    /\ \A n \in Locks :
          /\ sourceReceipts[n].names \in {0} \union Locks
          /\ {PinOf[n][k] : k \in sourceReceipts[n].records} \subseteq seen

\* What a receipt records is recorded for good, whatever pulls of other
\* candidates, retries, kills and losses follow (_existing_receipt), unless
\* two pulls of one lock overlap: then the later write wins.
RecordsKept ==
    [][\A n \in Locks \ overlapped' :
          sourceReceipts[n].records \subseteq sourceReceipts'[n].records]_sourceVars
=============================================================================
