------------------------- MODULE LinkQualification -------------------------
(***************************************************************************)
(* The link qualification that admits validation runs                      *)
(* (machine_validation_links.py, and the preparation of folds in           *)
(* machine_validation_runner.py): a qualifier links, audits and strips one *)
(* image per cell (a position and a fold), keeps a report of the attempts  *)
(* and seals it when every cell is qualified; a validation run is admitted *)
(* by the sealed report, takes the images over and prepares the folds that *)
(* it could not take.                                                      *)
(*                                                                         *)
(* An image is the number of the link that made it, and a stripped copy    *)
(* that of the image it was made from: no two links give the same bytes.   *)
(* Only markers, audits and reports are flushed; a power loss may tear an  *)
(* image.  A linker replaces the file it writes, so a hard link of the     *)
(* file keeps its bytes, and outlives a parent that is killed.  The plan   *)
(* (the input digest that names the generation directory) is fixed; the    *)
(* run is not a grandfathered one, so that the receipt of an unsatisfied   *)
(* qualification cannot arise.                                             *)
(***************************************************************************)
EXTENDS Naturals, Sequences, FiniteSets, SequencesExt

CONSTANTS LinkQueue,      \* the cells by position and fold
          BatchSize, IdenticalFailureLimit,
          Fingerprint,    \* normalized failures
          Qualifier,      \* processes that run the qualification
          Validator,      \* the supervisor of the validation run
          MaxLinks, MaxLinkKills, MaxPowerLosses, MaxAdmissions

ASSUME LinkAssumption ==
    /\ Validator \notin Qualifier
    /\ {BatchSize, IdenticalFailureLimit} \subseteq Nat \ {0}
    /\ MaxLinks \in Nat

LinkCell == {LinkQueue[i] : i \in DOMAIN LinkQueue}
Preparer == Qualifier \cup {Validator}

VARIABLES folds,       \* [place -> [LinkCell -> the files of the fold]]
          linkReport,  \* report.json: <<>> or <<[rows, state]>>
          qualifying,  \* [Qualifier -> its report and batch]
          threads,     \* [Preparer -> [LinkCell -> step of _prepare_fold]]
          validating,  \* [phase, reusing: the cells left to take over]
          links,       \* links begun; rejected: those an audit rejects
          rejected,
          overlapped,  \* a process started while another one, or the linker
                       \* of one that is gone, was at work in its directory
          accidents    \* [kills, losses]

linkFiles == <<folds, linkReport>>
linkVars == <<linkFiles, qualifying, threads, validating, links, rejected,
              overlapped, accidents>>

Nothing0 == 0
Torn == MaxLinks + 1
NoFold == [truth |-> Nothing0, query |-> Nothing0, audit |-> Nothing0, marker |-> <<>>]
NotTried == [status |-> "none", image |-> <<>>]
FailedAs(p) == [status |-> "failed", image |-> <<p>>]
QualifiedAs(m) == [status |-> "qualified", image |-> m]
PlaceOf(w) == IF w = Validator THEN "run" ELSE "generation"
Fold(w, c) == folds[PlaceOf(w)][c]
AtRest == [phase |-> "idle", reusing |-> <<>>]
Write(w, c, f) == folds' = [folds EXCEPT ![PlaceOf(w)][c] = f]
NotRunning ==
    [on |-> FALSE, rows |-> [c \in LinkCell |-> NotTried], pending |-> <<>>,
     batch |-> {}, failures |-> [p \in Fingerprint |-> 0], open |-> FALSE]

-----------------------------------------------------------------------------
LinkInit ==
    /\ folds = [p \in {"generation", "run"} |-> [c \in LinkCell |-> NoFold]]
    /\ linkReport = <<>>
    /\ qualifying = [r \in Qualifier |-> NotRunning]
    /\ threads = [w \in Preparer |-> [c \in LinkCell |-> "idle"]]
    /\ validating = AtRest
    /\ links = 0 /\ rejected = {} /\ overlapped = FALSE
    /\ accidents = [kills |-> 0, losses |-> 0, admissions |-> 0]

LinkTypeOK ==
    /\ \A p \in DOMAIN folds, c \in LinkCell :
         /\ {folds[p][c].truth, folds[p][c].query, folds[p][c].audit} \subseteq 0 .. Torn
         /\ Len(folds[p][c].marker) <= 1
    /\ Len(linkReport) <= 1
    /\ threads \in [Preparer -> [LinkCell ->
          {"idle", "queued", "check", "link", "audit", "strip", "mark", "read"}]]
    /\ ~overlapped =>
          \A r \in Qualifier : ~qualifying[r].on => qualifying[r] = NotRunning
    /\ validating.phase \in {"idle", "reuse", "copied", "prepare"}

-----------------------------------------------------------------------------
(***************************************************************************)
(* _prepare_fold, by a thread of a qualifier or of the validation run.     *)
(***************************************************************************)
AtStep(w, c, step) == threads[w][c] = step
ToStep(w, c, step) == threads' = [threads EXCEPT ![w][c] = step]
Proceeds(w) == IF w = Validator THEN validating.phase = "prepare" ELSE qualifying[w].on

\* _load_prepared_fold: the marker is there and names files that exist.
Loads(f) == f.marker # <<>> /\ f.truth # Nothing0 /\ f.query # Nothing0

LookAtFold(w, c) ==
    /\ AtStep(w, c, "check")
    /\ ToStep(w, c, IF Loads(Fold(w, c)) THEN "read" ELSE "link")
    /\ UNCHANGED <<linkFiles, qualifying, validating, links, rejected, overlapped, accidents>>

\* _link_composite.  The linker of a killed process still writes its image.
Link(w, c) ==
    /\ AtStep(w, c, "link") /\ links < MaxLinks
    /\ links' = links + 1
    /\ Write(w, c, [Fold(w, c) EXCEPT !.truth = links + 1])
    /\ ToStep(w, c, IF Proceeds(w) THEN "audit" ELSE "idle")
    /\ UNCHANGED <<linkReport, qualifying, validating, rejected, overlapped, accidents>>

\* _audit_linked_image writes the audit, and then raises if it rejects.
Audit(w, c) ==
    /\ AtStep(w, c, "audit")
    /\ Write(w, c, [Fold(w, c) EXCEPT !.audit = Fold(w, c).truth])
    /\ ToStep(w, c, "strip")
    /\ UNCHANGED <<linkReport, qualifying, validating, links, rejected, overlapped, accidents>>

Strip(w, c) ==
    /\ AtStep(w, c, "strip")
    /\ Write(w, c, [Fold(w, c) EXCEPT !.query = Fold(w, c).truth])
    /\ ToStep(w, c, "mark")
    /\ UNCHANGED <<linkReport, qualifying, validating, links, rejected, overlapped, accidents>>

\* The digests, and the marker.
ImageOf(f) == [truth |-> f.truth, query |-> f.query, audit |-> f.audit]
Mark(w, c) ==
    /\ AtStep(w, c, "mark")
    /\ Write(w, c, [Fold(w, c) EXCEPT !.marker = <<ImageOf(Fold(w, c))>>])
    /\ ToStep(w, c, "read")
    /\ UNCHANGED <<linkReport, qualifying, validating, links, rejected, overlapped, accidents>>

-----------------------------------------------------------------------------
(***************************************************************************)
(* run_link_qualification.                                                 *)
(***************************************************************************)
AllQualified(rows) == \A c \in LinkCell : rows[c].status = "qualified"

\* _summarize: the seal binds the images of a report whose cells are all
\* qualified.
Summary(rows, open) ==
    <<[rows |-> rows,
       state |-> IF AllQualified(rows) THEN "qualified"
                 ELSE IF open THEN "circuit-open"
                 ELSE IF \A c \in LinkCell : rows[c].status # "none" THEN "failed"
                 ELSE "incomplete"]>>

Recorded == IF linkReport = <<>> THEN NotRunning.rows ELSE linkReport[1].rows

ReportSealed == linkReport # <<>> /\ linkReport[1].state = "qualified"

\* Another process that links, or the linker of one that is gone.
OthersAtWork ==
    \/ \E q \in Qualifier : qualifying[q].on
    \/ \E q \in Qualifier, c \in LinkCell : threads[q][c] # "idle"

\* A sealed report is returned as it is.
StartQualifier(r) ==
    /\ ~qualifying[r].on
    /\ ~ReportSealed
    /\ qualifying' = [qualifying EXCEPT ![r] =
         [NotRunning EXCEPT !.on = TRUE, !.rows = Recorded,
            !.pending = SelectSeq(LinkQueue, LAMBDA c : Recorded[c].status # "qualified")]]
    /\ overlapped' = (overlapped \/ OthersAtWork)
    /\ UNCHANGED <<linkFiles, threads, validating, links, rejected, accidents>>

\* The next batch, once the one before has ended and the breaker is closed.
NextBatch(q) ==
    SubSeq(q.pending, 1, IF Len(q.pending) < BatchSize THEN Len(q.pending) ELSE BatchSize)
BatchMayStart(q) == q.batch = {} /\ ~q.open
StartBatch(r) ==
    LET q == qualifying[r] IN
    /\ q.on /\ BatchMayStart(q) /\ q.pending # <<>>
    /\ qualifying' = [qualifying EXCEPT ![r] =
         [q EXCEPT !.batch = ToSet(NextBatch(q)),
                   !.pending = SubSeq(q.pending, Len(NextBatch(q)) + 1, Len(q.pending))]]
    /\ threads' = [threads EXCEPT ![r] =
         [c \in LinkCell |-> IF c \in ToSet(NextBatch(q)) THEN "check" ELSE threads[r][c]]]
    /\ UNCHANGED <<linkFiles, validating, links, rejected, overlapped, accidents>>

\* A future completes: its row replaces the cell's earlier one, and the report
\* is written.
Completes(r, c, row, failures) ==
    LET q == qualifying[r]
        rows == [q.rows EXCEPT ![c] = row]
        open == \E p \in Fingerprint : failures[p] >= IdenticalFailureLimit
    IN  /\ qualifying' = [qualifying EXCEPT ![r] =
              [q EXCEPT !.rows = rows, !.batch = q.batch \ {c},
                        !.failures = failures, !.open = open]]
        /\ linkReport' = Summary(rows, open)
        /\ ToStep(r, c, "idle")

Qualify(r, c) ==
    /\ AtStep(r, c, "read")
    /\ Completes(r, c, QualifiedAs(Fold(r, c).marker), qualifying[r].failures)
    /\ UNCHANGED <<folds, validating, links, rejected, overlapped, accidents>>

\* The link, its audit or the stripping fails.
FailLink(r, c) ==
    /\ threads[r][c] \in {"link", "audit", "strip"} /\ qualifying[r].on
    /\ \E p \in Fingerprint :
         Completes(r, c, FailedAs(p), [qualifying[r].failures EXCEPT ![p] = @ + 1])
    /\ IF AtStep(r, c, "audit")
         THEN /\ rejected' = rejected \cup {Fold(r, c).truth}
              /\ Write(r, c, [Fold(r, c) EXCEPT !.audit = Fold(r, c).truth])
         ELSE UNCHANGED <<folds, rejected>>
    /\ UNCHANGED <<validating, links, overlapped, accidents>>

FinishQualifier(r) ==
    LET q == qualifying[r] IN
    /\ q.on /\ q.batch = {} /\ (q.pending = <<>> \/ q.open)
    /\ linkReport' = Summary(q.rows, q.open)
    /\ qualifying' = [qualifying EXCEPT ![r] = NotRunning]
    /\ UNCHANGED <<folds, threads, validating, links, rejected, overlapped, accidents>>

-----------------------------------------------------------------------------
(***************************************************************************)
(* The validation run: link_qualification_status, reuse_qualified_links    *)
(* and _prepare_position.                                                  *)
(***************************************************************************)
\* link_qualification_status re-hashes every image of a sealed report.
Verified(c) ==
    LET row == Recorded[c].image[1]  f == folds["generation"][c] IN
    Loads(f) /\ f.truth = row.truth /\ f.query = row.query /\ f.marker[1].audit = row.audit
Satisfied ==
    /\ ReportSealed
    /\ \A c \in LinkCell : Verified(c)

Admit ==
    /\ validating.phase = "idle" /\ accidents.admissions < MaxAdmissions /\ Satisfied
    /\ validating' = [phase |-> "reuse", reusing |-> LinkQueue]
    /\ overlapped' = (overlapped \/ \E c \in LinkCell : ~AtStep(Validator, c, "idle"))
    /\ accidents' = [accidents EXCEPT !.admissions = @ + 1]
    /\ UNCHANGED <<linkFiles, qualifying, threads, links, rejected>>

\* A prepared fold stays, a partial one is preserved, and into an empty
\* directory the files are linked first and the marker is written after them.
Source(c) == folds["generation"][c]
Taking(phase, c) ==
    validating.phase = phase /\ validating.reusing # <<>> /\ Head(validating.reusing) = c
NextFold == validating' = [phase |-> "reuse", reusing |-> Tail(validating.reusing)]

SkipFold(c) ==
    /\ Taking("reuse", c) /\ Fold(Validator, c) # NoFold
    /\ NextFold
    /\ UNCHANGED <<linkFiles, qualifying, threads, links, rejected, overlapped, accidents>>

\* Mutant: the marker comes before the files it names.
CopyMarker(c) ==
    /\ Taking("reuse", c) /\ Fold(Validator, c) = NoFold
    /\ Write(Validator, c, [NoFold EXCEPT !.marker = Source(c).marker])
    /\ validating' = [validating EXCEPT !.phase = "copied"]
    /\ UNCHANGED <<linkReport, qualifying, threads, links, rejected, overlapped, accidents>>

CopyFiles(c) ==
    /\ Taking("reuse", c) /\ Fold(Validator, c) = NoFold
    /\ Write(Validator, c, [Source(c) EXCEPT !.marker = <<>>])
    /\ validating' = [validating EXCEPT !.phase = "copied"]
    /\ UNCHANGED <<linkReport, qualifying, threads, links, rejected, overlapped, accidents>>

EndCopy(c) ==
    /\ Taking("copied", c)
    /\ Write(Validator, c, Source(c))
    /\ NextFold
    /\ UNCHANGED <<linkReport, qualifying, threads, links, rejected, overlapped, accidents>>

\* The preparation of the run's folds, all at once.
BeginPreparation ==
    /\ validating.phase = "reuse" /\ validating.reusing = <<>>
    /\ validating' = [validating EXCEPT !.phase = "prepare"]
    /\ threads' = [threads EXCEPT ![Validator] = [c \in LinkCell |-> "check"]]
    /\ UNCHANGED <<linkFiles, qualifying, links, rejected, overlapped, accidents>>

\* The fold is prepared, or its failure is a result of the run.
EndFold(c) ==
    /\ Proceeds(Validator) /\ threads[Validator][c] \in {"link", "audit", "strip", "read"}
    /\ ToStep(Validator, c, "idle")
    /\ IF AtStep(Validator, c, "audit")
         THEN /\ rejected' = rejected \cup {Fold(Validator, c).truth}
              /\ Write(Validator, c, [Fold(Validator, c) EXCEPT !.audit = Fold(Validator, c).truth])
         ELSE UNCHANGED <<folds, rejected>>
    /\ UNCHANGED <<linkReport, qualifying, validating, links, overlapped, accidents>>

EndValidation ==
    /\ Proceeds(Validator) /\ \A c \in LinkCell : AtStep(Validator, c, "idle")
    /\ validating' = AtRest
    /\ UNCHANGED <<linkFiles, qualifying, threads, links, rejected, overlapped, accidents>>

-----------------------------------------------------------------------------
\* A kill leaves the linkers that run.
Halted(w) ==
    [threads EXCEPT ![w] = [c \in LinkCell |-> IF threads[w][c] = "link" THEN "link" ELSE "idle"]]
KillPreparer(w) ==
    /\ accidents.kills < MaxLinkKills
    /\ accidents' = [accidents EXCEPT !.kills = @ + 1]
    /\ IF w = Validator
         THEN /\ validating.phase # "idle"
              /\ validating' = AtRest
              /\ UNCHANGED qualifying
         ELSE /\ qualifying[w].on
              /\ qualifying' = [qualifying EXCEPT ![w] = NotRunning]
              /\ UNCHANGED validating
    /\ threads' = Halted(w)
    /\ UNCHANGED <<linkFiles, links, rejected, overlapped>>

\* A file that was not flushed keeps its name and loses its content.
MayTear(n) == IF n = Nothing0 THEN {Nothing0} ELSE {n, Torn}
PowerFails ==
    /\ accidents.losses < MaxPowerLosses
    /\ accidents' = [accidents EXCEPT !.losses = @ + 1]
    /\ \E p \in DOMAIN folds, c \in LinkCell :
         \E t \in MayTear(folds[p][c].truth), q \in MayTear(folds[p][c].query) :
            folds' = [folds EXCEPT ![p][c] = [folds[p][c] EXCEPT !.truth = t, !.query = q]]
    /\ qualifying' = [r \in Qualifier |-> NotRunning]
    /\ validating' = AtRest
    /\ threads' = [w \in Preparer |-> [c \in LinkCell |-> "idle"]]
    /\ UNCHANGED <<linkReport, links, rejected, overlapped>>

LinkNext ==
    \/ \E w \in Preparer, c \in LinkCell :
         LookAtFold(w, c) \/ Link(w, c) \/ Audit(w, c) \/ Strip(w, c) \/ Mark(w, c)
    \/ \E r \in Qualifier :
         \/ StartQualifier(r) \/ StartBatch(r) \/ FinishQualifier(r)
         \/ \E c \in LinkCell : Qualify(r, c) \/ FailLink(r, c)
    \/ Admit \/ BeginPreparation \/ EndValidation
    \/ \E c \in LinkCell : SkipFold(c) \/ CopyFiles(c) \/ EndCopy(c) \/ EndFold(c)
    \/ \E w \in Preparer : KillPreparer(w)
    \/ PowerFails

LinkSpec == LinkInit /\ [][LinkNext]_linkVars

-----------------------------------------------------------------------------
Genuine(m) ==
    m.truth \notin rejected \cup {Torn} /\ m.query = m.truth /\ m.audit = m.truth

\* What a satisfied qualification admits: every image is the one its audit
\* passed, and the stripped copy is a copy of it, through kills, power losses
\* and resumptions (link_qualification_status).
SealTrue ==
    Satisfied /\ ~overlapped =>
        \A c \in LinkCell : Genuine(Recorded[c].image[1])

\* The report that run_link_qualification returns without looking at the images
\* is one that the admission accepts, unless a power loss tore an image.
SealedIsSatisfied ==
    ReportSealed /\ ~overlapped /\ accidents.losses = 0 => Satisfied

\* What the validation run analyses is what the marker of the fold says, be it
\* taken over, taken over in part and prepared again, or prepared by the run
\* (reuse_qualified_links, _prepare_fold).
FoldsTrue ==
    ~overlapped =>
        \A c \in LinkCell :
           LET f == Fold(Validator, c) IN
           Loads(f) => /\ Genuine(f.marker[1])
                       /\ {f.truth, f.query} \subseteq {f.marker[1].truth, Torn}

\* "successful cells are not repeated" (validation/README.md): no resumption
\* links a cell again that its report holds qualified.
QualifiedOnce ==
    \A r \in Qualifier, c \in LinkCell :
        qualifying[r].on /\ AtStep(r, c, "link") /\ ~overlapped
        => Recorded[c].status # "qualified"

\* The sealed link qualification and the images a validation run takes from it
\* (machine_validation_links.py).
LinksTrue == SealTrue /\ SealedIsSatisfied /\ FoldsTrue /\ QualifiedOnce
=============================================================================
