----------------------------- MODULE FidScoring -----------------------------
(***************************************************************************)
(* The portable scorer of function matching (fid_compact.py,               *)
(* fid_matching.py): the candidates of a query, spread over the indexes of *)
(* a population, are packed into bounded chunks, scored on the GPU or the  *)
(* CPU, and culled while they stream by; only the winners are retained.    *)
(*                                                                         *)
(* Engine 1 scores every index on its own and merges the winners; engine 2 *)
(* streams all indexes through one scorer, scores equal inputs of a chunk  *)
(* once and notes which indexes they came from.  A GPU that fails before   *)
(* its first chunk is replaced by the CPU; one that fails later ends the   *)
(* run.  Scores are integers here: the float32 rounding that the two       *)
(* devices share up to one unit in the last place is left out.             *)
(***************************************************************************)
EXTENDS Naturals, Sequences, FiniteSets, FiniteSetsExt

CONSTANTS QueryFunctions, \* functions of the query: 1 .. QueryFunctions
          Candidates,   \* candidate ids that share their full hash: 1 .. Candidates
          Indexes,      \* component indexes of the population: 1 .. Indexes
          Populations,  \* [CandidateRow -> the inputs of the row, or NoRow]
          NoRow,
          ScoreThreshold,
          ChunkRows,    \* values of candidate_chunk_rows
          MediumUnits   \* medium_code_unit_limit

VARIABLES population,  \* the rows of the indexes
          setting,     \* [engine, chunk, requested]
          stream,      \* which stream of rows is being read
          cursor,      \* the rows of the stream already read
          chunk,       \* packed and metadata: rows that wait for the scorer
          kept,        \* winners of the stream, by query
          device,      \* effective_backend of the stream
          gpuBatches,  \* gpu_batches of the stream
          results,     \* [kept, device] of the streams that ended
          used,        \* devices that scored a chunk
          match        \* [phase, decision, device] of the population

streamVars == <<stream, cursor, chunk, kept, device, gpuBatches, results, used>>
scoringVars == <<population, setting, streamVars, match>>

QueryId == 1 .. QueryFunctions
IndexId == 1 .. Indexes
CandidateRow == [query : QueryId, id : 1 .. Candidates, index : IndexId]
Unmatched == [score |-> 0, matches |-> {}]
ScoreInput ==
    [units : Nat, specific : Nat, child : Nat, parent : Nat,
     flags : SUBSET {"auto_pass", "auto_fail", "force_specific", "force_relation"}]

\* A population has an index, a chunk has room, and a score is at least a
\* threshold that is not 0 (match_compact_population, load_fid_matching_authority).
ASSUME ScoringAssumption ==
    /\ QueryFunctions \in Nat /\ Candidates \in Nat /\ Indexes \in Nat \ {0}
    /\ ScoreThreshold \in Nat \ {0} /\ MediumUnits \in Nat
    /\ ChunkRows \subseteq Nat \ {0}
    /\ Populations \subseteq [CandidateRow -> ScoreInput \cup {NoRow}]

-----------------------------------------------------------------------------
\* The score of a row; 0 is None.
Units(i) == IF "auto_pass" \in i.flags THEN Max({i.units, MediumUnits}) ELSE i.units
IsRefused(i) ==
    \/ "auto_fail" \in i.flags
    \/ "force_specific" \in i.flags /\ i.specific = 0
    \/ "force_relation" \in i.flags /\ i.child = 0
Score(i) ==
    LET overall == Units(i) + i.specific + i.child + i.parent
    IN  IF IsRefused(i) \/ overall < ScoreThreshold THEN 0 ELSE overall

\* The rows of a stream and the order in which its cursors return them: query
\* after query, index after index, by candidate id.
Present == {r \in CandidateRow : population[r] # NoRow}
Before(r, s) ==
    \/ r.query < s.query
    \/ r.query = s.query /\ r.index < s.index
    \/ r.query = s.query /\ r.index = s.index /\ r.id < s.id
Rows(n) == {r \in Present : setting.engine = 1 => r.index = n}
Streams == IF setting.engine = 1 THEN Indexes ELSE 1

\* Equal rows of a chunk are scored once by engine 2.
SameInputAnyQuery(r, s) == r.id = s.id /\ population[r] = population[s]
SameInput(r, s) ==
    r.query = s.query /\ r.id = s.id /\ population[r] = population[s]
Duplicate(p, r) == setting.engine = 2 /\ SameInput(p.row, r)

\* The winners w of query q once the scored rows of chunk c are culled: a row
\* that outscores them replaces them, and one that equals them joins them.
AcceptedIn(c, q) == {n \in DOMAIN c : c[n].row.query = q /\ Score(population[c[n].row]) > 0}
Cull(w, c, q) ==
    LET scores == {Score(population[c[n].row]) : n \in AcceptedIn(c, q)}
        top == Max({w.score} \cup scores)
        best == {n \in AcceptedIn(c, q) : Score(population[c[n].row]) = top}
    IN  [score |-> top,
         matches |-> (IF w.score = top THEN w.matches ELSE {})
                       \cup UNION {{c[n].row.id} \X c[n].indexes : n \in best}]

-----------------------------------------------------------------------------
ScoringInit ==
    /\ population \in Populations
    /\ setting \in [engine : {1, 2}, chunk : ChunkRows, requested : {"cpu", "gpu"}]
    /\ stream = 1 /\ cursor = {} /\ chunk = <<>>
    /\ kept = [q \in QueryId |-> Unmatched]
    /\ device = setting.requested /\ gpuBatches = 0
    /\ results = <<>> /\ used = {}
    /\ match = [phase |-> "stream", decision |-> <<>>, device |-> "none"]

ScoringTypeOK ==
    /\ stream \in 1 .. (Indexes + 1) /\ cursor \subseteq CandidateRow
    /\ Len(chunk) <= setting.chunk
    /\ \A n \in DOMAIN chunk :
         chunk[n].row \in CandidateRow /\ chunk[n].indexes \subseteq IndexId
    /\ \A q \in QueryId : kept[q].matches \subseteq (1 .. Candidates) \X IndexId
    /\ device \in {"cpu", "gpu"} /\ used \subseteq {"cpu", "gpu"}
    /\ Len(results) <= Streams
    /\ match.phase \in {"stream", "done", "failed"}

Streaming == match.phase = "stream" /\ stream <= Streams
Ahead == Rows(stream) \ cursor
AtEnd == Ahead = {}
FlushDue == Len(chunk) = setting.chunk \/ (AtEnd /\ chunk # <<>>)

\* A row is packed, or noted at the equal row that already waits.
Pack ==
    /\ Streaming /\ ~FlushDue
    /\ \E r \in Ahead :
         LET equal == {n \in DOMAIN chunk : Duplicate(chunk[n], r)}
         IN  /\ \A s \in Ahead \ {r} : Before(r, s)
             /\ chunk' = IF equal # {}
                           THEN [n \in DOMAIN chunk |->
                                   IF n \in equal
                                     THEN [chunk[n] EXCEPT !.indexes = @ \cup {r.index}]
                                     ELSE chunk[n]]
                           ELSE Append(chunk, [row |-> r, indexes |-> {r.index}])
             /\ cursor' = cursor \cup {r}
    /\ UNCHANGED <<population, setting, stream, kept, device, gpuBatches, results, used,
                   match>>

\* flush: the chunk is scored on d and its winners are kept.
ScoreOn(d) ==
    /\ kept' = [q \in QueryId |-> Cull(kept[q], chunk, q)]
    /\ chunk' = <<>>
    /\ device' = d /\ used' = used \cup {d}
    /\ gpuBatches' = gpuBatches + (IF d = "gpu" THEN 1 ELSE 0)
    /\ UNCHANGED <<population, setting, stream, cursor, results, match>>

ScoreChunk == Streaming /\ FlushDue /\ ScoreOn(device)

\* A GPU that fails before it scored anything of this stream.
MayFallBack == gpuBatches = 0
FallBack ==
    /\ Streaming /\ FlushDue /\ device = "gpu" /\ MayFallBack
    /\ ScoreOn("cpu")

\* A GPU that fails later ends the run.
GpuFails ==
    /\ Streaming /\ FlushDue /\ device = "gpu" /\ ~MayFallBack
    /\ match' = [match EXCEPT !.phase = "failed"]
    /\ UNCHANGED <<population, setting, streamVars>>

\* The decisions of a stream are recorded and the next one starts afresh.
EndStream ==
    /\ Streaming /\ AtEnd /\ ~FlushDue
    /\ results' = Append(results, [kept |-> kept, device |-> device])
    /\ stream' = stream + 1 /\ cursor' = {}
    /\ kept' = [q \in QueryId |-> Unmatched]
    /\ device' = setting.requested /\ gpuBatches' = 0
    /\ UNCHANGED <<population, setting, chunk, used, match>>

\* Engine 1: the best score of each candidate, then the candidates at the top.
SameDevice == \A m, n \in DOMAIN results : results[m].device = results[n].device
Best(q, c) ==
    LET winsIn == {n \in DOMAIN results :
                     \E x \in IndexId : <<c, x>> \in results[n].kept[q].matches}
    IN  Max({results[n].kept[q].score : n \in winsIn})
MergedIds(q) ==
    LET found == {x[1] : x \in UNION {results[n].kept[q].matches : n \in DOMAIN results}}
    IN  {c \in found : \A d \in found : Best(q, c) >= Best(q, d)}
Decide(q) ==
    IF setting.engine = 1 THEN {<<c, 0>> : c \in MergedIds(q)}
    ELSE results[1].kept[q].matches

Merge ==
    /\ match.phase = "stream" /\ stream > Streams
    /\ match' = IF SameDevice
                  THEN [phase |-> "done", decision |-> [q \in QueryId |-> Decide(q)],
                        device |-> results[1].device]
                  ELSE [match EXCEPT !.phase = "failed"]
    /\ UNCHANGED <<population, setting, streamVars>>

ScoringNext ==
    \/ Pack \/ ScoreChunk \/ FallBack \/ GpuFails \/ EndStream \/ Merge

ScoringSpec == ScoringInit /\ [][ScoringNext]_scoringVars

-----------------------------------------------------------------------------
\* The winners of a query by definition (_cull over every row at once): the
\* accepted rows that no accepted row outscores.
AcceptedRows(q) == {r \in Present : r.query = q /\ Score(population[r]) > 0}
Winning(q) ==
    {r \in AcceptedRows(q) :
        \A s \in AcceptedRows(q) : Score(population[r]) >= Score(population[s])}

\* Whatever the engine, the chunks, the order of the rows and the device, the
\* decision of every query is the set of all winners; engine 2 also names
\* every index that supplied one (_match_compact_population_alpha_engine_1,
\* _match_compact_population_alpha_engine_2).  And a decision names the only
\* device that scored any part of it: a GPU decision has no CPU score and the
\* reverse.
MatchesExact ==
    match.phase = "done" =>
        /\ used \subseteq {match.device}
        /\ \A q \in QueryId :
             IF setting.engine = 1
               THEN match.decision[q] = {<<r.id, 0>> : r \in Winning(q)}
               ELSE match.decision[q] = {<<r.id, r.index>> : r \in Winning(q)}
=============================================================================
