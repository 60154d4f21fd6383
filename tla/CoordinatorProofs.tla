------------------------- MODULE CoordinatorProofs -------------------------
(***************************************************************************)
(* What the coordinator promises for every set of jobs, batches, stages,   *)
(* configurations and policies, and for any number of claims and plan      *)
(* generations.                                                            *)
(*                                                                         *)
(* First the rows: every transition of a job row (JobRow) keeps its type   *)
(* and RowInv, and loses no evidence.  Then the tables: every operation    *)
(* leaves each row by such a transition.  Last the plan refreshes: only    *)
(* sync_queue chooses the active jobs, and it chooses each piece of work   *)
(* once, without reopening work that another generation settled.           *)
(***************************************************************************)
EXTENDS Coordinator, TLAPS

-----------------------------------------------------------------------------
(* Rows.                                                                   *)

Sound(r) == r \in JobRows /\ RowInv(r)

-----------------------------------------------------------------------------
(* Sequences.                                                              *)

\* Replacing the element at a position of a sequence (an UPDATE of one
\* attempts row).
LEMMA ReplaceElement ==
    ASSUME NEW S, NEW s \in Seq(S), NEW n \in 1..Len(s), NEW x \in S
    PROVE  /\ [s EXCEPT ![n] = x] \in Seq(S)
           /\ Len([s EXCEPT ![n] = x]) = Len(s)
           /\ \A i \in 1..Len(s) :
                 [s EXCEPT ![n] = x][i] = IF i = n THEN x ELSE s[i]
OBVIOUS

\* Appending an element (an INSERT).
LEMMA AppendElement ==
    ASSUME NEW S, NEW s \in Seq(S), NEW x \in S
    PROVE  /\ Append(s, x) \in Seq(S)
           /\ Len(Append(s, x)) = Len(s) + 1
           /\ \A i \in 1..Len(s) : Append(s, x)[i] = s[i]
           /\ Append(s, x)[Len(s) + 1] = x
OBVIOUS

\* CloseSpans keeps the number of spans, leaves none open, and changes no
\* span that was closed.
LEMMA CloseSpansLemma ==
    ASSUME NEW spans \in Seq(Span)
    PROVE  /\ CloseSpans(spans) \in Seq(Span)
           /\ Len(CloseSpans(spans)) = Len(spans)
           /\ \A i \in 1..Len(spans) :
                 /\ CloseSpans(spans)[i].state # "started"
                 /\ spans[i].state # "started" => CloseSpans(spans)[i] = spans[i]
<1>1. /\ Len(spans) \in Nat
      /\ DOMAIN spans = 1..Len(spans)
      /\ \A i \in 1..Len(spans) : spans[i] \in Span
  OBVIOUS
<1>2. \A i \in 1..Len(spans) :
         /\ CloseSpans(spans)[i] \in Span
         /\ CloseSpans(spans)[i].state # "started"
         /\ spans[i].state # "started" => CloseSpans(spans)[i] = spans[i]
  BY <1>1 DEF CloseSpans, Span, SpanStates
<1>3. CloseSpans(spans) = [i \in 1..Len(spans) |-> CloseSpans(spans)[i]]
  BY <1>1 DEF CloseSpans
<1>. HIDE DEF CloseSpans
<1>4. CloseSpans(spans) \in Seq(Span) /\ Len(CloseSpans(spans)) = Len(spans)
  BY <1>1, <1>2, <1>3
<1>. QED  BY <1>2, <1>4

\* The delay before the next attempt is a natural number within the policy's
\* maximum, whatever the attempt count.
LEMMA RetryDelayLemma ==
    ASSUME NEW pol \in Policies, NEW n
    PROVE  RetryDelay(pol, n) \in 0..pol.backoffMax
BY DEF RetryDelay, Policies

\* The current attempt of a live row exists.
LEMMA CurrentLemma ==
    ASSUME NEW r, Sound(r), Live(r)
    PROVE  /\ r.generation \in 1..Len(r.attempts)
           /\ AttemptOf(r, r.generation) \in Attempt
           /\ AttemptOf(r, r.generation).spans \in Seq(Span)
           /\ AttemptOf(r, r.generation).state = r.state
<1>1. r.attempts \in Seq(Attempt) /\ r.generation \in Nat
  BY DEF Sound, JobRows
<1>2. /\ Len(r.attempts) = r.generation
      /\ r.generation > 0
      /\ r.attempts[r.generation].state = r.state
  BY DEF Sound, RowInv, LeaseMatchesAttempt
<1>3. r.generation \in 1..Len(r.attempts)
  BY <1>1, <1>2
<1>4. AttemptOf(r, r.generation) \in Attempt
  BY <1>1, <1>3 DEF AttemptOf
<1>. QED  BY <1>2, <1>3, <1>4 DEF AttemptOf, Attempt

-----------------------------------------------------------------------------
(* Writing the current attempt.                                            *)

\* Spans `after` extend spans `before`: none is lost, no closed one changed.
SpansKept(before, after) ==
    /\ Len(before) <= Len(after)
    /\ \A i \in 1..Len(before) :
          before[i].state # "started" => after[i] = before[i]

\* t is r with the current attempt replaced by a.
Rewrites(r, t, a) ==
    /\ t.attempts = [r.attempts EXCEPT ![r.generation] = a]
    /\ t.generation = r.generation
    /\ t.attemptCount = r.attemptCount

\* Only the newest attempt of a live row is written, so the evidence of all
\* earlier ones is kept.
LEMMA RewriteLemma ==
    ASSUME NEW r, NEW t, NEW a \in Attempt, Sound(r), Live(r), Rewrites(r, t, a),
           SpansKept(AttemptOf(r, r.generation).spans, a.spans)
    PROVE  /\ t.attempts \in Seq(Attempt)
           /\ Len(t.attempts) = t.generation
           /\ t.attemptCount = t.generation
           /\ t.generation \in Nat \ {0}
           /\ t.attempts[t.generation] = a
           /\ \A g \in 1..t.generation :
                 g # t.generation => /\ t.attempts[g] = r.attempts[g]
                                     /\ t.attempts[g].state \notin LiveStates
                                     /\ t.attempts[g].state # "complete"
                                     /\ \A i \in 1..Len(t.attempts[g].spans) :
                                           t.attempts[g].spans[i].state # "started"
           /\ EvidenceKept(r, t)
<1>1. /\ r.attempts \in Seq(Attempt)
      /\ r.generation \in 1..Len(r.attempts)
      /\ Len(r.attempts) = r.generation
      /\ r.attemptCount = r.generation
      /\ AttemptOf(r, r.generation).state = r.state
  BY CurrentLemma DEF Sound, RowInv, LeaseMatchesAttempt, JobRows
<1>2. /\ t.attempts \in Seq(Attempt)
      /\ Len(t.attempts) = Len(r.attempts)
      /\ \A g \in 1..Len(r.attempts) :
            t.attempts[g] = IF g = r.generation THEN a ELSE r.attempts[g]
  BY <1>1, ReplaceElement DEF Rewrites
<1>3. /\ Len(t.attempts) = t.generation
      /\ t.attemptCount = t.generation
      /\ t.generation \in Nat \ {0}
      /\ t.attempts[t.generation] = a
  BY <1>1, <1>2 DEF Rewrites
<1>4. ASSUME NEW g \in 1..t.generation, g # t.generation
      PROVE  /\ t.attempts[g] = r.attempts[g]
             /\ r.attempts[g].state \notin LiveStates
             /\ r.attempts[g].state # "complete"
             /\ \A i \in 1..Len(r.attempts[g].spans) :
                   r.attempts[g].spans[i].state # "started"
  <2>1. g \in 1..r.generation /\ g # r.generation
    BY <1>4 DEF Rewrites
  <2>2. t.attempts[g] = r.attempts[g]
    BY <1>1, <1>2, <2>1
  <2>3. r.attempts[g].state \notin LiveStates
    BY <2>1 DEF Sound, RowInv, LeaseMatchesAttempt
  <2>4. r.attempts[g].state # "complete"
    BY <2>1 DEF Sound, RowInv, OneSuccess
  <2>5. \A i \in 1..Len(r.attempts[g].spans) : r.attempts[g].spans[i].state # "started"
    BY <2>1 DEF Sound, RowInv, SpanDiscipline
  <2>. QED  BY <2>2, <2>3, <2>4, <2>5
<1>5. EvidenceKept(r, t)
  <2>1. ASSUME NEW g \in 1..Len(r.attempts)
        PROVE  /\ r.attempts[g].state \notin LiveStates => t.attempts[g] = r.attempts[g]
               /\ SpansKept(r.attempts[g].spans, t.attempts[g].spans)
    <3>1. CASE g = r.generation
      <4>1. t.attempts[g] = a /\ r.attempts[g] = AttemptOf(r, r.generation)
        BY <1>2, <3>1 DEF AttemptOf
      <4>2. AttemptOf(r, r.generation).state \in LiveStates
        BY <1>1 DEF Live
      <4>. QED  BY <4>1, <4>2
    <3>2. CASE g # r.generation
      <4>1. t.attempts[g] = r.attempts[g] /\ r.attempts[g] \in Attempt
        BY <1>1, <1>2, <3>2
      <4>. QED  BY <4>1 DEF SpansKept, Attempt
    <3>. QED  BY <3>1, <3>2
  <2>. QED  BY <1>1, <1>2, <2>1 DEF EvidenceKept, SpansKept
<1>. QED  BY <1>2, <1>3, <1>4, <1>5

\* Ending the current attempt of a live row, in a state that says whether
\* the job succeeded, with no span left open.
LEMMA EndLemma ==
    ASSUME NEW r, NEW t \in JobRows, NEW a \in Attempt, Sound(r), Live(r),
           Rewrites(r, t, a), SpansKept(AttemptOf(r, r.generation).spans, a.spans),
           \A i \in 1..Len(a.spans) : a.spans[i].state # "started",
           a.state \notin LiveStates, t.state \in {"queued", "failed", "complete"},
           a.state = "complete" <=> t.state = "complete",
           t.ttl = 0, t.stage = NoStage
    PROVE  Sound(t) /\ EvidenceKept(r, t)
<1>1. /\ Len(t.attempts) = t.generation
      /\ t.attemptCount = t.generation
      /\ t.generation \in Nat \ {0}
      /\ t.attempts[t.generation] = a
      /\ \A g \in 1..t.generation :
            g # t.generation => /\ t.attempts[g].state \notin LiveStates
                                /\ t.attempts[g].state # "complete"
                                /\ \A i \in 1..Len(t.attempts[g].spans) :
                                      t.attempts[g].spans[i].state # "started"
      /\ EvidenceKept(r, t)
  BY RewriteLemma, ZenonT(60)
<1>2. LeaseMatchesAttempt(t)
  BY <1>1 DEF LeaseMatchesAttempt, Live, LiveStates
<1>3. LeaseColumns(t) /\ NeverAttempted(t)
  BY DEF LeaseColumns, NeverAttempted
<1>4. OneSuccess(t)
  BY <1>1 DEF OneSuccess
<1>5. SpanDiscipline(t)
  BY <1>1 DEF SpanDiscipline
<1>. QED  BY <1>1, <1>2, <1>3, <1>4, <1>5 DEF Sound, RowInv

\* A stage transition of a live row: the job and its attempt run, and an
\* open span, if any, is the newest one and the current stage.
LEMMA RunLemma ==
    ASSUME NEW r, NEW t \in JobRows, NEW a \in Attempt, Sound(r), Live(r),
           Rewrites(r, t, a), SpansKept(AttemptOf(r, r.generation).spans, a.spans),
           a.state = "running", t.state = "running",
           \A i \in 1..Len(a.spans) :
               a.spans[i].state = "started"
                   => i = Len(a.spans) /\ t.stage = a.spans[i].stage,
           t.stage # NoStage =>
               \E i \in 1..Len(a.spans) :
                   a.spans[i] = [stage |-> t.stage, state |-> "started"]
    PROVE  Sound(t) /\ EvidenceKept(r, t)
<1>1. /\ Len(t.attempts) = t.generation
      /\ t.attemptCount = t.generation
      /\ t.generation \in Nat \ {0}
      /\ t.attempts[t.generation] = a
      /\ \A g \in 1..t.generation :
            g # t.generation => /\ t.attempts[g].state \notin LiveStates
                                /\ t.attempts[g].state # "complete"
                                /\ \A i \in 1..Len(t.attempts[g].spans) :
                                      t.attempts[g].spans[i].state # "started"
      /\ EvidenceKept(r, t)
  BY RewriteLemma, ZenonT(60)
<1>2. LeaseMatchesAttempt(t)
  BY <1>1 DEF LeaseMatchesAttempt
<1>3. LeaseColumns(t) /\ NeverAttempted(t)
  BY DEF LeaseColumns, NeverAttempted, Live, LiveStates
<1>4. OneSuccess(t)
  BY <1>1 DEF OneSuccess, LiveStates
<1>5. SpanDiscipline(t)
  <2>1. \A g \in 1..t.generation : \A i \in 1..Len(t.attempts[g].spans) :
           t.attempts[g].spans[i].state = "started"
               => /\ g = t.generation
                  /\ i = Len(t.attempts[g].spans)
                  /\ t.stage = t.attempts[g].spans[i].stage
    BY <1>1
  <2>2. t.stage # NoStage => OpenSpanIs(t, t.generation, t.stage)
    BY <1>1 DEF OpenSpanIs, AttemptOf
  <2>. QED  BY <1>1, <2>1, <2>2 DEF SpanDiscipline
<1>. QED  BY <1>1, <1>2, <1>3, <1>4, <1>5 DEF Sound, RowInv

-----------------------------------------------------------------------------
(* The transitions of a live row.                                          *)

\* Ending the current attempt closes its open span and nothing else.
LEMMA EndAttemptLemma ==
    ASSUME NEW r, Sound(r), Live(r),
           NEW st \in AttemptStates \ LiveStates,
           NEW t \in JobRows, t.attempts = EndAttempt(r, r.generation, st),
           t.generation = r.generation, t.attemptCount = r.attemptCount,
           t.state \in {"queued", "failed", "complete"},
           st = "complete" <=> t.state = "complete",
           t.ttl = 0, t.stage = NoStage
    PROVE  Sound(t) /\ EvidenceKept(r, t)
<1>. DEFINE a == [state |-> st, spans |-> CloseSpans(AttemptOf(r, r.generation).spans)]
<1>1. AttemptOf(r, r.generation).spans \in Seq(Span)
  BY CurrentLemma
<1>2. /\ a \in Attempt
      /\ a.state = st
      /\ SpansKept(AttemptOf(r, r.generation).spans, a.spans)
      /\ \A i \in 1..Len(a.spans) : a.spans[i].state # "started"
  BY <1>1, CloseSpansLemma DEF Attempt, SpansKept
<1>3. Rewrites(r, t, a)
  BY DEF Rewrites, EndAttempt
<1>. HIDE DEF a
<1>. QED  BY <1>2, <1>3, EndLemma

\* The attempts of a row whose current attempt ends are attempts.
LEMMA EndAttemptType ==
    ASSUME NEW r, Sound(r), Live(r), NEW st \in AttemptStates
    PROVE  EndAttempt(r, r.generation, st) \in Seq(Attempt)
<1>1. /\ r.attempts \in Seq(Attempt)
      /\ r.generation \in 1..Len(r.attempts)
      /\ AttemptOf(r, r.generation).spans \in Seq(Span)
  BY CurrentLemma DEF Sound, JobRows
<1>2. [state |-> st, spans |-> CloseSpans(AttemptOf(r, r.generation).spans)] \in Attempt
  BY <1>1, CloseSpansLemma DEF Attempt
<1>. QED  BY <1>1, <1>2, ReplaceElement DEF EndAttempt

\* _recover_expired_locked
LEMMA ExpireLemma ==
    ASSUME NEW r, Sound(r), Live(r), NEW pol \in Policies
    PROVE  Sound(Expire(r, pol)) /\ EvidenceKept(r, Expire(r, pol))
<1>. DEFINE t == Expire(r, pol)
<1>1. EndAttempt(r, r.generation, "expired") \in Seq(Attempt)
  BY EndAttemptType DEF AttemptStates
<1>2. /\ t \in JobRows
      /\ t.attempts = EndAttempt(r, r.generation, "expired")
      /\ t.generation = r.generation /\ t.attemptCount = r.attemptCount
      /\ t.state \in {"queued", "failed"}
      /\ t.ttl = 0 /\ t.stage = NoStage
  <2>1. RetryDelay(pol, r.attemptCount) \in Nat /\ pol.maxAttempts \in Nat
    BY RetryDelayLemma DEF Policies
  <2>. QED  BY <1>1, <2>1 DEF Expire, Sound, JobRows, JobStates
<1>3. Sound(t) /\ EvidenceKept(r, t)
  <2>. HIDE DEF t
  <2>. QED  BY <1>2, EndAttemptLemma DEF Live, LiveStates, AttemptStates
<1>. QED  BY <1>3

\* fail
LEMMA AbandonLemma ==
    ASSUME NEW r, Sound(r), Live(r), NEW pol \in Policies, NEW retry \in BOOLEAN,
           NEW class \in FailureClass \cup {NoClass}
    PROVE  /\ Sound(Abandon(r, r.generation, pol, retry, class))
           /\ EvidenceKept(r, Abandon(r, r.generation, pol, retry, class))
<1>. DEFINE t == Abandon(r, r.generation, pol, retry, class)
<1>1. EndAttempt(r, r.generation, "failed") \in Seq(Attempt)
  BY EndAttemptType DEF AttemptStates
<1>2. /\ t \in JobRows
      /\ t.attempts = EndAttempt(r, r.generation, "failed")
      /\ t.generation = r.generation /\ t.attemptCount = r.attemptCount
      /\ t.state \in {"queued", "failed"}
      /\ t.ttl = 0 /\ t.stage = NoStage
  <2>1. RetryDelay(pol, r.attemptCount) \in Nat
    BY RetryDelayLemma DEF Policies
  <2>. QED  BY <1>1, <2>1 DEF Abandon, Sound, JobRows, JobStates
<1>3. Sound(t) /\ EvidenceKept(r, t)
  <2>. HIDE DEF t
  <2>. QED  BY <1>2, EndAttemptLemma DEF Live, LiveStates, AttemptStates
<1>. QED  BY <1>3

\* requeue_interrupted_batch
LEMMA InterruptLemma ==
    ASSUME NEW r, Sound(r), Live(r)
    PROVE  Sound(Interrupt(r)) /\ EvidenceKept(r, Interrupt(r))
<1>. DEFINE t == Interrupt(r)
<1>1. EndAttempt(r, r.generation, "failed") \in Seq(Attempt)
  BY EndAttemptType DEF AttemptStates
<1>2. /\ t \in JobRows
      /\ t.attempts = EndAttempt(r, r.generation, "failed")
      /\ t.generation = r.generation /\ t.attemptCount = r.attemptCount
      /\ t.state = "queued"
      /\ t.ttl = 0 /\ t.stage = NoStage
  BY <1>1 DEF Interrupt, Sound, JobRows, JobStates
<1>3. Sound(t) /\ EvidenceKept(r, t)
  <2>. HIDE DEF t
  <2>. QED  BY <1>2, EndAttemptLemma DEF Live, LiveStates, AttemptStates
<1>. QED  BY <1>3

\* complete, which the code refuses while a span is open
LEMMA FinishLemma ==
    ASSUME NEW r, Sound(r), Live(r), ~HasOpenSpan(r, r.generation)
    PROVE  Sound(Finish(r, r.generation)) /\ EvidenceKept(r, Finish(r, r.generation))
<1>. DEFINE t == Finish(r, r.generation)
            a == [state |-> "complete", spans |-> AttemptOf(r, r.generation).spans]
<1>1. /\ AttemptOf(r, r.generation).spans \in Seq(Span)
      /\ r.generation \in 1..Len(r.attempts)
      /\ r.attempts \in Seq(Attempt)
  BY CurrentLemma DEF Sound, JobRows
<1>2. /\ a \in Attempt
      /\ a.state = "complete"
      /\ SpansKept(AttemptOf(r, r.generation).spans, a.spans)
      /\ \A i \in 1..Len(a.spans) : a.spans[i].state # "started"
  BY <1>1 DEF Attempt, AttemptStates, SpansKept, HasOpenSpan
<1>3. [r.attempts EXCEPT ![r.generation] = a] \in Seq(Attempt)
  BY <1>1, <1>2, ReplaceElement
<1>4. /\ t \in JobRows
      /\ Rewrites(r, t, a)
      /\ t.state = "complete"
      /\ t.ttl = 0 /\ t.stage = NoStage
  BY <1>3 DEF Finish, Rewrites, Sound, JobRows, JobStates
<1>5. Sound(t) /\ EvidenceKept(r, t)
  <2>. HIDE DEF t, a
  <2>. QED  BY <1>2, <1>4, EndLemma DEF Live, LiveStates
<1>. QED  BY <1>5

\* record_stage, which the code refuses for 'started' and 'skipped' while a
\* span is open: the new span is appended to closed ones.
LEMMA AppendSpanLemma ==
    ASSUME NEW r, Sound(r), Live(r), ~HasOpenSpan(r, r.generation), NEW span \in Span,
           NEW stage \in Stage \cup {NoStage},
           IF span.state = "started" THEN stage = span.stage ELSE stage = NoStage
    PROVE  LET t == WithSpans(r, r.generation, Append(AttemptOf(r, r.generation).spans, span), stage)
           IN  Sound(t) /\ EvidenceKept(r, t)
<1>. DEFINE spans == AttemptOf(r, r.generation).spans
            a == [state |-> "running", spans |-> Append(spans, span)]
            t == WithSpans(r, r.generation, Append(spans, span), stage)
<1>1. /\ spans \in Seq(Span)
      /\ r.generation \in 1..Len(r.attempts)
      /\ r.attempts \in Seq(Attempt)
  BY CurrentLemma DEF Sound, JobRows
<1>2. /\ a.spans \in Seq(Span)
      /\ Len(a.spans) = Len(spans) + 1
      /\ \A i \in 1..Len(spans) : a.spans[i] = spans[i]
      /\ a.spans[Len(a.spans)] = span
  BY <1>1, AppendElement
<1>3. \A i \in 1..Len(spans) : a.spans[i].state # "started"
  BY <1>2 DEF HasOpenSpan
<1>4. a \in Attempt /\ a.state = "running"
  BY <1>2 DEF Attempt, AttemptStates, LiveStates
<1>5. [r.attempts EXCEPT ![r.generation] = a] \in Seq(Attempt)
  BY <1>1, <1>4, ReplaceElement
<1>6. /\ t \in JobRows
      /\ Rewrites(r, t, a)
      /\ t.state = "running"
      /\ t.stage = stage
  BY <1>5 DEF WithSpans, Rewrites, Sound, JobRows, JobStates, LiveStates
<1>7. SpansKept(spans, a.spans)
  BY <1>1, <1>2 DEF SpansKept
<1>8. Len(spans) \in Nat
  BY <1>1
<1>. HIDE DEF a, t, spans
<1>9. \A i \in 1..Len(a.spans) :
         a.spans[i].state = "started"
             => i = Len(a.spans) /\ t.stage = a.spans[i].stage
  <2>. SUFFICES ASSUME NEW i \in 1..Len(a.spans), a.spans[i].state = "started"
                PROVE  i = Len(a.spans) /\ t.stage = a.spans[i].stage
    OBVIOUS
  <2>1. i = Len(a.spans)
    BY <1>2, <1>3, <1>8
  <2>. QED  BY <1>2, <1>6, <2>1
<1>10. t.stage # NoStage =>
         \E i \in 1..Len(a.spans) :
             a.spans[i] = [stage |-> t.stage, state |-> "started"]
  <2>. SUFFICES ASSUME t.stage # NoStage
                PROVE  a.spans[Len(a.spans)] = [stage |-> t.stage, state |-> "started"]
    BY <1>2, <1>8
  <2>. QED  BY <1>2, <1>6 DEF Span
<1>11. Sound(t) /\ EvidenceKept(r, t)
  BY <1>4, <1>6, <1>7, <1>9, <1>10, RunLemma DEF spans
<1>. QED  BY <1>11 DEF t, spans

\* record_stage 'started'
LEMMA StartSpanLemma ==
    ASSUME NEW r, Sound(r), Live(r), ~HasOpenSpan(r, r.generation), NEW stage \in Stage
    PROVE  Sound(StartSpan(r, r.generation, stage)) /\ EvidenceKept(r, StartSpan(r, r.generation, stage))
<1>. DEFINE span == [stage |-> stage, state |-> "started"]
<1>1. span \in Span /\ span.state = "started" /\ span.stage = stage
  BY DEF Span, SpanStates
<1>. HIDE DEF span
<1>2. LET t == WithSpans(r, r.generation, Append(AttemptOf(r, r.generation).spans, span), stage)
      IN  Sound(t) /\ EvidenceKept(r, t)
  BY <1>1, AppendSpanLemma
<1>. QED  BY <1>2 DEF StartSpan, span

\* record_stage 'skipped'
LEMMA SkipSpanLemma ==
    ASSUME NEW r, Sound(r), Live(r), ~HasOpenSpan(r, r.generation), NEW stage \in Stage
    PROVE  Sound(SkipSpan(r, r.generation, stage)) /\ EvidenceKept(r, SkipSpan(r, r.generation, stage))
<1>. DEFINE span == [stage |-> stage, state |-> "skipped"]
<1>1. span \in Span /\ span.state # "started"
  BY DEF Span, SpanStates
<1>. HIDE DEF span
<1>2. LET t == WithSpans(r, r.generation, Append(AttemptOf(r, r.generation).spans, span), NoStage)
      IN  Sound(t) /\ EvidenceKept(r, t)
  BY <1>1, AppendSpanLemma
<1>. QED  BY <1>2 DEF SkipSpan, span

\* record_stage 'completed' and 'failed': the open span, the newest one, is
\* closed and no span is left open.
LEMMA EndSpanLemma ==
    ASSUME NEW r, Sound(r), Live(r), NEW stage \in Stage,
           NEW status \in SpanStates \ {"started"}
    PROVE  /\ Sound(EndSpan(r, r.generation, stage, status))
           /\ EvidenceKept(r, EndSpan(r, r.generation, stage, status))
<1>. DEFINE spans == AttemptOf(r, r.generation).spans
            closed(i) == IF spans[i].state = "started"
                         THEN [stage |-> stage, state |-> status] ELSE spans[i]
            new == [i \in DOMAIN spans |-> closed(i)]
            a == [state |-> "running", spans |-> new]
            t == EndSpan(r, r.generation, stage, status)
<1>1. /\ spans \in Seq(Span)
      /\ r.generation \in 1..Len(r.attempts)
      /\ r.attempts \in Seq(Attempt)
  BY CurrentLemma DEF Sound, JobRows
<1>2. /\ Len(spans) \in Nat
      /\ DOMAIN spans = 1..Len(spans)
      /\ \A i \in 1..Len(spans) : spans[i] \in Span
  BY <1>1
<1>3. \A i \in 1..Len(spans) : closed(i) \in Span /\ closed(i).state # "started"
  BY <1>2 DEF Span
<1>4. new \in Seq(Span) /\ Len(new) = Len(spans)
  <2>. HIDE DEF closed, spans
  <2>. QED  BY <1>2, <1>3
<1>5. /\ \A i \in 1..Len(new) : new[i].state # "started"
      /\ SpansKept(spans, new)
  BY <1>2, <1>3, <1>4 DEF SpansKept
<1>. HIDE DEF new, closed
<1>6. a \in Attempt /\ a.state = "running" /\ a.spans = new
  BY <1>4 DEF Attempt, AttemptStates, LiveStates
<1>7. [r.attempts EXCEPT ![r.generation] = a] \in Seq(Attempt)
  BY <1>1, <1>6, ReplaceElement
<1>8. /\ t \in JobRows
      /\ Rewrites(r, t, a)
      /\ t.state = "running"
      /\ t.stage = NoStage
  BY <1>7 DEF EndSpan, WithSpans, Rewrites, Sound, JobRows, JobStates, LiveStates,
              new, closed
<1>9. Sound(t) /\ EvidenceKept(r, t)
  <2>. HIDE DEF a, t
  <2>. QED  BY <1>5, <1>6, <1>8, RunLemma
<1>. QED  BY <1>9

-----------------------------------------------------------------------------
(* Claiming, and the transitions that leave the attempts alone.            *)

\* claim: a row at rest has only ended attempts, so the new attempt is the
\* only live one.
LEMMA GrantLemma ==
    ASSUME NEW r, Sound(r), r.state = "queued", NEW pol \in Policies
    PROVE  Sound(Grant(r, pol)) /\ EvidenceKept(r, Grant(r, pol))
<1>. DEFINE a == [state |-> "leased", spans |-> <<>>]
            t == Grant(r, pol)
<1>1. /\ r \in JobRows
      /\ r.attempts \in Seq(Attempt)
      /\ r.generation \in Nat
      /\ Len(r.attempts) = r.generation
      /\ r.attemptCount = r.generation
      /\ r.stage = NoStage
  BY DEF Sound, RowInv, LeaseMatchesAttempt, LeaseColumns, JobRows, Live, LiveStates
<1>2. a \in Attempt
  BY DEF Attempt, AttemptStates, LiveStates
<1>3. /\ Append(r.attempts, a) \in Seq(Attempt)
      /\ Len(Append(r.attempts, a)) = r.generation + 1
      /\ \A g \in 1..r.generation : Append(r.attempts, a)[g] = r.attempts[g]
      /\ Append(r.attempts, a)[r.generation + 1] = a
  BY <1>1, <1>2, AppendElement
<1>4. /\ t.attempts = Append(r.attempts, a)
      /\ t.generation = r.generation + 1
      /\ t.attemptCount = r.generation + 1
      /\ t.state = "leased"
      /\ t.stage = NoStage
  BY <1>1 DEF Grant, JobRows
<1>5. t \in JobRows
  <2>1. pol.leaseSeconds \in Nat
    BY DEF Policies
  <2>2. t.attempts \in Seq(Attempt) /\ t.generation \in Nat /\ t.attemptCount \in Nat
    BY <1>1, <1>3, <1>4
  <2>. HIDE DEF a
  <2>. QED  BY <1>1, <2>1, <2>2 DEF Grant, JobRows, JobStates, LiveStates
<1>. HIDE DEF t
<1>6. \A g \in 1..r.generation :
         /\ t.attempts[g] = r.attempts[g]
         /\ r.attempts[g].state \notin LiveStates
         /\ r.attempts[g].state # "complete"
         /\ \A i \in 1..Len(r.attempts[g].spans) :
               r.attempts[g].spans[i].state # "started"
  <2>1. \A g \in 1..r.generation : r.attempts[g].state \notin LiveStates
    BY DEF Sound, RowInv, LeaseMatchesAttempt, LiveStates
  <2>2. \A g \in 1..r.generation : r.attempts[g].state # "complete"
    BY DEF Sound, RowInv, OneSuccess
  <2>3. \A g \in 1..r.generation : \A i \in 1..Len(r.attempts[g].spans) :
           r.attempts[g].spans[i].state # "started"
    BY DEF Sound, RowInv, SpanDiscipline
  <2>. QED  BY <1>3, <1>4, <2>1, <2>2, <2>3
<1>7. LeaseMatchesAttempt(t)
  BY <1>1, <1>3, <1>4, <1>6 DEF LeaseMatchesAttempt, Live, LiveStates
<1>8. LeaseColumns(t) /\ NeverAttempted(t)
  BY <1>4 DEF LeaseColumns, NeverAttempted, Live, LiveStates
<1>9. OneSuccess(t)
  BY <1>1, <1>3, <1>4, <1>6 DEF OneSuccess
<1>10. SpanDiscipline(t)
  <2>1. Len(t.attempts[t.generation].spans) = 0
    BY <1>3, <1>4
  <2>. QED  BY <1>1, <1>4, <1>6, <2>1 DEF SpanDiscipline
<1>11. EvidenceKept(r, t)
  BY <1>1, <1>3, <1>4, <1>6 DEF EvidenceKept
<1>. QED  BY <1>5, <1>7, <1>8, <1>9, <1>10, <1>11 DEF Sound, RowInv, t

\* A row with the same attempts and lease as a sound one, live only if the
\* other is live in the same state, is sound.
LEMMA SameAttemptsLemma ==
    ASSUME NEW r, Sound(r), NEW t \in JobRows,
           t.attempts = r.attempts, t.generation = r.generation,
           t.attemptCount = r.attemptCount, t.stage = r.stage,
           \/ t.state = r.state
           \/ /\ r.state \in {"queued", "failed"}
              /\ t.state \in {"queued", "failed"},
           ~Live(t) => t.ttl = 0
    PROVE  Sound(t) /\ EvidenceKept(r, t)
<1>1. LeaseMatchesAttempt(t)
  BY DEF Sound, RowInv, LeaseMatchesAttempt, Live, LiveStates
<1>2. LeaseColumns(t) /\ NeverAttempted(t)
  BY DEF Sound, RowInv, LeaseColumns, NeverAttempted, Live, LiveStates
<1>3. OneSuccess(t)
  BY DEF Sound, RowInv, OneSuccess
<1>4. SpanDiscipline(t)
  <2>1. OpenSpanIs(r, r.generation, r.stage) => OpenSpanIs(t, t.generation, t.stage)
    BY DEF OpenSpanIs, AttemptOf
  <2>2. SpanDiscipline(r)
    BY DEF Sound, RowInv
  <2>. QED  BY <2>1, <2>2 DEF SpanDiscipline
<1>5. EvidenceKept(r, t)
  <2>1. \A g \in 1..Len(r.attempts) : Len(r.attempts[g].spans) \in Nat
    BY DEF Sound, JobRows, Attempt
  <2>. QED  BY <2>1 DEF EvidenceKept, Sound, JobRows
<1>. QED  BY <1>1, <1>2, <1>3, <1>4, <1>5 DEF Sound, RowInv

\* renew
LEMMA ExtendLemma ==
    ASSUME NEW r, Sound(r), Live(r), NEW pol \in Policies
    PROVE  Sound(Extend(r, pol)) /\ EvidenceKept(r, Extend(r, pol))
<1>. DEFINE t == Extend(r, pol)
<1>1. pol.leaseSeconds \in Nat
  BY DEF Policies
<1>2. /\ t \in JobRows
      /\ t.attempts = r.attempts /\ t.generation = r.generation
      /\ t.attemptCount = r.attemptCount /\ t.stage = r.stage
      /\ t.state = r.state
  BY <1>1 DEF Extend, Sound, JobRows
<1>3. Live(t)
  BY <1>2 DEF Live
<1>4. Sound(t) /\ EvidenceKept(r, t)
  <2>. HIDE DEF t
  <2>. QED  BY <1>2, <1>3, SameAttemptsLemma
<1>. QED  BY <1>4

\* Time passes.
LEMMA AgeLemma ==
    ASSUME NEW r, Sound(r)
    PROVE  Sound(Age(r)) /\ EvidenceKept(r, Age(r))
<1>. DEFINE t == Age(r)
<1>1. /\ t \in JobRows
      /\ t.attempts = r.attempts /\ t.generation = r.generation
      /\ t.attemptCount = r.attemptCount /\ t.stage = r.stage
      /\ t.state = r.state
      /\ r.ttl = 0 => t.ttl = 0
  <2>1. /\ r \in JobRows
        /\ (IF r.ttl = 0 THEN 0 ELSE r.ttl - 1) \in Nat
        /\ (IF r.wait = 0 THEN 0 ELSE r.wait - 1) \in Nat
    BY DEF Sound, JobRows
  <2>. QED  BY <2>1 DEF Age, JobRows
<1>2. ~Live(t) => t.ttl = 0
  BY <1>1 DEF Live, Sound, RowInv, LeaseColumns
<1>3. Sound(t) /\ EvidenceKept(r, t)
  <2>. HIDE DEF t
  <2>. QED  BY <1>1, <1>2, SameAttemptsLemma
<1>. QED  BY <1>3

\* sync_queue (active is set), quarantine_pathological_jobs,
\* requeue_failed_batch and release_pathological_quarantine
LEMMA RestLemma ==
    ASSUME NEW r, Sound(r), NEW b \in BOOLEAN,
           NEW t \in {[r EXCEPT !.active = b], Isolate(r), Reopen(r)}
    PROVE  Sound(t) /\ EvidenceKept(r, t)
<1>1. /\ t \in JobRows
      /\ t.attempts = r.attempts /\ t.generation = r.generation
      /\ t.attemptCount = r.attemptCount /\ t.stage = r.stage
      /\ t.ttl = r.ttl
      /\ \/ t.state = r.state
         \/ /\ r.state \in {"queued", "failed"}
            /\ t.state \in {"queued", "failed"}
  <2>1. r \in JobRows
    BY DEF Sound
  <2>2. CASE t = [r EXCEPT !.active = b]
    BY <2>1, <2>2 DEF JobRows
  <2>3. CASE t = Isolate(r)
    <3>1. CASE r.state = "queued"
      BY <2>1, <2>3, <3>1 DEF Isolate, JobRows, JobStates
    <3>2. CASE r.state # "queued"
      BY <2>1, <2>3, <3>2 DEF Isolate
    <3>. QED  BY <3>1, <3>2
  <2>4. CASE t = Reopen(r)
    <3>1. CASE r.state = "failed"
      BY <2>1, <2>4, <3>1 DEF Reopen, JobRows, JobStates
    <3>2. CASE r.state # "failed"
      BY <2>1, <2>4, <3>2 DEF Reopen
    <3>. QED  BY <3>1, <3>2
  <2>. QED  BY <2>2, <2>3, <2>4
<1>2. ~Live(t) => t.ttl = 0
  BY <1>1 DEF Live, LiveStates, Sound, RowInv, LeaseColumns
<1>. QED  BY <1>1, <1>2, SameAttemptsLemma

\* A row without attempts that is not live.
LEMMA NewRowLemma ==
    ASSUME NEW r \in {NewRow(TRUE), NewRow(FALSE), AbsentRow}
    PROVE  Sound(r) /\ r.attempts = <<>>
<1>1. /\ r \in JobRows
      /\ r.attempts = <<>> /\ r.generation = 0 /\ r.attemptCount = 0
      /\ r.ttl = 0 /\ r.stage = NoStage
      /\ r.state \in {"absent", "queued", "blocked"}
  <2>1. ASSUME NEW b \in BOOLEAN
        PROVE  /\ NewRow(b) \in JobRows
               /\ NewRow(b).attempts = <<>> /\ NewRow(b).generation = 0
               /\ NewRow(b).attemptCount = 0 /\ NewRow(b).ttl = 0
               /\ NewRow(b).stage = NoStage
               /\ NewRow(b).state \in {"queued", "blocked"}
    BY DEF NewRow, JobRows, JobStates
  <2>2. CASE r = AbsentRow
    BY <2>1, <2>2 DEF AbsentRow, JobRows, JobStates
  <2>. QED  BY <2>1, <2>2
<1>2. RowInv(r)
  BY <1>1 DEF RowInv, NeverAttempted, LeaseMatchesAttempt, LeaseColumns, OneSuccess, SpanDiscipline,
              Live, LiveStates
<1>. QED  BY <1>1, <1>2 DEF Sound

-----------------------------------------------------------------------------
(* Tables.                                                                 *)

Inv == TypeOK /\ LedgerConsistent

\* A step is sound when every row it leaves is, and loses no evidence.
SoundStep ==
    /\ jobs' \in [Job -> JobRows]
    /\ \A j \in Job : Sound(jobs'[j]) /\ EvidenceKept(jobs[j], jobs'[j])

LEMMA InvSound == Inv => jobs \in [Job -> JobRows] /\ \A j \in Job : Sound(jobs[j])
BY DEF Inv, TypeOK, LedgerConsistent, Sound

LEMMA EvidenceReflexive ==
    ASSUME NEW r, Sound(r) PROVE EvidenceKept(r, r)
<1>1. r \in JobRows /\ (~Live(r) => r.ttl = 0)
  BY DEF Sound, RowInv, LeaseColumns
<1>. QED  BY <1>1, SameAttemptsLemma

LEMMA EvidenceTransitive ==
    ASSUME NEW r, NEW s, NEW t, Sound(r), Sound(s), Sound(t),
           EvidenceKept(r, s), EvidenceKept(s, t)
    PROVE  EvidenceKept(r, t)
<1>1. /\ r.attempts \in Seq(Attempt)
      /\ s.attempts \in Seq(Attempt)
      /\ t.attempts \in Seq(Attempt)
  BY DEF Sound, JobRows
<1>2. /\ Len(r.attempts) \in Nat /\ Len(s.attempts) \in Nat /\ Len(t.attempts) \in Nat
      /\ Len(r.attempts) <= Len(s.attempts)
      /\ Len(s.attempts) <= Len(t.attempts)
  BY <1>1 DEF EvidenceKept
<1>3. ASSUME NEW g \in 1..Len(r.attempts)
      PROVE  /\ r.attempts[g].state \notin LiveStates => t.attempts[g] = r.attempts[g]
             /\ Len(r.attempts[g].spans) <= Len(t.attempts[g].spans)
             /\ \A i \in 1..Len(r.attempts[g].spans) :
                   r.attempts[g].spans[i].state # "started"
                       => t.attempts[g].spans[i] = r.attempts[g].spans[i]
  <2>1. g \in 1..Len(s.attempts) /\ g \in 1..Len(t.attempts)
    BY <1>2
  <2>2. /\ Len(r.attempts[g].spans) \in Nat
        /\ Len(s.attempts[g].spans) \in Nat
        /\ Len(t.attempts[g].spans) \in Nat
    <3>1. /\ r.attempts[g] \in Attempt
          /\ s.attempts[g] \in Attempt
          /\ t.attempts[g] \in Attempt
      BY <1>1, <2>1
    <3>2. /\ r.attempts[g].spans \in Seq(Span)
          /\ s.attempts[g].spans \in Seq(Span)
          /\ t.attempts[g].spans \in Seq(Span)
      BY <3>1 DEF Attempt
    <3>3. \A q \in Seq(Span) : Len(q) \in Nat
      OBVIOUS
    <3>. QED  BY <3>2, <3>3
  <2>3. /\ r.attempts[g].state \notin LiveStates => s.attempts[g] = r.attempts[g]
        /\ Len(r.attempts[g].spans) <= Len(s.attempts[g].spans)
        /\ \A i \in 1..Len(r.attempts[g].spans) :
              r.attempts[g].spans[i].state # "started"
                  => s.attempts[g].spans[i] = r.attempts[g].spans[i]
    BY DEF EvidenceKept
  <2>4. /\ s.attempts[g].state \notin LiveStates => t.attempts[g] = s.attempts[g]
        /\ Len(s.attempts[g].spans) <= Len(t.attempts[g].spans)
        /\ \A i \in 1..Len(s.attempts[g].spans) :
              s.attempts[g].spans[i].state # "started"
                  => t.attempts[g].spans[i] = s.attempts[g].spans[i]
    BY <2>1 DEF EvidenceKept
  <2>5. ASSUME NEW i \in 1..Len(r.attempts[g].spans),
               r.attempts[g].spans[i].state # "started"
        PROVE  t.attempts[g].spans[i] = r.attempts[g].spans[i]
    <3>1. i \in 1..Len(s.attempts[g].spans)
      BY <2>2, <2>3
    <3>2. s.attempts[g].spans[i] = r.attempts[g].spans[i]
      BY <2>3, <2>5
    <3>. QED  BY <2>4, <2>5, <3>1, <3>2
  <2>6. r.attempts[g].state \notin LiveStates => t.attempts[g] = r.attempts[g]
    BY <2>3, <2>4
  <2>7. Len(r.attempts[g].spans) <= Len(t.attempts[g].spans)
    <3>1. \A k, l, m \in Nat : k <= l /\ l <= m => k <= m
      OBVIOUS
    <3>. QED  BY <2>2, <2>3, <2>4, <3>1
  <2>. QED  BY <2>5, <2>6, <2>7
<1>. QED  BY <1>2, <1>3 DEF EvidenceKept

\* The sweep over expired leases that starts most transactions.
LEMMA RecoveredLemma ==
    ASSUME Inv
    PROVE  /\ Recovered(jobs) \in [Job -> JobRows]
           /\ \A j \in Job : /\ Sound(Recovered(jobs)[j])
                             /\ EvidenceKept(jobs[j], Recovered(jobs)[j])
<1>1. \A j \in Job : Sound(jobs[j])
  BY InvSound
<1>2. policy \in Policies
  BY DEF Inv, TypeOK
<1>3. ASSUME NEW j \in Job
      PROVE  /\ Sound(Recovered(jobs)[j])
             /\ EvidenceKept(jobs[j], Recovered(jobs)[j])
  <2>1. CASE Expired(jobs[j])
    <3>1. Recovered(jobs)[j] = Expire(jobs[j], policy)
      BY <2>1 DEF Recovered
    <3>2. Live(jobs[j])
      BY <2>1 DEF Expired
    <3>. QED  BY <1>1, <1>2, <3>1, <3>2, ExpireLemma
  <2>2. CASE ~Expired(jobs[j])
    <3>1. Recovered(jobs)[j] = jobs[j]
      BY <2>2 DEF Recovered
    <3>. QED  BY <1>1, <3>1, EvidenceReflexive
  <2>. QED  BY <2>1, <2>2
<1>4. Recovered(jobs) = [j \in Job |-> Recovered(jobs)[j]]
  BY DEF Recovered
<1>. HIDE DEF Recovered
<1>5. Recovered(jobs) \in [Job -> JobRows]
  BY <1>3, <1>4 DEF Sound
<1>. QED  BY <1>3, <1>5

\* A fenced write of a sound row, with the recovery before it.
LEMMA FencedLemma ==
    ASSUME Inv, NEW j \in Job, NEW row, Sound(row), EvidenceKept(jobs[j], row),
           jobs' = [Recovered(jobs) EXCEPT ![j] = row]
    PROVE  SoundStep
<1>1. Recovered(jobs) \in [Job -> JobRows]
  BY RecoveredLemma
<1>2. /\ jobs'[j] = row
      /\ \A k \in Job \ {j} : jobs'[k] = Recovered(jobs)[k]
      /\ jobs' \in [Job -> JobRows]
  <2>. HIDE DEF Recovered
  <2>. QED  BY <1>1 DEF Sound
<1>. QED  BY <1>2, RecoveredLemma DEF SoundStep

\* A step that maps every row to itself or to a sound successor.
LEMMA MappedLemma ==
    ASSUME Inv, jobs' = [j \in Job |-> jobs'[j]],
           \A j \in Job : \/ jobs'[j] = jobs[j]
                          \/ Sound(jobs'[j]) /\ EvidenceKept(jobs[j], jobs'[j])
    PROVE  SoundStep
<1>1. \A j \in Job : Sound(jobs[j]) /\ EvidenceKept(jobs[j], jobs[j])
  BY InvSound, EvidenceReflexive
<1>2. \A j \in Job : Sound(jobs'[j]) /\ EvidenceKept(jobs[j], jobs'[j])
  BY <1>1
<1>3. jobs' \in [Job -> JobRows]
  BY <1>2 DEF Sound
<1>. QED  BY <1>2, <1>3 DEF SoundStep

LEMMA UnchangedLemma ==
    ASSUME Inv, jobs' = jobs
    PROVE  SoundStep
<1>1. jobs \in [Job -> JobRows]
  BY InvSound
<1>. QED  BY <1>1, InvSound, EvidenceReflexive DEF SoundStep

\* Operator recovery of a set of jobs at rest.
LEMMA RestStep ==
    ASSUME Inv, NEW set,
           \/ jobs' = [j \in Job |-> IF j \in set THEN Isolate(jobs[j]) ELSE jobs[j]]
           \/ jobs' = [j \in Job |-> IF j \in set THEN Reopen(jobs[j]) ELSE jobs[j]]
    PROVE  SoundStep
<1>1. jobs' = [j \in Job |-> jobs'[j]]
  OBVIOUS
<1>2. ASSUME NEW j \in Job
      PROVE  \/ jobs'[j] = jobs[j]
             \/ Sound(jobs'[j]) /\ EvidenceKept(jobs[j], jobs'[j])
  <2>1. Sound(jobs[j])
    BY InvSound
  <2>2. \/ jobs'[j] = jobs[j]
        \/ jobs'[j] \in {[jobs[j] EXCEPT !.active = TRUE], Isolate(jobs[j]), Reopen(jobs[j])}
    OBVIOUS
  <2>. QED  BY <2>1, <2>2, RestLemma
<1>. QED  BY <1>1, <1>2, MappedLemma

-----------------------------------------------------------------------------
(* Every step of Next is sound.                                            *)

\* What _require_lease_locked establishes for the row it admits.
LEMMA HoldsLeaseLemma ==
    ASSUME Inv, NEW j \in Job, NEW g, HoldsLease(j, g)
    PROVE  /\ Sound(jobs[j]) /\ Live(jobs[j]) /\ g = jobs[j].generation
           /\ policy \in Policies
BY InvSound DEF HoldsLease, Inv, TypeOK

LEMMA ClaimSound ==
    ASSUME Inv, NEW j \in Job, NEW batches, NEW pool, Claim(j, batches, pool)
    PROVE  SoundStep
<1>. DEFINE rows == Recovered(jobs)
<1>1. /\ rows[j].state = "queued"
      /\ jobs' = [rows EXCEPT ![j] = Grant(rows[j], policy)]
  BY DEF Claim, Claimable
<1>2. /\ Sound(jobs[j])
      /\ Sound(rows[j])
      /\ EvidenceKept(jobs[j], rows[j])
  BY InvSound, RecoveredLemma
<1>3. policy \in Policies
  BY DEF Inv, TypeOK
<1>4. Sound(Grant(rows[j], policy)) /\ EvidenceKept(rows[j], Grant(rows[j], policy))
  <2>. HIDE DEF rows
  <2>. QED  BY <1>1, <1>2, <1>3, GrantLemma
<1>5. EvidenceKept(jobs[j], Grant(rows[j], policy))
  <2>. HIDE DEF rows
  <2>. QED  BY <1>2, <1>4, EvidenceTransitive
<1>. QED  BY <1>1, <1>4, <1>5, FencedLemma

LEMMA LeaseStepSound ==
    ASSUME Inv, NEW j \in Job, NEW g, LeaseStep(j, g)
    PROVE  SoundStep
<1>1. CASE Renew(j, g)
  <2>1. Sound(jobs[j]) /\ Live(jobs[j]) /\ policy \in Policies
    BY <1>1, HoldsLeaseLemma DEF Renew
  <2>. QED  BY <1>1, <2>1, ExtendLemma, FencedLemma DEF Renew, FencedWrite
<1>2. ASSUME NEW stage \in Stage, RecordStarted(j, g, stage)
      PROVE  SoundStep
  <2>1. Sound(jobs[j]) /\ Live(jobs[j]) /\ g = jobs[j].generation
    BY <1>2, HoldsLeaseLemma DEF RecordStarted
  <2>. QED  BY <1>2, <2>1, StartSpanLemma, FencedLemma DEF RecordStarted, FencedWrite
<1>3. ASSUME NEW stage \in Stage, RecordSkipped(j, g, stage)
      PROVE  SoundStep
  <2>1. Sound(jobs[j]) /\ Live(jobs[j]) /\ g = jobs[j].generation
    BY <1>3, HoldsLeaseLemma DEF RecordSkipped
  <2>. QED  BY <1>3, <2>1, SkipSpanLemma, FencedLemma DEF RecordSkipped, FencedWrite
<1>4. ASSUME NEW stage \in Stage, NEW status \in {"completed", "failed"},
             RecordEnded(j, g, stage, status)
      PROVE  SoundStep
  <2>1. Sound(jobs[j]) /\ Live(jobs[j]) /\ g = jobs[j].generation
    BY <1>4, HoldsLeaseLemma DEF RecordEnded
  <2>2. status \in SpanStates \ {"started"}
    BY DEF SpanStates
  <2>. QED  BY <1>4, <2>1, <2>2, EndSpanLemma, FencedLemma DEF RecordEnded, FencedWrite
<1>5. CASE Complete(j, g)
  <2>1. Sound(jobs[j]) /\ Live(jobs[j]) /\ g = jobs[j].generation
    BY <1>5, HoldsLeaseLemma DEF Complete
  <2>. QED  BY <1>5, <2>1, FinishLemma, FencedLemma DEF Complete, FencedWrite
<1>6. ASSUME NEW retryable \in BOOLEAN, NEW pathological \in BOOLEAN,
             NEW class \in FailureClass \cup {NoClass},
             Fail(j, g, retryable, pathological, class)
      PROVE  SoundStep
  <2>. DEFINE retry == ~pathological /\ retryable /\ Retries(jobs[j], policy)
  <2>1. /\ Sound(jobs[j]) /\ Live(jobs[j]) /\ g = jobs[j].generation
        /\ policy \in Policies
    BY <1>6, HoldsLeaseLemma DEF Fail
  <2>2. retry \in BOOLEAN
    BY DEF Retries
  <2>3. jobs' = [Recovered(jobs) EXCEPT ![j] = Abandon(jobs[j], g, policy, retry, class)]
    BY <1>6 DEF Fail
  <2>. HIDE DEF retry
  <2>. QED  BY <2>1, <2>2, <2>3, AbandonLemma, FencedLemma
<1>. QED  BY <1>1, <1>2, <1>3, <1>4, <1>5, <1>6 DEF LeaseStep

LEMMA SyncQueueSound ==
    ASSUME Inv, NEW c \in Configs, SyncQueue(c)
    PROVE  SoundStep
<1>1. ASSUME NEW j \in Job
      PROVE  Sound(jobs'[j]) /\ EvidenceKept(jobs[j], jobs'[j])
  <2>1. Sound(jobs[j])
    BY InvSound
  <2>2. CASE j \in Selected(c) /\ jobs[j].state = "absent"
    <3>1. jobs'[j] = NewRow(j \in Planned)
      BY <2>2 DEF SyncQueue
    <3>2. Sound(jobs'[j]) /\ jobs'[j].attempts = <<>>
      <4>1. CASE j \in Planned
        <5>1. (j \in Planned) = TRUE
          BY <4>1
        <5>. QED  BY <3>1, <5>1, NewRowLemma
      <4>2. CASE j \notin Planned
        <5>1. (j \in Planned) = FALSE
          BY <4>2
        <5>. QED  BY <3>1, <5>1, NewRowLemma
      <4>. QED  BY <4>1, <4>2
    <3>3. Len(jobs[j].attempts) = 0
      BY <2>1, <2>2 DEF Sound, RowInv, NeverAttempted, LeaseMatchesAttempt
    <3>. QED  BY <3>2, <3>3 DEF EvidenceKept
  <2>3. CASE ~(j \in Selected(c) /\ jobs[j].state = "absent")
    <3>1. jobs'[j] = [jobs[j] EXCEPT !.active = j \in Selected(c)]
      BY <2>3 DEF SyncQueue
    <3>. DEFINE active == j \in Selected(c)
    <3>2. active \in BOOLEAN /\ jobs'[j] = [jobs[j] EXCEPT !.active = active]
      BY <3>1
    <3>. HIDE DEF active
    <3>3. jobs'[j] \in {[jobs[j] EXCEPT !.active = active], Isolate(jobs[j]), Reopen(jobs[j])}
      BY <3>2
    <3>. QED  BY <2>1, <3>2, <3>3, RestLemma
  <2>. QED  BY <2>2, <2>3
<1>2. jobs' = [j \in Job |-> jobs'[j]]
  BY DEF SyncQueue
<1>. QED  BY <1>1, <1>2, MappedLemma

LEMMA OperatorStepSound ==
    ASSUME Inv, OperatorStep
    PROVE  SoundStep
<1>1. ASSUME NEW c \in Configs, SyncQueue(c) \/ ReconfigureRuntime(c) \/ DisarmForRecovery(c)
      PROVE  SoundStep
  <2>1. CASE SyncQueue(c)
    BY <2>1, SyncQueueSound
  <2>2. CASE ReconfigureRuntime(c) \/ DisarmForRecovery(c)
    BY <2>2, UnchangedLemma DEF ReconfigureRuntime, DisarmForRecovery
  <2>. QED  BY <1>1, <2>1, <2>2
<1>2. CASE Pause \/ Resume
  BY <1>2, UnchangedLemma DEF Pause, Resume
<1>3. ASSUME NEW b \in Batch, NEW set \in SUBSET Job, QuarantinePathologicalJobs(b, set)
      PROVE  SoundStep
  <2>1. jobs' = [j \in Job |-> IF j \in set THEN Isolate(jobs[j]) ELSE jobs[j]]
    BY <1>3 DEF QuarantinePathologicalJobs
  <2>. QED  BY <2>1, RestStep
<1>4. ASSUME NEW b \in Batch, ReleasePathologicalQuarantine(b)
      PROVE  SoundStep
  <2>1. PICK set : jobs' = [j \in Job |-> IF j \in set THEN Reopen(jobs[j]) ELSE jobs[j]]
    BY <1>4 DEF ReleasePathologicalQuarantine
  <2>. QED  BY <2>1, RestStep
<1>5. ASSUME NEW b \in Batch, RequeueFailedBatch(b)
      PROVE  SoundStep
  <2>1. PICK set : jobs' = [j \in Job |-> IF j \in set THEN Reopen(jobs[j]) ELSE jobs[j]]
    BY <1>5 DEF RequeueFailedBatch
  <2>. QED  BY <2>1, RestStep
<1>6. ASSUME NEW b \in Batch, RequeueInterruptedBatch(b)
      PROVE  SoundStep
  <2>1. jobs' = [j \in Job |-> IF Live(jobs[j]) THEN Interrupt(jobs[j]) ELSE jobs[j]]
    BY <1>6 DEF RequeueInterruptedBatch
  <2>2. jobs' = [j \in Job |-> jobs'[j]]
    BY <2>1
  <2>3. ASSUME NEW j \in Job
        PROVE  \/ jobs'[j] = jobs[j]
               \/ Sound(jobs'[j]) /\ EvidenceKept(jobs[j], jobs'[j])
    <3>1. CASE Live(jobs[j])
      <4>1. jobs'[j] = Interrupt(jobs[j])
        BY <2>1, <3>1
      <4>2. Sound(jobs[j])
        BY InvSound
      <4>. QED  BY <3>1, <4>1, <4>2, InterruptLemma
    <3>2. CASE ~Live(jobs[j])
      BY <2>1, <3>2
    <3>. QED  BY <3>1, <3>2
  <2>. QED  BY <2>2, <2>3, MappedLemma
<1>. QED  BY <1>1, <1>2, <1>3, <1>4, <1>5, <1>6 DEF OperatorStep

LEMMA NextSound ==
    ASSUME Inv, [Next]_vars
    PROVE  SoundStep
<1>1. CASE Tick
  <2>1. jobs' = [j \in Job |-> Age(jobs[j])]
    BY <1>1 DEF Tick
  <2>2. jobs' = [j \in Job |-> jobs'[j]]
    BY <2>1
  <2>3. ASSUME NEW j \in Job
        PROVE  Sound(jobs'[j]) /\ EvidenceKept(jobs[j], jobs'[j])
    <3>1. jobs'[j] = Age(jobs[j]) /\ Sound(jobs[j])
      BY <2>1, InvSound
    <3>. QED  BY <3>1, AgeLemma
  <2>. QED  BY <2>2, <2>3, MappedLemma
<1>2. CASE RecoverExpired
  <2>1. jobs' = Recovered(jobs)
    BY <1>2 DEF RecoverExpired
  <2>. QED  BY <2>1, RecoveredLemma DEF SoundStep
<1>3. ASSUME NEW batches \in SUBSET Batch, NEW pool \in Pools, NEW j \in Job,
             Claim(j, batches, pool)
      PROVE  SoundStep
  BY <1>3, ClaimSound
<1>4. ASSUME NEW j \in Job, NEW g \in 1..jobs[j].generation, LeaseStep(j, g)
      PROVE  SoundStep
  BY <1>4, LeaseStepSound
<1>5. CASE BlockStep
  BY <1>5, UnchangedLemma
     DEF BlockStep, StartNextBlock, AdmitLookaheadBlock, FinishActiveBlockIfDrained
<1>6. CASE OperatorStep
  BY <1>6, OperatorStepSound
<1>7. CASE UNCHANGED vars
  BY <1>7, UnchangedLemma DEF vars
<1>. QED  BY <1>1, <1>2, <1>3, <1>4, <1>5, <1>6, <1>7 DEF Next, ClaimStep

-----------------------------------------------------------------------------
(* The theorems.                                                           *)

LEMMA SyncQueueType ==
    ASSUME TypeOK, NEW c \in Configs, SyncQueue(c)
    PROVE  /\ order' \in Seq(Batch) /\ armed' \in BOOLEAN /\ policy' \in Policies
           /\ primary' \in Batch \cup {NoBatch}
           /\ lookahead' \in Batch \cup {NoBatch}
<1>1. c \in ConfigType
  BY ConfigAssumption
<1>2. c.order \in Seq(Batch) /\ c.armed \in BOOLEAN /\ c.policy \in Policies
  BY <1>1 DEF ConfigType
<1>. QED  BY <1>2 DEF SyncQueue, KeepIfListed, TypeOK

\* The columns of coordinator_state keep their types; quarantine rows name jobs.
LEMMA StateType ==
    ASSUME Inv, [Next]_vars
    PROVE  /\ quarantined' \subseteq Job /\ order' \in Seq(Batch)
           /\ armed' \in BOOLEAN /\ paused' \in BOOLEAN /\ policy' \in Policies
           /\ primary' \in Batch \cup {NoBatch}
           /\ lookahead' \in Batch \cup {NoBatch}
           /\ lastAdmission' \in Admission \cup {NoAdmission}
<1>. USE DEF Inv, TypeOK
<1>1. CASE Tick \/ RecoverExpired \/ UNCHANGED vars
  BY <1>1 DEF Tick, RecoverExpired, vars, state, admissions
<1>2. ASSUME NEW batches \in SUBSET Batch, NEW pool \in Pools, NEW j \in Job,
             Claim(j, batches, pool)
      PROVE  UNCHANGED <<quarantined, state, admissions>>
  BY <1>2 DEF Claim
<1>3. ASSUME NEW j \in Job, NEW g, LeaseStep(j, g)
      PROVE  /\ UNCHANGED <<order, armed, policy, admissions>>
             /\ quarantined' \subseteq Job /\ paused' \in BOOLEAN
  <2>1. CASE Renew(j, g)
    BY <2>1 DEF Renew, FencedWrite, state
  <2>2. ASSUME NEW stage \in Stage, RecordStarted(j, g, stage) \/ RecordSkipped(j, g, stage)
        PROVE  UNCHANGED <<quarantined, state, admissions>>
    BY <2>2 DEF RecordStarted, RecordSkipped, FencedWrite, state
  <2>3. ASSUME NEW stage \in Stage, NEW status, RecordEnded(j, g, stage, status)
        PROVE  UNCHANGED <<quarantined, state, admissions>>
    BY <2>3 DEF RecordEnded, FencedWrite, state
  <2>4. CASE Complete(j, g)
    BY <2>4 DEF Complete, FencedWrite, state
  <2>5. ASSUME NEW retryable, NEW pathological, NEW class,
               Fail(j, g, retryable, pathological, class)
        PROVE  /\ UNCHANGED <<order, armed, policy, admissions>>
               /\ quarantined' \subseteq Job /\ paused' \in BOOLEAN
    BY <2>5 DEF Fail
  <2>. QED  BY <1>3, <2>1, <2>2, <2>3, <2>4, <2>5 DEF LeaseStep, state
<1>4. CASE BlockStep
  <2>1. ASSUME NEW b \in Batch, NEW id \in Admission, NEW scheduled, NEW reentry,
               StartNextBlock(b, id, scheduled, reentry)
        PROVE  /\ UNCHANGED <<quarantined, state, lookahead>> /\ primary' = b
               /\ lastAdmission' \in Admission \cup {NoAdmission}
    BY <2>1 DEF StartNextBlock
  <2>2. ASSUME NEW b \in Batch, AdmitLookaheadBlock(b)
        PROVE  UNCHANGED <<quarantined, state, primary, lastAdmission>> /\ lookahead' = b
    BY <2>2 DEF AdmitLookaheadBlock
  <2>3. CASE FinishActiveBlockIfDrained
    BY <2>3 DEF FinishActiveBlockIfDrained, state
  <2>. QED  BY <1>4, <2>1, <2>2, <2>3 DEF BlockStep, state
<1>5. CASE OperatorStep
  <2>1. ASSUME NEW c \in Configs, SyncQueue(c)
        PROVE  UNCHANGED <<quarantined, paused, lastAdmission>>
    BY <2>1 DEF SyncQueue
  <2>2. ASSUME NEW c \in Configs, ReconfigureRuntime(c) \/ DisarmForRecovery(c)
        PROVE  /\ UNCHANGED <<quarantined, order, paused, admissions>>
               /\ armed' \in BOOLEAN /\ policy' \in Policies
    <3>1. c.armed \in BOOLEAN /\ c.policy \in Policies
      BY ConfigAssumption DEF ConfigType
    <3>. QED  BY <2>2, <3>1 DEF ReconfigureRuntime, DisarmForRecovery
  <2>3. CASE Pause \/ Resume
    BY <2>3 DEF Pause, Resume, admissions
  <2>4. ASSUME NEW b \in Batch, NEW set \in SUBSET Job, QuarantinePathologicalJobs(b, set)
        PROVE  UNCHANGED <<state, admissions>> /\ quarantined' \subseteq Job
    BY <2>4 DEF QuarantinePathologicalJobs
  <2>5. ASSUME NEW b \in Batch, ReleasePathologicalQuarantine(b)
        PROVE  UNCHANGED <<state, admissions>> /\ quarantined' \subseteq Job
    BY <2>5 DEF ReleasePathologicalQuarantine
  <2>6. ASSUME NEW b \in Batch, RequeueFailedBatch(b) \/ RequeueInterruptedBatch(b)
        PROVE  UNCHANGED <<quarantined, state, admissions>>
    BY <2>6 DEF RequeueFailedBatch, RequeueInterruptedBatch
  <2>. QED  BY <1>5, <2>1, <2>2, <2>3, <2>4, <2>5, <2>6, SyncQueueType
            DEF OperatorStep, state, admissions
<1>. QED  BY <1>1, <1>2, <1>3, <1>4, <1>5 DEF Next, ClaimStep, state, admissions

LEMMA InitInv == Init => Inv
<1>. SUFFICES ASSUME Init PROVE Inv
  OBVIOUS
<1>1. Sound(AbsentRow)
  BY NewRowLemma
<1>2. jobs \in [Job -> JobRows] /\ \A j \in Job : Sound(jobs[j])
  BY <1>1 DEF Init, Sound
<1>3. policy \in Policies
  BY DEF Init, Policies
<1>4. LedgerConsistent
  BY <1>2 DEF LedgerConsistent, Sound
<1>5. <<>> \in Seq(Batch)
  OBVIOUS
<1>6. TypeOK
  BY <1>2, <1>3, <1>5 DEF Init, TypeOK
<1>. QED  BY <1>4, <1>6 DEF Inv

LEMMA InvStep == Inv /\ [Next]_vars => Inv'
<1>. SUFFICES ASSUME Inv, [Next]_vars PROVE Inv'
  OBVIOUS
<1>. QED  BY NextSound, StateType DEF SoundStep, Inv, TypeOK, LedgerConsistent, Sound

LEMMA InvHolds == Spec => []Inv
BY InitInv, InvStep, PTL DEF Spec

\* Whatever the operations do, the tables keep their column types, the job
\* and attempt states and the policy columns stay in their domains.
THEOREM TypeCorrect == Spec => []TypeOK
<1>1. Inv => TypeOK
  BY DEF Inv
<1>. QED  BY <1>1, InvHolds, PTL

\* Every transaction of the coordinator, recovery of expired leases and
\* operator requeues included, leaves jobs, attempts and stage_attempts in
\* agreement: one live attempt per live job, one success, one open span.
THEOREM LedgerSafe == Spec => []LedgerConsistent
<1>1. Inv => LedgerConsistent
  BY DEF Inv
<1>. QED  BY <1>1, InvHolds, PTL

\* No transaction rewrites an attempt that ended or a span that was closed.
THEOREM EvidenceSafe == Spec => EvidencePreserved
<1>1. Inv /\ [Next]_vars => [\A j \in Job : EvidenceKept(jobs[j], jobs'[j])]_vars
  BY NextSound DEF SoundStep
<1>. QED  BY <1>1, InvHolds, PTL DEF Spec, EvidencePreserved

\* A row whose evidence is kept stays complete.
LEMMA StaysComplete ==
    ASSUME NEW r, NEW s, Sound(r), Sound(s), EvidenceKept(r, s), r.state = "complete"
    PROVE  s.state = "complete"
<1>. DEFINE g == r.generation
<1>1. /\ g \in Nat /\ g > 0 /\ Len(r.attempts) = g
      /\ s.generation \in Nat /\ Len(s.attempts) = s.generation
  BY DEF Sound, RowInv, OneSuccess, LeaseMatchesAttempt, JobRows
<1>2. g \in 1..Len(r.attempts) /\ g \in 1..g
  BY <1>1
<1>3. r.attempts[g].state = "complete"
  BY <1>2 DEF Sound, RowInv, OneSuccess
<1>4. s.attempts[g] = r.attempts[g]
  BY <1>2, <1>3 DEF EvidenceKept, LiveStates
<1>5. Len(r.attempts) <= Len(s.attempts)
  BY DEF EvidenceKept
<1>6. g \in 1..s.generation
  BY <1>1, <1>5
<1>. QED  BY <1>3, <1>4, <1>6 DEF Sound, RowInv, OneSuccess

\* Once a worker's completion is accepted the job is complete for good:
\* no late worker, recovery, requeue or synchronization reopens it.
THEOREM CompletionSafe == Spec => CompleteIsFinal
<1>1. Inv /\ Inv' /\ [Next]_vars =>
        [\A j \in Job : jobs[j].state = "complete" => jobs'[j].state = "complete"]_vars
  <2>. SUFFICES ASSUME Inv, [Next]_vars, NEW j \in Job, jobs[j].state = "complete"
                PROVE  jobs'[j].state = "complete"
    OBVIOUS
  <2>1. Sound(jobs[j]) /\ Sound(jobs'[j]) /\ EvidenceKept(jobs[j], jobs'[j])
    BY InvSound, NextSound DEF SoundStep
  <2>. QED  BY <2>1, StaysComplete
<1>. QED  BY <1>1, InvHolds, PTL DEF Spec, CompleteIsFinal

-----------------------------------------------------------------------------
(* Plan refreshes.                                                         *)

RefreshInv == Inv /\ OneJobPerAuthority /\ BlocksListed

\* A step that synchronizes nothing: the active rows and batches stay.
Resting ==
    /\ jobs' \in [Job -> JobRows]
    /\ \A j \in Job : jobs'[j].active = jobs[j].active
    /\ order' = order

-----------------------------------------------------------------------------
(* Every step but SyncQueue rests.                                         *)

\* No statement of a transition writes jobs.active.
LEMMA RowActive ==
    ASSUME NEW r \in JobRows
    PROVE  /\ \A p : /\ Expire(r, p).active = r.active
                     /\ Grant(r, p).active = r.active
                     /\ Extend(r, p).active = r.active
           /\ \A g, stage, status : /\ StartSpan(r, g, stage).active = r.active
                                    /\ SkipSpan(r, g, stage).active = r.active
                                    /\ EndSpan(r, g, stage, status).active = r.active
           /\ \A g : Finish(r, g).active = r.active
           /\ \A g, p, retry, class : Abandon(r, g, p, retry, class).active = r.active
           /\ Isolate(r).active = r.active
           /\ Reopen(r).active = r.active
           /\ Interrupt(r).active = r.active
           /\ Age(r).active = r.active
<1>. USE DEF JobRows
<1>1. \A p : /\ Expire(r, p).active = r.active
             /\ Grant(r, p).active = r.active
             /\ Extend(r, p).active = r.active
  BY DEF Expire, Grant, Extend
<1>2. \A g, stage, status : /\ StartSpan(r, g, stage).active = r.active
                           /\ SkipSpan(r, g, stage).active = r.active
                           /\ EndSpan(r, g, stage, status).active = r.active
  <2>1. \A g, spans, stage : WithSpans(r, g, spans, stage).active = r.active
    BY DEF WithSpans
  <2>2. ASSUME NEW g, NEW stage, NEW status
        PROVE  StartSpan(r, g, stage).active = r.active
    BY <2>1, Zenon DEF StartSpan
  <2>3. ASSUME NEW g, NEW stage, NEW status
        PROVE  SkipSpan(r, g, stage).active = r.active
    BY <2>1, Zenon DEF SkipSpan
  <2>4. ASSUME NEW g, NEW stage, NEW status
        PROVE  EndSpan(r, g, stage, status).active = r.active
    BY <2>1, Zenon DEF EndSpan
  <2>. QED  BY <2>2, <2>3, <2>4
<1>3. \A g, p, retry, class : Abandon(r, g, p, retry, class).active = r.active
  BY DEF Abandon
<1>4. (\A g : Finish(r, g).active = r.active) /\ Age(r).active = r.active
  BY DEF Finish, Age
<1>5. /\ Isolate(r).active = r.active /\ Reopen(r).active = r.active
      /\ Interrupt(r).active = r.active
  BY DEF Isolate, Reopen, Interrupt
<1>. QED  BY <1>1, <1>2, <1>3, <1>4, <1>5

LEMMA RecoveredActive ==
    ASSUME Inv PROVE \A j \in Job : Recovered(jobs)[j].active = jobs[j].active
<1>. TAKE j \in Job
<1>1. jobs[j] \in JobRows
  BY DEF Inv, TypeOK
<1>. QED  BY <1>1, RowActive DEF Recovered

\* A fenced write whose row keeps its flag.
LEMMA FencedActive ==
    ASSUME Inv, NEW j \in Job, NEW row, row.active = jobs[j].active,
           jobs' = [Recovered(jobs) EXCEPT ![j] = row]
    PROVE  \A k \in Job : jobs'[k].active = jobs[k].active
<1>1. Recovered(jobs) \in [Job -> JobRows]
  BY RecoveredLemma
<1>2. jobs'[j] = row /\ \A k \in Job \ {j} : jobs'[k] = Recovered(jobs)[k]
  <2>. HIDE DEF Recovered
  <2>. QED  BY <1>1
<1>. QED  BY <1>2, RecoveredActive

LEMMA LeaseStepActive ==
    ASSUME Inv, NEW j \in Job, NEW g, LeaseStep(j, g)
    PROVE  \A k \in Job : jobs'[k].active = jobs[k].active
<1>1. jobs[j] \in JobRows
  BY DEF Inv, TypeOK
<1>2. CASE Renew(j, g)
  <2>1. jobs' = [Recovered(jobs) EXCEPT ![j] = Extend(jobs[j], policy)]
    BY <1>2 DEF Renew, FencedWrite
  <2>2. Extend(jobs[j], policy).active = jobs[j].active
    BY <1>1, RowActive
  <2>. QED  BY <2>1, <2>2, FencedActive
<1>3. ASSUME NEW stage \in Stage, RecordStarted(j, g, stage)
      PROVE  \A k \in Job : jobs'[k].active = jobs[k].active
  <2>1. jobs' = [Recovered(jobs) EXCEPT ![j] = StartSpan(jobs[j], g, stage)]
    BY <1>3 DEF RecordStarted, FencedWrite
  <2>2. StartSpan(jobs[j], g, stage).active = jobs[j].active
    BY <1>1, RowActive
  <2>. QED  BY <2>1, <2>2, FencedActive
<1>4. ASSUME NEW stage \in Stage, RecordSkipped(j, g, stage)
      PROVE  \A k \in Job : jobs'[k].active = jobs[k].active
  <2>1. jobs' = [Recovered(jobs) EXCEPT ![j] = SkipSpan(jobs[j], g, stage)]
    BY <1>4 DEF RecordSkipped, FencedWrite
  <2>2. SkipSpan(jobs[j], g, stage).active = jobs[j].active
    BY <1>1, RowActive
  <2>. QED  BY <2>1, <2>2, FencedActive
<1>5. ASSUME NEW stage \in Stage, NEW status, RecordEnded(j, g, stage, status)
      PROVE  \A k \in Job : jobs'[k].active = jobs[k].active
  <2>1. jobs' = [Recovered(jobs) EXCEPT ![j] = EndSpan(jobs[j], g, stage, status)]
    BY <1>5 DEF RecordEnded, FencedWrite
  <2>2. EndSpan(jobs[j], g, stage, status).active = jobs[j].active
    BY <1>1, RowActive
  <2>. QED  BY <2>1, <2>2, FencedActive
<1>6. CASE Complete(j, g)
  <2>1. jobs' = [Recovered(jobs) EXCEPT ![j] = Finish(jobs[j], g)]
    BY <1>6 DEF Complete, FencedWrite
  <2>2. Finish(jobs[j], g).active = jobs[j].active
    BY <1>1, RowActive
  <2>. QED  BY <2>1, <2>2, FencedActive
<1>7. ASSUME NEW retryable, NEW pathological, NEW class,
             Fail(j, g, retryable, pathological, class)
      PROVE  \A k \in Job : jobs'[k].active = jobs[k].active
  <2>. DEFINE retry == ~pathological /\ retryable /\ Retries(jobs[j], policy)
  <2>1. jobs' = [Recovered(jobs) EXCEPT ![j] = Abandon(jobs[j], g, policy, retry, class)]
    BY <1>7 DEF Fail
  <2>. HIDE DEF retry
  <2>2. Abandon(jobs[j], g, policy, retry, class).active = jobs[j].active
    BY <1>1, RowActive
  <2>. QED  BY <2>1, <2>2, FencedActive
<1>. QED  BY <1>2, <1>3, <1>4, <1>5, <1>6, <1>7 DEF LeaseStep

LEMMA RestingStep ==
    ASSUME Inv, [Next]_vars, \A c \in Configs : ~SyncQueue(c)
    PROVE  Resting
<1>1. jobs \in [Job -> JobRows] /\ jobs' \in [Job -> JobRows]
  BY InvSound, NextSound DEF SoundStep
<1>2. CASE Tick
  BY <1>1, <1>2, RowActive DEF Tick, Resting, state
<1>3. CASE RecoverExpired
  BY <1>1, <1>3, RecoveredActive DEF RecoverExpired, Resting, state
<1>4. ASSUME NEW batches \in SUBSET Batch, NEW pool \in Pools, NEW j \in Job,
             Claim(j, batches, pool)
      PROVE  Resting
  <2>. DEFINE row == Grant(Recovered(jobs)[j], policy)
  <2>1. jobs' = [Recovered(jobs) EXCEPT ![j] = row] /\ order' = order
    BY <1>4 DEF Claim, state
  <2>2. row.active = jobs[j].active
    <3>1. Recovered(jobs)[j] \in JobRows
      BY RecoveredLemma DEF Sound
    <3>. QED  BY <3>1, RowActive, RecoveredActive
  <2>. HIDE DEF row
  <2>. QED  BY <1>1, <2>1, <2>2, FencedActive DEF Resting
<1>5. ASSUME NEW j \in Job, NEW g, LeaseStep(j, g)
      PROVE  Resting
  <2>1. order' = order
    BY <1>5 DEF LeaseStep, Renew, RecordStarted, RecordSkipped, RecordEnded, Complete,
                Fail, FencedWrite, state
  <2>. QED  BY <1>1, <1>5, <2>1, LeaseStepActive DEF Resting
<1>6. CASE BlockStep
  BY <1>1, <1>6 DEF BlockStep, StartNextBlock, AdmitLookaheadBlock,
                    FinishActiveBlockIfDrained, Resting, state
<1>7. CASE OperatorStep
  <2>1. ASSUME NEW c \in Configs, ReconfigureRuntime(c) \/ DisarmForRecovery(c)
        PROVE  Resting
    BY <1>1, <2>1 DEF ReconfigureRuntime, DisarmForRecovery, Resting
  <2>2. CASE Pause \/ Resume
    BY <1>1, <2>2 DEF Pause, Resume, Resting
  <2>3. ASSUME NEW b \in Batch, NEW set \in SUBSET Job, QuarantinePathologicalJobs(b, set)
        PROVE  Resting
    BY <1>1, <2>3, RowActive DEF QuarantinePathologicalJobs, Resting, state
  <2>4. ASSUME NEW b \in Batch, ReleasePathologicalQuarantine(b)
        PROVE  Resting
    BY <1>1, <2>4, RowActive DEF ReleasePathologicalQuarantine, Resting, state
  <2>5. ASSUME NEW b \in Batch, RequeueFailedBatch(b)
        PROVE  Resting
    BY <1>1, <2>5, RowActive DEF RequeueFailedBatch, Resting, state
  <2>6. ASSUME NEW b \in Batch, RequeueInterruptedBatch(b)
        PROVE  Resting
    BY <1>1, <2>6, RowActive DEF RequeueInterruptedBatch, Resting, state
  <2>. QED  BY <1>7, <2>1, <2>2, <2>3, <2>4, <2>5, <2>6 DEF OperatorStep
<1>8. CASE UNCHANGED vars
  BY <1>1, <1>8 DEF vars, state, Resting
<1>. QED  BY <1>2, <1>3, <1>4, <1>5, <1>6, <1>7, <1>8 DEF Next, ClaimStep

-----------------------------------------------------------------------------
(* What SyncQueue selects.                                                 *)

LEMMA SyncActive ==
    ASSUME Inv, NEW c \in Configs, SyncQueue(c)
    PROVE  \A j \in Job : jobs'[j].active <=> j \in Selected(c)
<1>. TAKE j \in Job
<1>1. jobs[j] \in JobRows
  BY DEF Inv, TypeOK
<1>2. CASE j \in Selected(c) /\ jobs[j].state = "absent"
  <2>1. jobs'[j] = NewRow(j \in Planned)
    BY <1>2 DEF SyncQueue
  <2>. QED  BY <1>2, <2>1 DEF NewRow
<1>3. CASE ~(j \in Selected(c) /\ jobs[j].state = "absent")
  <2>1. jobs'[j] = [jobs[j] EXCEPT !.active = j \in Selected(c)]
    BY <1>3 DEF SyncQueue
  <2>2. jobs'[j].active = (j \in Selected(c))
    BY <1>1, <2>1 DEF JobRows
  <2>. QED  BY <2>2
<1>. QED  BY <1>2, <1>3

\* A selected job stands for exactly one row of the configuration: itself,
\* or the row whose result it carries.
LEMMA SelectedRow ==
    ASSUME NEW c \in Configs, NEW k \in Selected(c)
    PROVE  \E j \in c.rows : /\ AuthorityOf[j] = AuthorityOf[k]
                              /\ \/ k = j /\ Carried(j) = {}
                                 \/ k \in Carried(j)
<1>1. ASSUME NEW j \in c.rows, k \in Carried(j)
      PROVE  AuthorityOf[j] = AuthorityOf[k]
  BY <1>1 DEF Carried, CarryCandidates
<1>. QED  BY <1>1 DEF Selected

LEMMA RowsAreJobs == \A c \in Configs : c.rows \subseteq Job
BY ConfigAssumption DEF ConfigType

LEMMA SelectedJob ==
    ASSUME NEW c \in Configs PROVE Selected(c) \subseteq Job
<1>1. \A j : Carried(j) \subseteq Job
  BY DEF Carried, CarryCandidates
<1>. QED  BY <1>1, RowsAreJobs DEF Selected

\* The heart of a refresh: one selected job for each piece of work.
LEMMA SelectedOnce ==
    ASSUME NEW c \in Configs, Unambiguous(c),
           NEW k \in Selected(c), NEW l \in Selected(c), AuthorityOf[k] = AuthorityOf[l]
    PROVE  k = l
<1>1. PICK i \in c.rows : /\ AuthorityOf[i] = AuthorityOf[k]
                          /\ (k = i /\ Carried(i) = {}) \/ k \in Carried(i)
  BY SelectedRow
<1>2. PICK j \in c.rows : /\ AuthorityOf[j] = AuthorityOf[l]
                          /\ (l = j /\ Carried(j) = {}) \/ l \in Carried(j)
  BY SelectedRow
<1>3. i = j
  BY <1>1, <1>2, ConfigAssumption DEF RowsListed
<1>. QED  BY <1>1, <1>2, <1>3 DEF Unambiguous

-----------------------------------------------------------------------------
(* The refresh invariant.                                                  *)

LEMMA InitRefresh == Init => RefreshInv
<1>. SUFFICES ASSUME Init PROVE RefreshInv
  OBVIOUS
<1>1. ActiveJobs = {}
  BY DEF Init, ActiveJobs, AbsentRow, NewRow
<1>. QED  BY <1>1, InitInv DEF Init, RefreshInv, OneJobPerAuthority, BlocksListed

LEMMA RestingActive ==
    ASSUME Resting
    PROVE  /\ ActiveJobs' = ActiveJobs /\ ActiveBatches' = ActiveBatches
           /\ OneJobPerAuthority => OneJobPerAuthority'
<1>1. ActiveJobs' = ActiveJobs
  BY DEF Resting, ActiveJobs
<1>. QED  BY <1>1 DEF Resting, ActiveBatches, OneJobPerAuthority

\* Which admissions a step that is no synchronization may leave.
LEMMA RestingAdmissions ==
    ASSUME [Next]_vars, \A c \in Configs : ~SyncQueue(c)
    PROVE  /\ primary' \in {primary, lookahead} \cup ActiveBatches
           /\ lookahead' \in {lookahead, NoBatch} \cup ActiveBatches
<1>1. CASE BlockStep
  BY <1>1 DEF BlockStep, StartNextBlock, AdmitLookaheadBlock,
              FinishActiveBlockIfDrained, IsNextBlock
<1>2. CASE OperatorStep
  BY <1>2 DEF OperatorStep, ReconfigureRuntime, DisarmForRecovery, Pause, Resume,
              QuarantinePathologicalJobs, ReleasePathologicalQuarantine,
              RequeueFailedBatch, RequeueInterruptedBatch, admissions
<1>3. ASSUME NEW j \in Job, NEW g, LeaseStep(j, g)
      PROVE  UNCHANGED admissions
  BY <1>3 DEF LeaseStep, Renew, RecordStarted, RecordSkipped, RecordEnded, Complete,
              Fail, FencedWrite, state
<1>4. CASE Tick \/ ClaimStep \/ UNCHANGED vars
  BY <1>4 DEF Tick, ClaimStep, RecoverExpired, Claim, vars, admissions
<1>. QED  BY <1>1, <1>2, <1>3, <1>4 DEF Next, admissions

LEMMA RefreshStep == RefreshInv /\ [Next]_vars => RefreshInv'
<1>. SUFFICES ASSUME RefreshInv, [Next]_vars PROVE RefreshInv'
  OBVIOUS
<1>1. Inv /\ Inv'
  BY InvStep DEF RefreshInv
<1>2. ASSUME NEW c \in Configs, SyncQueue(c)
      PROVE  OneJobPerAuthority' /\ BlocksListed'
  <2>1. ActiveJobs' = Selected(c)
    BY <1>1, <1>2, SyncActive, SelectedJob DEF ActiveJobs
  <2>2. ActiveBatches' = Range(c.order)
    BY <1>2 DEF SyncQueue, ActiveBatches
  <2>3. OneJobPerAuthority'
    BY <1>2, <2>1, SelectedOnce DEF OneJobPerAuthority, SyncQueue
  <2>4. \A k \in Selected(c) : BatchOf[k] \in Range(c.order)
    <3>. TAKE k \in Selected(c)
    <3>1. PICK j \in c.rows : AuthorityOf[j] = AuthorityOf[k]
      BY SelectedRow
    <3>2. j \in Job /\ k \in Job
      BY RowsAreJobs, SelectedJob
    <3>3. BatchOf[j] = BatchOf[k] /\ BatchOf[j] \in Range(c.order)
      BY <3>1, <3>2, AuthorityAssumption, ConfigAssumption DEF RowsListed
    <3>. QED  BY <3>3
  <2>5. /\ primary' # NoBatch => primary' \in Range(c.order)
        /\ lookahead' # NoBatch => lookahead' \in Range(c.order)
    BY <1>2 DEF SyncQueue, KeepIfListed
  <2>. QED  BY <2>1, <2>2, <2>3, <2>4, <2>5 DEF BlocksListed
<1>3. CASE \A c \in Configs : ~SyncQueue(c)
  <2>1. Resting
    BY <1>1, <1>3, RestingStep
  <2>2. OneJobPerAuthority'
    BY <2>1, RestingActive DEF RefreshInv
  <2>3. /\ primary' # NoBatch => primary' \in ActiveBatches
        /\ lookahead' # NoBatch => lookahead' \in ActiveBatches
    BY <1>3, RestingAdmissions DEF RefreshInv, BlocksListed
  <2>4. BlocksListed'
    BY <2>1, <2>3, RestingActive DEF RefreshInv, BlocksListed
  <2>. QED  BY <1>1, <2>2, <2>4 DEF RefreshInv
<1>. QED  BY <1>1, <1>2, <1>3 DEF RefreshInv

\* However often plans are refreshed, the synchronized queue never holds two
\* jobs for the same work (sync_queue's carry-forward).
THEOREM OneJobSafe == Spec => []OneJobPerAuthority
<1>1. RefreshInv => OneJobPerAuthority
  BY DEF RefreshInv
<1>. QED  BY <1>1, InitRefresh, RefreshStep, PTL DEF Spec

\* Admitted blocks and active jobs always belong to the synchronized batches,
\* carried results included (sync_queue, start_next_block).
THEOREM BlocksListedSafe == Spec => []BlocksListed
<1>1. RefreshInv => BlocksListed
  BY DEF RefreshInv
<1>. QED  BY <1>1, InitRefresh, RefreshStep, PTL DEF Spec

\* A refresh never queues work that another plan generation completed or
\* that is quarantined (sync_queue).
THEOREM RefreshSafe == Spec => RefreshKeepsOutcome
<1>1. Inv /\ [Next]_vars =>
        [\A k \in ActiveJobs' \ ActiveJobs : \A j \in Job :
          /\ AuthorityOf[j] = AuthorityOf[k]
          /\ jobs[j].state = "complete" \/ (jobs[j].state = "failed" /\ j \in quarantined)
          => jobs'[k].state \notin {"queued", "blocked"}]_vars
  <2>. SUFFICES ASSUME Inv, [Next]_vars, NEW j \in Job, NEW k \in Job,
                       AuthorityOf[j] = AuthorityOf[k],
                       \/ jobs[j].state = "complete"
                       \/ jobs[j].state = "failed" /\ j \in quarantined,
                       ~jobs[k].active, jobs'[k].active
                PROVE  jobs'[k].state \notin {"queued", "blocked"}
    BY DEF ActiveJobs
  <2>1. PICK c \in Configs : SyncQueue(c)
    BY RestingStep DEF Resting
  <2>2. k \in Selected(c)
    BY <2>1, SyncActive
  <2>3. jobs[k] \in JobRows /\ Sound(jobs[j])
    BY InvSound
  <2>4. jobs[k].state \notin {"absent", "queued", "blocked"}
    <3>1. CASE k = j
      BY <3>1
    <3>2. CASE k # j /\ k \in c.rows /\ Carried(k) = {}
      <4>1. j \in CarryCandidates(k)
        <5>1. ASSUME jobs[j].state = "complete"
              PROVE  \E g \in 1..Len(jobs[j].attempts) :
                        jobs[j].attempts[g].state = "complete"
          BY <2>3, <5>1 DEF Sound, RowInv, OneSuccess, LeaseMatchesAttempt, JobRows
        <5>. QED  BY <3>2, <5>1 DEF CarryCandidates
      <4>. QED  BY <3>2, <4>1 DEF Carried
    <3>3. ASSUME NEW l \in c.rows, k \in Carried(l)
          PROVE  jobs[k].state \notin {"absent", "queued", "blocked"}
      <4>1. k \in CarryCandidates(l)
        BY <3>3 DEF Carried
      <4>. QED  BY <4>1 DEF CarryCandidates
    <3>. QED  BY <2>2, <3>1, <3>2, <3>3 DEF Selected
  <2>5. jobs'[k] = [jobs[k] EXCEPT !.active = k \in Selected(c)]
    BY <2>1, <2>4 DEF SyncQueue
  <2>6. jobs'[k].state = jobs[k].state
    BY <2>3, <2>5 DEF JobRows
  <2>. QED  BY <2>4, <2>6
<1>. QED  BY <1>1, InvHolds, PTL DEF Spec, RefreshKeepsOutcome

-----------------------------------------------------------------------------
(* The rows: what a step of the coordinator does to the jobs that count.   *)

\* Generations grow, and a complete row keeps its own.
RowsKeep ==
    \A j \in Job :
        /\ jobs[j].generation <= jobs'[j].generation
        /\ jobs[j].state = "complete" => /\ jobs'[j].state = "complete"
                                         /\ jobs'[j].generation = jobs[j].generation

NoSuccess == \A j \in Job : jobs'[j].state = "complete" => jobs[j].state = "complete"

RowsRest == Inv' /\ RowsKeep /\ NoSuccess

LEMMA CompleteKeeps ==
    ASSUME NEW r, NEW s, Sound(r), Sound(s), EvidenceKept(r, s)
    PROVE  /\ r.generation \in Nat /\ s.generation \in Nat
           /\ r.generation <= s.generation
           /\ r.state = "complete" => s.state = "complete" /\ s.generation = r.generation
<1>1. /\ r.generation \in Nat /\ Len(r.attempts) = r.generation
      /\ s.generation \in Nat /\ Len(s.attempts) = s.generation
      /\ Len(r.attempts) <= Len(s.attempts)
  BY DEF Sound, RowInv, LeaseMatchesAttempt, JobRows, EvidenceKept
<1>2. ASSUME r.state = "complete"
      PROVE  s.state = "complete" /\ s.generation = r.generation
  <2>. DEFINE g == r.generation
  <2>1. g \in 1..g
    BY <1>1, <1>2 DEF Sound, RowInv, OneSuccess
  <2>2. r.attempts[g].state = "complete"
    BY <2>1, <1>2 DEF Sound, RowInv, OneSuccess
  <2>3. s.attempts[g] = r.attempts[g]
    BY <1>1, <2>1, <2>2 DEF EvidenceKept, LiveStates
  <2>4. g \in 1..s.generation
    BY <1>1, <2>1
  <2>. QED  BY <2>2, <2>3, <2>4 DEF Sound, RowInv, OneSuccess
<1>. QED  BY <1>1, <1>2

LEMMA SoundKeeps ==
    ASSUME Inv, SoundStep PROVE RowsKeep
<1>. SUFFICES ASSUME NEW j \in Job
              PROVE  /\ jobs[j].generation <= jobs'[j].generation
                     /\ jobs[j].state = "complete" =>
                           /\ jobs'[j].state = "complete"
                           /\ jobs'[j].generation = jobs[j].generation
  BY DEF RowsKeep
<1>1. Sound(jobs[j]) /\ Sound(jobs'[j]) /\ EvidenceKept(jobs[j], jobs'[j])
  BY InvSound DEF SoundStep
<1>. QED  BY <1>1, CompleteKeeps

LEMMA NextRests ==
    ASSUME Inv, [Next]_vars, NoSuccess PROVE RowsRest
<1>1. Inv'
  BY InvStep
<1>2. RowsKeep
  BY NextSound, SoundKeeps
<1>. QED  BY <1>1, <1>2 DEF RowsRest

LEMMA UnchangedRests ==
    ASSUME Inv, UNCHANGED vars PROVE RowsRest
<1>1. jobs' = jobs
  BY DEF vars
<1>2. NoSuccess
  BY <1>1 DEF NoSuccess
<1>. QED  BY <1>2, NextRests

\* Only Finish writes 'complete'.
LEMMA RowNoSuccess ==
    ASSUME NEW r \in JobRows
    PROVE  /\ \A p : Expire(r, p).state # "complete"
           /\ \A p : Grant(r, p).state # "complete"
           /\ \A p : Extend(r, p).state = r.state
           /\ \A g, spans, stage : WithSpans(r, g, spans, stage).state # "complete"
           /\ \A g, p, retry, class : Abandon(r, g, p, retry, class).state # "complete"
           /\ Age(r).state = r.state
           /\ \A b : [r EXCEPT !.active = b].state = r.state
<1>. USE DEF JobRows
<1>1. \A p : Expire(r, p).state # "complete"
  BY DEF Expire
<1>2. \A p : Grant(r, p).state # "complete"
  BY DEF Grant
<1>3. \A p : Extend(r, p).state = r.state
  BY DEF Extend
<1>4. \A g, spans, stage : WithSpans(r, g, spans, stage).state # "complete"
  BY DEF WithSpans
<1>5. \A g, p, retry, class : Abandon(r, g, p, retry, class).state # "complete"
  BY DEF Abandon
<1>6. Age(r).state = r.state
  BY DEF Age
<1>7. \A b : [r EXCEPT !.active = b].state = r.state
  OBVIOUS
<1>. QED  BY <1>1, <1>2, <1>3, <1>4, <1>5, <1>6, <1>7

LEMMA StageNoSuccess ==
    ASSUME NEW r \in JobRows, NEW g, NEW stage
    PROVE  /\ StartSpan(r, g, stage).state # "complete"
           /\ \A status : EndSpan(r, g, stage, status).state # "complete"
<1>1. ASSUME NEW spans, NEW current PROVE WithSpans(r, g, spans, current).state # "complete"
  BY RowNoSuccess
<1>2. StartSpan(r, g, stage).state # "complete"
  BY <1>1, Zenon DEF StartSpan
<1>3. ASSUME NEW status PROVE EndSpan(r, g, stage, status).state # "complete"
  BY <1>1, Zenon DEF EndSpan
<1>. QED  BY <1>2, <1>3

LEMMA RecoveredNoSuccess ==
    ASSUME Inv
    PROVE  /\ Recovered(jobs) \in [Job -> JobRows]
           /\ \A j \in Job : /\ Recovered(jobs)[j].state = "complete"
                                   => jobs[j].state = "complete"
                             /\ Recovered(jobs)[j].generation = jobs[j].generation
<1>1. Recovered(jobs) \in [Job -> JobRows] /\ jobs \in [Job -> JobRows]
  BY RecoveredLemma DEF Inv, TypeOK
<1>2. ASSUME NEW j \in Job
      PROVE  /\ Recovered(jobs)[j].state = "complete" => jobs[j].state = "complete"
             /\ Recovered(jobs)[j].generation = jobs[j].generation
  <2>1. jobs[j] \in JobRows
    BY <1>1
  <2>2. \A p : Expire(jobs[j], p).generation = jobs[j].generation
    BY <2>1 DEF Expire, JobRows
  <2>. QED  BY <2>1, <2>2, RowNoSuccess DEF Recovered
<1>. QED  BY <1>1, <1>2

\* A fenced write whose own row does not succeed.
LEMMA FencedNoSuccess ==
    ASSUME Inv, NEW j \in Job, NEW row, row.state = "complete" => jobs[j].state = "complete",
           jobs' = [Recovered(jobs) EXCEPT ![j] = row]
    PROVE  NoSuccess
BY RecoveredNoSuccess DEF NoSuccess

LEMMA ClaimRests ==
    ASSUME Inv, NEW j \in Job, NEW batches, NEW pool, Claim(j, batches, pool)
    PROVE  /\ RowsRest
           /\ jobs'[j].generation = jobs[j].generation + 1
           /\ jobs'[j].generation \in 1..MaxGeneration
           /\ jobs'[j].state # "complete"
<1>. DEFINE rows == Recovered(jobs)
<1>1. /\ jobs' = [rows EXCEPT ![j] = Grant(rows[j], policy)]
      /\ rows[j].generation < MaxGeneration
      /\ UNCHANGED <<quarantined, state, admissions>>
  BY DEF Claim
<1>2. /\ rows \in [Job -> JobRows]
      /\ rows[j].generation = jobs[j].generation
  BY RecoveredNoSuccess
<1>3. /\ Grant(rows[j], policy).generation = rows[j].generation + 1
      /\ Grant(rows[j], policy).state # "complete"
  BY <1>2, RowNoSuccess DEF Grant, JobRows
<1>4. jobs'[j] = Grant(rows[j], policy) /\ rows[j].generation \in Nat
  BY <1>1, <1>2 DEF JobRows
<1>5. SoundStep
  BY ClaimSound
<1>6. NoSuccess
  BY <1>1, <1>3, FencedNoSuccess
<1>7. Inv'
  BY <1>1, <1>5 DEF SoundStep, Inv, TypeOK, LedgerConsistent, Sound, state, admissions
<1>8. MaxGeneration \in Nat
  BY JobAssumption
<1>. QED  BY <1>1, <1>2, <1>3, <1>4, <1>5, <1>6, <1>7, <1>8, SoundKeeps DEF RowsRest

\* The recovery a claim starts with stands when nothing can be claimed.
LEMMA RecoveryRests ==
    ASSUME Inv, jobs' = Recovered(jobs), UNCHANGED <<quarantined, state, admissions>>
    PROVE  RowsRest
<1>1. NoSuccess
  BY RecoveredNoSuccess DEF NoSuccess
<1>2. CASE \E j \in Job : Expired(jobs[j])
  BY <1>1, <1>2, NextRests DEF RecoverExpired, ClaimStep, Next
<1>3. CASE \A j \in Job : ~Expired(jobs[j])
  <2>1. jobs \in [Job -> JobRows]
    BY DEF Inv, TypeOK
  <2>2. Recovered(jobs) = jobs
    BY <1>3, <2>1 DEF Recovered
  <2>. QED  BY <2>2, UnchangedRests DEF vars
<1>. QED  BY <1>2, <1>3

LEMMA LeaseRests ==
    ASSUME Inv, NEW j \in Job, NEW g \in Nat, LeaseStep(j, g), HoldsLease(j, g), NoSuccess
    PROVE  RowsRest
<1>1. Sound(jobs[j]) /\ Live(jobs[j]) /\ g = jobs[j].generation
  BY HoldsLeaseLemma
<1>2. g \in 1..jobs[j].generation
  BY <1>1 DEF Sound, RowInv, LeaseMatchesAttempt, JobRows
<1>. QED  BY <1>2, NextRests DEF Next

\* The fenced reports that do not complete.
LEMMA StageRests ==
    ASSUME Inv, NEW j \in Job, NEW g \in Nat, NEW stage \in Stage,
           \/ Renew(j, g)
           \/ RecordStarted(j, g, stage)
           \/ \E status \in {"completed", "failed"} : RecordEnded(j, g, stage, status)
           \/ \E retryable, pathological \in BOOLEAN :
                 Fail(j, g, retryable, pathological, NoClass)
    PROVE  RowsRest
<1>1. jobs[j] \in JobRows
  BY DEF Inv, TypeOK
<1>2. CASE Renew(j, g)
  <2>1. HoldsLease(j, g) /\ jobs' = [Recovered(jobs) EXCEPT ![j] = Extend(jobs[j], policy)]
    BY <1>2 DEF Renew, FencedWrite
  <2>2. NoSuccess
    BY <1>1, <2>1, RowNoSuccess, FencedNoSuccess
  <2>. QED  BY <1>2, <2>1, <2>2, LeaseRests DEF LeaseStep
<1>3. CASE RecordStarted(j, g, stage)
  <2>1. /\ HoldsLease(j, g)
        /\ jobs' = [Recovered(jobs) EXCEPT ![j] = StartSpan(jobs[j], g, stage)]
    BY <1>3 DEF RecordStarted, FencedWrite
  <2>2. StartSpan(jobs[j], g, stage).state # "complete"
    BY <1>1, StageNoSuccess
  <2>3. NoSuccess
    BY <2>1, <2>2, FencedNoSuccess
  <2>. QED  BY <1>1, <1>3, <2>1, <2>3, LeaseRests DEF LeaseStep
<1>4. ASSUME NEW status \in {"completed", "failed"}, RecordEnded(j, g, stage, status)
      PROVE  RowsRest
  <2>1. /\ HoldsLease(j, g)
        /\ jobs' = [Recovered(jobs) EXCEPT ![j] = EndSpan(jobs[j], g, stage, status)]
    BY <1>4 DEF RecordEnded, FencedWrite
  <2>2. EndSpan(jobs[j], g, stage, status).state # "complete"
    BY <1>1, StageNoSuccess
  <2>3. NoSuccess
    BY <2>1, <2>2, FencedNoSuccess
  <2>. QED  BY <1>1, <1>4, <2>1, <2>3, LeaseRests DEF LeaseStep
<1>5. ASSUME NEW retryable \in BOOLEAN, NEW pathological \in BOOLEAN,
             Fail(j, g, retryable, pathological, NoClass)
      PROVE  RowsRest
  <2>. DEFINE retry == ~pathological /\ retryable /\ Retries(jobs[j], policy)
  <2>1. /\ HoldsLease(j, g)
        /\ jobs' = [Recovered(jobs) EXCEPT ![j] =
                       Abandon(jobs[j], g, policy, retry, NoClass)]
    BY <1>5 DEF Fail
  <2>2. Abandon(jobs[j], g, policy, retry, NoClass).state # "complete"
    BY <1>1, RowNoSuccess
  <2>3. NoSuccess
    BY <2>1, <2>2, FencedNoSuccess
  <2>. QED  BY <1>5, <2>1, <2>3, LeaseRests DEF LeaseStep
<1>. QED  BY <1>2, <1>3, <1>4, <1>5

\* The admission and the end of a block touch no row.
LEMMA BlockRests ==
    ASSUME Inv, BlockStep PROVE RowsRest
<1>1. jobs' = jobs
  BY DEF BlockStep, StartNextBlock, AdmitLookaheadBlock, FinishActiveBlockIfDrained
<1>2. NoSuccess
  BY <1>1 DEF NoSuccess
<1>. QED  BY <1>2, NextRests DEF Next

LEMMA TickRests ==
    ASSUME Inv, Tick PROVE RowsRest
<1>1. \A j \in Job : jobs'[j] = Age(jobs[j])
  BY DEF Tick
<1>2. \A j \in Job : jobs[j] \in JobRows
  BY DEF Inv, TypeOK
<1>3. NoSuccess
  BY <1>1, <1>2, RowNoSuccess DEF NoSuccess
<1>. QED  BY <1>3, NextRests DEF Next

LEMMA SyncRests ==
    ASSUME Inv, NEW c \in Configs, SyncQueue(c) PROVE RowsRest
<1>1. ASSUME NEW j \in Job, jobs'[j].state = "complete" PROVE jobs[j].state = "complete"
  <2>1. jobs[j] \in JobRows
    BY DEF Inv, TypeOK
  <2>2. NewRow(j \in Planned).state # "complete"
    BY DEF NewRow
  <2>3. jobs'[j] = [jobs[j] EXCEPT !.active = j \in Selected(c)]
    BY <1>1, <2>2 DEF SyncQueue
  <2>. QED  BY <1>1, <2>1, <2>3, RowNoSuccess
<1>4. NoSuccess
  BY <1>1 DEF NoSuccess
<1>. QED  BY <1>4, NextRests DEF OperatorStep, Next

\* complete: one row succeeds, in the generation that the worker presents.
LEMMA CompleteMoves ==
    ASSUME Inv, NEW j \in Job, NEW g \in Nat, Complete(j, g)
    PROVE  /\ Inv' /\ RowsKeep
           /\ jobs'[j].generation = g
           /\ \A k \in Job \ {j} : jobs'[k].state = "complete" => jobs[k].state = "complete"
<1>1. /\ HoldsLease(j, g)
      /\ jobs' = [Recovered(jobs) EXCEPT ![j] = Finish(jobs[j], g)]
  BY DEF Complete, FencedWrite
<1>2. jobs[j] \in JobRows /\ Live(jobs[j]) /\ g = jobs[j].generation /\ Sound(jobs[j])
  BY <1>1, HoldsLeaseLemma DEF Sound
<1>3. Finish(jobs[j], g).generation = g
  BY <1>2 DEF Finish, JobRows
<1>4. g \in 1..jobs[j].generation
  BY <1>2 DEF Sound, RowInv, LeaseMatchesAttempt, JobRows
<1>5. Next
  BY <1>4 DEF LeaseStep, Next
<1>6. Inv' /\ RowsKeep
  BY <1>5, InvStep, NextSound, SoundKeeps
<1>. QED  BY <1>1, <1>3, <1>6, RecoveredNoSuccess
=============================================================================
