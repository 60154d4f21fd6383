---------------------------- MODULE RemoteProofs ----------------------------
(***************************************************************************)
(* What the worker API promises for any number of clients, jobs, attempts  *)
(* and faults: the result of a complete job is in place and on disk.       *)
(*                                                                         *)
(* A handler holds no lock between two transactions and its client may     *)
(* have given up on it, so nothing in the handler itself keeps two calls   *)
(* from working on one attempt.  What does is the client's order: it       *)
(* completes only after its upload was answered, it reports a failure      *)
(* after anything that was not answered, and a lease is granted once.      *)
(* Hence two calls of one attempt are never both at its files.             *)
(***************************************************************************)
EXTENDS RemoteWorker, CoordinatorProofs, FiniteSetTheorems

-----------------------------------------------------------------------------
(* The invariant.                                                          *)

WaitsAt ==
    [claim |-> "claiming", upload |-> "uploading",
     complete |-> "completing", fail |-> "failing"]

StepsOf ==
    [claim    |-> {"look", "take", "finish", "mkdir", "report", "empty", "lease", "refused"},
     upload   |-> {"renew", "store", "done", "refused"},
     complete |-> {"renew", "begin", "flush", "rename", "names", "ended", "broken",
                   "report", "done", "refused"},
     fail     |-> {"report", "done", "refused"}]

HasLease(c) == c.lease # NoLease

\* A call is at a step of its operation; an abandoned one has no answer; a
\* client that waits is where its call says, with the lease it was sent.
CallFits(c) ==
    /\ c \in Calls
    /\ c.step \in StepsOf[c.op]
    /\ c.step \in Answers => c.waited
    /\ c.op # "claim" \/ c.step \in {"mkdir", "lease", "report"} => HasLease(c)
    /\ c.waited => /\ client[c.worker] = WaitsAt[c.op]
                   /\ c.op # "claim" => held[c.worker] = c.lease

CallsFit == \A c \in calls : CallFits(c)

\* A client waits for one call, and for one call only.
OneWait ==
    /\ \A c, d \in calls : c.worker = d.worker /\ c.waited /\ d.waited => c = d
    /\ \A w \in Worker : client[w] \in Waiting => \E c \in calls : c.worker = w /\ c.waited

ClientsFit ==
    \A w \in Worker :
        /\ client[w] \in ClientStates
        /\ held[w] \in Leases \cup {NoLease}
        /\ held[w] # NoLease <=> client[w] \in Executing
        /\ beat[w] \in {"off", "on", "failed"}
        /\ beat[w] # "off" => held[w] # NoLease

\* A lease has one holder, and before it is received only the call that
\* took it; of two calls of one lease exactly one reports a failure; and
\* what a client has yet to do with its lease no call of its past is doing.
LeasesApart ==
    /\ \A v, w \in Worker : held[v] # NoLease /\ held[v] = held[w] => v = w
    /\ \A c \in calls : c.op = "claim" /\ HasLease(c) =>
          /\ \A w \in Worker : held[w] # c.lease
          /\ \A d \in calls : d.lease = c.lease => d = c
    /\ \A c, d \in calls :
          HasLease(c) /\ c.lease = d.lease /\ c # d => (c.op = "fail" <=> d.op # "fail")
    /\ \A c \in calls, w \in Worker : HasLease(c) /\ held[w] = c.lease =>
          /\ client[w] \notin {"build", "upload", "complete"}
          /\ client[w] \in {"uploading", "completing"} => c.waited
          /\ client[w] = "fail" => c.op # "fail"

\* The files are where the call that publishes them left them.
CallFiles(c) ==
    c.op = "complete" =>
        /\ c.step = "rename" => FinalOf(c) = "none"
        /\ c.step = "names" => FinalOf(c) = "renamed" /\ StagingOf(c) = "none"
        /\ c.step \in {"ended", "report"} => FinalOf(c) = "durable" /\ StagingOf(c) = "none"

FilesFit == \A c \in calls : CallFiles(c)

\* No lease in anybody's hands is newer than its job.
Known(l) == l = NoLease \/ l.generation <= jobs[l.job].generation

LeasesKnown == (\A w \in Worker : Known(held[w])) /\ \A c \in calls : Known(c.lease)

IsPublished(j) ==
    LET g == jobs[j].generation IN
    jobs[j].state = "complete" =>
        /\ g \in 1..MaxGeneration
        /\ final[j][g] = "durable"
        /\ staging[j][g] = "none"
        /\ \A c \in calls : c.step \in {"mkdir", "store"}
                               => c.lease # [job |-> j, generation |-> g]

Published == \A j \in Job : IsPublished(j)

FunctionsFit ==
    /\ client \in [Worker -> ClientStates]
    /\ held \in [Worker -> Leases \cup {NoLease}]
    /\ beat \in [Worker -> {"off", "on", "failed"}]

StoresFit ==
    /\ staging \in PerAttempt({"none", "made", "filled"})
    /\ final \in PerAttempt({"none", "renamed", "durable"})
    /\ faults \in 0..MaxFaults

\* The invariant of clients and calls, which no coordinator step changes.
Protocol == FunctionsFit /\ ClientsFit /\ CallsFit /\ OneWait /\ LeasesApart

\* The inductive invariant.
RemoteInv ==
    Inv /\ Protocol /\ StoresFit /\ LeasesKnown /\ FilesFit /\ Published

-----------------------------------------------------------------------------
\* The fenced reports of a handler or a heartbeat that do not complete.
LEMMA ReportRests ==
    ASSUME Inv, NEW j \in Job, NEW g \in Nat,
           \/ Renew(j, g)
           \/ RecordStarted(j, g, Publication)
           \/ \E status \in {"completed", "failed"} : RecordEnded(j, g, Publication, status)
           \/ \E retryable, pathological \in BOOLEAN :
                 Fail(j, g, retryable, pathological, NoClass)
    PROVE  RowsRest
BY StageRests, RemoteAssumption

-----------------------------------------------------------------------------
(* Clients and calls.                                                      *)

LEMMA LeaseFields ==
    /\ NoLease \notin Leases
    /\ \A l \in Leases : l.job \in Job /\ l.generation \in 1..MaxGeneration
    /\ \A l, m \in Leases : l.job = m.job /\ l.generation = m.generation => l = m
BY RemoteAssumption DEF Leases

LEMMA ProtocolStutters ==
    ASSUME Protocol, UNCHANGED <<client, held, beat, calls>> PROVE Protocol'
BY DEF Protocol, FunctionsFit, ClientsFit, CallsFit, CallFits, OneWait, LeasesApart, HasLease

\* A handler goes on with the same lease.
LEMMA BecomesProtocol ==
    ASSUME Protocol, NEW c \in calls, NEW d \in Calls, Becomes(c, d),
           d.worker = c.worker, d.op = c.op, d.waited = c.waited, d.lease = c.lease,
           d.step \in StepsOf[d.op],
           d.op # "claim" \/ d.step \in {"mkdir", "lease", "report"} => HasLease(d)
    PROVE  Protocol'
<1>1. \A e \in calls' : e = d \/ (e \in calls /\ e # c)
  BY DEF Becomes
<1>2. \A e \in calls : e # c => e \in calls'
  BY DEF Becomes
<1>3. d.waited => d \in calls'
  BY DEF Becomes
<1>4. d \in calls' /\ d.step \in Answers => d.waited \/ d \in calls
  BY DEF Becomes
<1>5. UNCHANGED <<client, held, beat>>
  BY DEF Becomes
<1>6. CallFits(c) /\ \A e \in calls : CallFits(e)
  BY DEF Protocol, CallsFit
<1>7. FunctionsFit' /\ ClientsFit'
  BY <1>5 DEF Protocol, FunctionsFit, ClientsFit
<1>8. ASSUME NEW e \in calls' PROVE CallFits(e)'
  <2>1. e \in calls => CallFits(e)
    BY <1>6
  <2>2. e = d /\ e.step \in Answers => e.waited
    BY <1>4, <1>6 DEF CallFits
  <2>. QED  BY <1>1, <1>5, <1>6, <2>1, <2>2 DEF CallFits, HasLease
<1>9. OneWait'
  <2>1. ASSUME NEW e \in calls', NEW f \in calls', e.worker = f.worker, e.waited, f.waited
        PROVE  e = f
    BY <1>1, <2>1 DEF Protocol, OneWait
  <2>2. ASSUME NEW w \in Worker, client[w] \in Waiting
        PROVE  \E e \in calls' : e.worker = w /\ e.waited
    <3>1. PICK e \in calls : e.worker = w /\ e.waited
      BY <2>2 DEF Protocol, OneWait
    <3>. QED  BY <1>2, <1>3, <3>1
  <2>. QED  BY <1>5, <2>1, <2>2 DEF OneWait
<1>10. LeasesApart'
  <2>. DEFINE Was(e) == IF e = d THEN c ELSE e
  <2>1. ASSUME NEW e \in calls'
        PROVE  /\ Was(e) \in calls /\ Was(e).op = e.op /\ Was(e).lease = e.lease
               /\ Was(e).waited = e.waited
               /\ \A f \in calls' : f # e => Was(f) # Was(e)
    BY <1>1, <2>1
  <2>. HIDE DEF Was
  <2>2. ASSUME NEW e \in calls', e.op = "claim", HasLease(e)
        PROVE  /\ \A w \in Worker : held[w] # e.lease
               /\ \A f \in calls' : f.lease = e.lease => f = e
    BY <2>1, <2>2 DEF Protocol, LeasesApart, HasLease
  <2>3. ASSUME NEW e \in calls', NEW f \in calls', HasLease(e), e.lease = f.lease, e # f
        PROVE  e.op = "fail" <=> f.op # "fail"
    BY <2>1, <2>3 DEF Protocol, LeasesApart, HasLease
  <2>4. ASSUME NEW e \in calls', NEW w \in Worker, HasLease(e), held[w] = e.lease
        PROVE  /\ client[w] \notin {"build", "upload", "complete"}
               /\ client[w] \in {"uploading", "completing"} => e.waited
               /\ client[w] = "fail" => e.op # "fail"
    BY <2>1, <2>4 DEF Protocol, LeasesApart, HasLease
  <2>5. \A v, w \in Worker : held[v] # NoLease /\ held[v] = held[w] => v = w
    BY DEF Protocol, LeasesApart
  <2>. QED  BY <1>5, <2>2, <2>3, <2>4, <2>5 DEF LeasesApart, HasLease
<1>. QED  BY <1>7, <1>8, <1>9, <1>10 DEF Protocol, CallsFit

\* A claim takes a lease that nobody knows.
LEMMA TakeProtocol ==
    ASSUME Protocol, NEW c \in calls, NEW d \in Calls, Becomes(c, d), c.op = "claim",
           d.worker = c.worker, d.op = c.op, d.waited = c.waited, d.step = "mkdir",
           HasLease(d), \A w \in Worker : held[w] # d.lease,
           \A e \in calls : e.lease # d.lease
    PROVE  Protocol'
<1>1. /\ calls' = (calls \ {c}) \cup {d}
      /\ UNCHANGED <<client, held, beat>>
  BY DEF Becomes, Answers
<1>2. \A e \in calls : CallFits(e)
  BY DEF Protocol, CallsFit
<1>3. FunctionsFit' /\ ClientsFit'
  BY <1>1 DEF Protocol, FunctionsFit, ClientsFit
<1>4. ASSUME NEW e \in calls' PROVE CallFits(e)'
  <2>1. e \in calls => CallFits(e)
    BY <1>2
  <2>2. CallFits(c)
    BY <1>2
  <2>. QED  BY <1>1, <2>1, <2>2 DEF CallFits, HasLease, StepsOf, Answers
<1>5. OneWait'
  <2>1. ASSUME NEW e \in calls', NEW f \in calls', e.worker = f.worker, e.waited, f.waited
        PROVE  e = f
    BY <1>1, <2>1 DEF Protocol, OneWait
  <2>2. ASSUME NEW w \in Worker, client[w] \in Waiting
        PROVE  \E e \in calls' : e.worker = w /\ e.waited
    <3>1. PICK e \in calls : e.worker = w /\ e.waited
      BY <2>2 DEF Protocol, OneWait
    <3>. QED  BY <1>1, <3>1
  <2>. QED  BY <1>1, <2>1, <2>2 DEF OneWait
<1>6. LeasesApart'
  BY <1>1 DEF Protocol, LeasesApart, HasLease
<1>. QED  BY <1>3, <1>4, <1>5, <1>6 DEF Protocol, CallsFit

\* A client sends its next request: none of its attempt is under way but,
\* before a failure report, what it gave up on.
LEMMA RequestProtocol ==
    ASSUME Protocol, NEW w \in Worker, Request(w) PROVE Protocol'
<1>1. PICK op, from, to, first :
          /\ Sends(w, from, op, to, first)
          /\ \/ op = "claim" /\ from = "claim" /\ to = "claiming" /\ first = "look"
             \/ op = "upload" /\ from = "upload" /\ to = "uploading" /\ first = "renew"
             \/ op = "complete" /\ from = "complete" /\ to = "completing" /\ first = "renew"
             \/ op = "fail" /\ from = "fail" /\ to = "failing" /\ first = "report"
  BY Zenon DEF Request
<1>. DEFINE n == [worker |-> w, lease |-> held[w], step |-> first,
                  waited |-> TRUE, seen |-> {}, op |-> op]
<1>2. /\ client[w] = from /\ client' = [client EXCEPT ![w] = to]
      /\ held' = [held EXCEPT ![w] = IF to \in Executing THEN @ ELSE NoLease]
      /\ beat' = [beat EXCEPT ![w] = IF to \in Executing THEN @ ELSE "off"]
      /\ calls' = calls \cup {n}
  BY <1>1 DEF Sends, ClientGoes
<1>3. /\ to \in ClientStates /\ to \in Waiting
      /\ from \in Executing <=> to \in Executing
      /\ from \notin Waiting
      /\ to = WaitsAt[op] /\ first \in StepsOf[op] /\ first \notin Answers
      /\ op # "claim" => from \in Executing
      /\ op = "claim" => to = "claiming" /\ first = "look"
  BY <1>1 DEF ClientStates, Waiting, Executing, WaitsAt, StepsOf, Answers
<1>4. FunctionsFit /\ ClientsFit
  BY DEF Protocol
<1>5. held' = held
  BY <1>2, <1>3, <1>4 DEF FunctionsFit, ClientsFit
<1>6. FunctionsFit' /\ ClientsFit'
  BY <1>2, <1>3, <1>4, <1>5 DEF FunctionsFit, ClientsFit
<1>7. n \in Calls /\ n.worker = w /\ n.waited /\ n.op = op /\ n.lease = held[w] /\ n.step = first
  BY <1>1, <1>4 DEF Calls, FunctionsFit, HandlerSteps
<1>. HIDE DEF n
<1>8. ASSUME NEW e \in calls PROVE CallFits(e) /\ ~(e.worker = w /\ e.waited)
  <2>1. CallFits(e)
    BY DEF Protocol, CallsFit
  <2>. QED  BY <2>1, <1>2, <1>3 DEF CallFits, WaitsAt, Waiting, Calls
<1>9. ASSUME NEW e \in calls' PROVE CallFits(e)'
  <2>1. CASE e \in calls
    BY <1>2, <1>4, <1>5, <1>8, <2>1 DEF CallFits, HasLease, FunctionsFit, Calls
  <2>2. CASE e = n
    BY <1>2, <1>3, <1>4, <1>5, <1>7, <2>2 DEF CallFits, HasLease, FunctionsFit, ClientsFit
  <2>. QED  BY <1>2, <2>1, <2>2
<1>10. OneWait'
  <2>1. ASSUME NEW e \in calls', NEW f \in calls', e.worker = f.worker, e.waited, f.waited
        PROVE  e = f
    BY <1>2, <1>7, <1>8, <2>1 DEF Protocol, OneWait
  <2>2. ASSUME NEW v \in Worker, client'[v] \in Waiting
        PROVE  \E e \in calls' : e.worker = v /\ e.waited
    BY <1>2, <1>4, <1>7, <2>2 DEF Protocol, OneWait, FunctionsFit
  <2>. QED  BY <2>1, <2>2 DEF OneWait
<1>11. LeasesApart'
  <2>. USE DEF HasLease
  <2>1. \A u, v \in Worker : held[v] # NoLease /\ held[u] = held[v] => u = v
    BY DEF Protocol, LeasesApart
  <2>2. ASSUME NEW e \in calls', e.op = "claim", HasLease(e)
        PROVE  /\ \A v \in Worker : held[v] # e.lease
               /\ \A f \in calls' : f.lease = e.lease => f = e
    <3>1. e # n
      BY <1>3, <1>4, <1>7, <2>2, <1>2, <1>1 DEF ClientsFit, Executing
    <3>2. e \in calls
      BY <3>1, <1>2
    <3>3. n.lease # e.lease
      BY <3>2, <2>2, <1>7 DEF Protocol, LeasesApart
    <3>. QED  BY <3>2, <3>3, <2>2, <1>2 DEF Protocol, LeasesApart
  <2>3. ASSUME NEW e \in calls, HasLease(e), e.lease = n.lease
        PROVE  e.op # "fail" /\ op = "fail"
    <3>1. held[w] = e.lease /\ held[w] # NoLease
      BY <2>3, <1>7
    <3>2. from # "claim"
      BY <3>1, <1>2, <1>4 DEF ClientsFit, Executing
    <3>. QED  BY <3>1, <3>2, <1>1, <1>2 DEF Protocol, LeasesApart
  <2>4. ASSUME NEW e \in calls', NEW f \in calls', HasLease(e), e.lease = f.lease, e # f
        PROVE  e.op = "fail" <=> f.op # "fail"
    BY <2>3, <2>4, <1>2, <1>7 DEF Protocol, LeasesApart
  <2>5. ASSUME NEW e \in calls', NEW v \in Worker, HasLease(e), held[v] = e.lease
        PROVE  /\ client'[v] \notin {"build", "upload", "complete"}
               /\ client'[v] \in {"uploading", "completing"} => e.waited
               /\ client'[v] = "fail" => e.op # "fail"
    <3>1. CASE v = w
      BY <3>1, <2>3, <2>5, <1>1, <1>2, <1>4, <1>7 DEF FunctionsFit
    <3>2. CASE v # w
      <4>1. e # n
        BY <3>2, <2>1, <2>5, <1>7
      <4>. QED  BY <3>2, <4>1, <2>5, <1>2, <1>4 DEF FunctionsFit, Protocol, LeasesApart
    <3>. QED  BY <3>1, <3>2
  <2>. QED  BY <1>5, <2>1, <2>2, <2>4, <2>5 DEF LeasesApart
<1>. QED  BY <1>6, <1>9, <1>10, <1>11 DEF Protocol, CallsFit

\* What a client knows of the calls when it stands between two of them.
LEMMA WaitedCall ==
    ASSUME Protocol, NEW c \in calls, c.waited
    PROVE  /\ c \in Calls /\ c.worker \in Worker
           /\ client[c.worker] = WaitsAt[c.op]
           /\ c.op # "claim" => held[c.worker] = c.lease
           /\ \A d \in calls : d.worker = c.worker /\ d.waited => d = c
<1>1. CallFits(c)
  BY DEF Protocol, CallsFit
<1>. QED  BY <1>1 DEF CallFits, Calls, Protocol, OneWait

\* A waited call is answered and its client goes on: a lease has found its
\* holder, and an upload or a completion leaves no call of its lease behind.
LEMMA ReceiveProtocol ==
    ASSUME Protocol, NEW c \in calls, Receive(c) PROVE Protocol'
<1>. DEFINE w == c.worker
            next == After(c.op, c.step)
<1>1. /\ c.waited /\ c.step \in Answers
      /\ client' = [client EXCEPT ![w] = next]
      /\ held' = [held EXCEPT ![w] = IF next \in Executing THEN c.lease ELSE NoLease]
      /\ beat' = [beat EXCEPT ![w] = IF c.step = "lease" THEN "on"
                                     ELSE IF next \in Executing THEN @ ELSE "off"]
      /\ calls' = calls \ {c}
  BY DEF Receive
<1>2. /\ c \in Calls /\ w \in Worker /\ CallFits(c)
      /\ client[w] = WaitsAt[c.op]
      /\ c.op # "claim" => held[w] = c.lease
      /\ \A d \in calls : d.worker = w /\ d.waited => d = c
  BY <1>1, WaitedCall DEF Protocol, CallsFit
<1>3. c.op \in {"claim", "upload", "complete", "fail"} /\ c.lease \in Leases \cup {NoLease}
  BY <1>2 DEF Calls
<1>4. \/ c.op = "claim" /\ c.step = "lease" /\ next = "build"
      \/ c.op = "upload" /\ c.step = "done" /\ next = "complete"
      \/ c.op \in {"upload", "complete"} /\ next = "fail" /\ c.step # "lease"
      \/ next = "claim" /\ c.step # "lease"
  BY <1>2, <1>3 DEF After, CallFits, StepsOf
<1>5. /\ next \in ClientStates /\ next \notin Waiting
      /\ next \in Executing <=> next # "claim"
      /\ next \in Executing => HasLease(c)
  BY <1>2, <1>4 DEF ClientStates, Waiting, Executing, CallFits
<1>. HIDE DEF next
<1>6. FunctionsFit /\ ClientsFit
  BY DEF Protocol
<1>7. /\ client'[w] = next
      /\ held'[w] = IF next \in Executing THEN c.lease ELSE NoLease
      /\ beat'[w] \in {"off", "on", "failed"}
      /\ beat'[w] # "off" => next \in Executing
      /\ \A v \in Worker : v # w => /\ client'[v] = client[v]
                                    /\ held'[v] = held[v]
                                    /\ beat'[v] = beat[v]
  BY <1>1, <1>2, <1>4, <1>5, <1>6 DEF FunctionsFit, ClientsFit
<1>8. FunctionsFit'
  BY <1>1, <1>2, <1>3, <1>5, <1>6 DEF FunctionsFit
<1>9. ClientsFit'
  BY <1>3, <1>5, <1>6, <1>7 DEF ClientsFit, HasLease
<1>10. CallsFit'
  <2>1. ASSUME NEW e \in calls' PROVE CallFits(e)'
    <3>1. e \in calls /\ e # c /\ CallFits(e)
      BY <1>1 DEF Protocol, CallsFit
    <3>2. e.waited => e.worker # w
      BY <3>1, <1>2
    <3>. QED  BY <3>1, <3>2, <1>7 DEF CallFits, HasLease, Calls
  <2>. QED  BY <2>1 DEF CallsFit
<1>11. OneWait'
  <2>1. ASSUME NEW v \in Worker, client'[v] \in Waiting
        PROVE  \E e \in calls' : e.worker = v /\ e.waited
    <3>1. v # w /\ client[v] \in Waiting
      BY <2>1, <1>5, <1>7
    <3>. QED  BY <3>1, <1>1 DEF Protocol, OneWait
  <2>. QED  BY <2>1, <1>1 DEF Protocol, OneWait
<1>12. LeasesApart'
  <2>. USE DEF HasLease
  <2>1. ASSUME NEW v \in Worker, v # w, held'[w] # NoLease PROVE held'[v] # held'[w]
    <3>1. held'[w] = c.lease /\ HasLease(c)
      BY <2>1, <1>5, <1>7
    <3>2. held[v] # c.lease
      BY <3>1, <2>1, <1>2 DEF Protocol, LeasesApart
    <3>. QED  BY <3>1, <3>2, <2>1, <1>7
  <2>2. \A u, v \in Worker : held'[u] # NoLease /\ held'[u] = held'[v] => u = v
    BY <2>1, <1>7 DEF Protocol, LeasesApart
  <2>3. ASSUME NEW e \in calls', e.op = "claim", HasLease(e)
        PROVE  /\ \A v \in Worker : held'[v] # e.lease
               /\ \A f \in calls' : f.lease = e.lease => f = e
    <3>1. e \in calls /\ e # c
      BY <1>1
    <3>2. c.lease # e.lease
      BY <3>1, <2>3 DEF Protocol, LeasesApart
    <3>. QED  BY <3>1, <3>2, <2>3, <1>1, <1>7 DEF Protocol, LeasesApart
  <2>4. \A e, f \in calls' :
            HasLease(e) /\ e.lease = f.lease /\ e # f => (e.op = "fail" <=> f.op # "fail")
    BY <1>1 DEF Protocol, LeasesApart
  <2>5. ASSUME NEW e \in calls', NEW v \in Worker, HasLease(e), held'[v] = e.lease
        PROVE  /\ client'[v] \notin {"build", "upload", "complete"}
               /\ client'[v] \in {"uploading", "completing"} => e.waited
               /\ client'[v] = "fail" => e.op # "fail"
    <3>1. e \in calls /\ e # c
      BY <1>1
    <3>2. CASE v # w
      BY <3>1, <3>2, <2>5, <1>7 DEF Protocol, LeasesApart
    <3>3. CASE v = w
      <4>1. e.lease = c.lease /\ next \in Executing
        BY <3>3, <2>5, <1>7
      <4>2. c.op # "claim"
        BY <3>1, <4>1, <2>5 DEF Protocol, LeasesApart
      <4>3. c.op \in {"upload", "complete"}
        BY <4>1, <4>2, <1>4, <1>5
      <4>4. ~e.waited
        <5>1. CallFits(e) /\ e.op # "claim"
          BY <3>1, <4>1, <2>5 DEF Protocol, CallsFit, LeasesApart
        <5>2. e.waited => held[e.worker] = held[w] /\ e.worker \in Worker
          BY <5>1, <4>1, <4>2, <1>2 DEF CallFits, Calls
        <5>. QED  BY <5>2, <3>1, <4>1, <2>5, <1>2, <4>2 DEF Protocol, LeasesApart
      <4>5. e.waited
        BY <3>1, <4>1, <4>2, <4>3, <2>5, <1>2 DEF Protocol, LeasesApart, WaitsAt
      <4>. QED  BY <4>4, <4>5
    <3>. QED  BY <3>2, <3>3
  <2>. QED  BY <2>2, <2>3, <2>4, <2>5 DEF LeasesApart
<1>. QED  BY <1>8, <1>9, <1>10, <1>11, <1>12 DEF Protocol

\* A client moves without an answer: it goes back to claim, or on to the
\* upload or the failure report of its attempt.
LEMMA ClientGoesLemma ==
    ASSUME FunctionsFit, ClientsFit, NEW w \in Worker, NEW next \in ClientStates,
           ClientGoes(w, next), next \in Executing => client[w] \in Executing
    PROVE  /\ FunctionsFit' /\ ClientsFit'
           /\ client'[w] = next
           /\ held'[w] = IF next \in Executing THEN held[w] ELSE NoLease
           /\ \A v \in Worker : v # w => client'[v] = client[v] /\ held'[v] = held[v]
<1>1. /\ client' = [client EXCEPT ![w] = next]
      /\ held' = [held EXCEPT ![w] = IF next \in Executing THEN @ ELSE NoLease]
      /\ beat' = [beat EXCEPT ![w] = IF next \in Executing THEN @ ELSE "off"]
  BY DEF ClientGoes
<1>2. /\ FunctionsFit'
      /\ client'[w] = next
      /\ held'[w] = IF next \in Executing THEN held[w] ELSE NoLease
      /\ beat'[w] = IF next \in Executing THEN beat[w] ELSE "off"
      /\ \A v \in Worker : v # w => /\ client'[v] = client[v]
                                    /\ held'[v] = held[v]
                                    /\ beat'[v] = beat[v]
  BY <1>1 DEF FunctionsFit
<1>3. ClientsFit'
  BY <1>2 DEF ClientsFit
<1>. QED  BY <1>2, <1>3

\* A client gives up on its call: after an upload or a completion it reports
\* a failure, otherwise it starts again.
LEMMA GiveUpProtocol ==
    ASSUME Protocol, NEW c \in calls, c.waited, NEW next \in {"claim", "fail"},
           ClientGoes(c.worker, next), next = "fail" => c.op \in {"upload", "complete"},
           calls' = Without(c)
    PROVE  Protocol'
<1>. DEFINE w == c.worker
            u == [c EXCEPT !.waited = FALSE]
<1>1. /\ c \in Calls /\ w \in Worker /\ CallFits(c)
      /\ client[w] = WaitsAt[c.op]
      /\ c.op # "claim" => held[w] = c.lease
      /\ \A d \in calls : d.worker = w /\ d.waited => d = c
  BY WaitedCall DEF Protocol, CallsFit
<1>2. /\ next \in ClientStates /\ next \notin Waiting
      /\ next \in Executing <=> next = "fail"
      /\ next = "fail" => client[w] \in Executing
  BY <1>1 DEF ClientStates, Waiting, Executing, WaitsAt
<1>3. /\ FunctionsFit' /\ ClientsFit'
      /\ client'[w] = next
      /\ held'[w] = IF next \in Executing THEN held[w] ELSE NoLease
      /\ \A v \in Worker : v # w => client'[v] = client[v] /\ held'[v] = held[v]
  BY <1>1, <1>2, ClientGoesLemma DEF Protocol
<1>4. /\ u \in Calls /\ ~u.waited /\ u.worker = w /\ u.op = c.op
      /\ u.lease = c.lease /\ u.step = c.step
  BY <1>1 DEF Calls
<1>5. /\ \A e \in calls' : \/ e \in calls /\ e # c
                           \/ e = u /\ c.step \notin Answers
      /\ \A e \in calls : e # c => e \in calls'
  BY DEF Without
<1>. HIDE DEF u
<1>6. CallsFit'
  <2>1. ASSUME NEW e \in calls' PROVE CallFits(e)'
    <3>1. CASE e \in calls /\ e # c
      <4>1. CallFits(e) /\ (e.waited => e.worker # w)
        BY <3>1, <1>1 DEF Protocol, CallsFit
      <4>. QED  BY <4>1, <1>3 DEF CallFits, HasLease, Calls
    <3>2. CASE e = u /\ c.step \notin Answers
      BY <3>2, <1>1, <1>4 DEF CallFits, HasLease
    <3>. QED  BY <3>1, <3>2, <1>5
  <2>. QED  BY <2>1 DEF CallsFit
<1>7. OneWait'
  <2>1. ASSUME NEW v \in Worker, client'[v] \in Waiting
        PROVE  \E e \in calls' : e.worker = v /\ e.waited
    <3>1. v # w /\ client[v] \in Waiting
      BY <2>1, <1>2, <1>3
    <3>2. PICK e \in calls : e.worker = v /\ e.waited
      BY <3>1 DEF Protocol, OneWait
    <3>. QED  BY <3>1, <3>2, <1>5
  <2>2. ASSUME NEW e \in calls', NEW f \in calls', e.worker = f.worker, e.waited, f.waited
        PROVE  e = f
    BY <2>2, <1>4, <1>5 DEF Protocol, OneWait
  <2>. QED  BY <2>1, <2>2 DEF OneWait
<1>8. LeasesApart'
  <2>. USE DEF HasLease
  <2>. DEFINE Was(e) == IF e = u THEN c ELSE e
  <2>1. ASSUME NEW e \in calls'
        PROVE  /\ Was(e) \in calls /\ Was(e).op = e.op /\ Was(e).lease = e.lease
               /\ e.waited => Was(e) = e /\ e # c
               /\ \A f \in calls' : f # e => Was(f) # Was(e)
    BY <1>4, <1>5, <2>1
  <2>2. \A e \in calls' : ~e.waited \/ e.worker # w
    BY <1>1, <1>4, <1>5
  <2>. HIDE DEF Was
  <2>3. \A v \in Worker : held'[v] # NoLease => held'[v] = held[v]
    BY <1>3
  <2>4. \A v, x \in Worker : held'[v] # NoLease /\ held'[v] = held'[x] => v = x
    BY <2>3 DEF Protocol, LeasesApart
  <2>5. ASSUME NEW e \in calls', e.op = "claim", HasLease(e)
        PROVE  /\ \A v \in Worker : held'[v] # e.lease
               /\ \A f \in calls' : f.lease = e.lease => f = e
    BY <2>1, <2>3, <2>5 DEF Protocol, LeasesApart
  <2>6. ASSUME NEW e \in calls', NEW f \in calls', HasLease(e), e.lease = f.lease, e # f
        PROVE  e.op = "fail" <=> f.op # "fail"
    BY <2>1, <2>6 DEF Protocol, LeasesApart
  <2>7. ASSUME NEW e \in calls', NEW v \in Worker, HasLease(e), held'[v] = e.lease
        PROVE  /\ client'[v] \notin {"build", "upload", "complete"}
               /\ client'[v] \in {"uploading", "completing"} => e.waited
               /\ client'[v] = "fail" => e.op # "fail"
    <3>1. held[v] = e.lease
      BY <2>3, <2>7
    <3>2. CASE v # w
      <4>1. Was(e).waited /\ client[v] \in {"uploading", "completing"} => e.waited
        <5>1. CASE e = u
          <6>1. HasLease(c) /\ held[v] = c.lease
            BY <5>1, <3>1, <2>7, <1>4
          <6>2. c.op # "claim"
            BY <6>1 DEF Protocol, LeasesApart
          <6>. QED  BY <6>1, <6>2, <3>2, <1>1 DEF Protocol, LeasesApart
        <5>2. CASE e # u
          BY <5>2 DEF Was
        <5>. QED  BY <5>1, <5>2
      <4>. QED  BY <3>1, <3>2, <4>1, <2>1, <2>7, <1>3 DEF Protocol, LeasesApart
    <3>3. CASE v = w
      <4>1. next = "fail" /\ c.op \in {"upload", "complete"} /\ held[w] = c.lease
        BY <3>3, <2>7, <1>1, <1>2, <1>3
      <4>2. e.op # "fail"
        <5>1. client[w] \in {"uploading", "completing"}
          BY <4>1, <1>1 DEF WaitsAt
        <5>2. Was(e).waited
          BY <5>1, <3>1, <3>3, <2>1, <2>7 DEF Protocol, LeasesApart
        <5>3. Was(e).op # "claim"
          BY <3>1, <2>1, <2>7 DEF Protocol, LeasesApart
        <5>4. /\ Was(e).worker \in Worker
              /\ held[Was(e).worker] = e.lease
          BY <5>2, <5>3, <2>1, WaitedCall
        <5>5. Was(e).worker = w
          BY <5>4, <3>1, <3>3, <2>7 DEF Protocol, LeasesApart
        <5>6. Was(e) = c
          BY <5>2, <5>5, <2>1, <1>1
        <5>. QED  BY <5>6, <4>1, <2>1
      <4>. QED  BY <4>1, <4>2, <3>3, <1>3
    <3>. QED  BY <3>2, <3>3
  <2>. QED  BY <2>4, <2>5, <2>6, <2>7 DEF LeasesApart
<1>. QED  BY <1>3, <1>6, <1>7, <1>8 DEF Protocol

\* A client moves on between two calls: its lease is in no call.
LEMMA LocalProtocol ==
    ASSUME Protocol, NEW w \in Worker, NEW next \in {"claim", "upload", "fail"},
           client[w] \notin Waiting, ClientGoes(w, next), calls' = calls,
           next # "claim" => client[w] \in {"build", "upload", "complete"}
    PROVE  Protocol'
<1>1. /\ next \in ClientStates /\ next \notin Waiting
      /\ next \in Executing <=> next # "claim"
      /\ next # "claim" => client[w] \in Executing
  BY DEF ClientStates, Waiting, Executing
<1>2. /\ FunctionsFit' /\ ClientsFit'
      /\ client'[w] = next
      /\ held'[w] = IF next \in Executing THEN held[w] ELSE NoLease
      /\ \A v \in Worker : v # w => client'[v] = client[v] /\ held'[v] = held[v]
  BY <1>1, ClientGoesLemma DEF Protocol
<1>3. \A e \in calls : e.waited => e.worker # w
  <2>1. \A e \in calls : e.waited => client[e.worker] = WaitsAt[e.op] /\ e \in Calls
    BY WaitedCall
  <2>. QED  BY <2>1 DEF WaitsAt, Waiting, Calls
<1>4. CallsFit'
  <2>1. ASSUME NEW e \in calls PROVE CallFits(e)'
    <3>1. CallFits(e)
      BY DEF Protocol, CallsFit
    <3>. QED  BY <3>1, <1>2, <1>3 DEF CallFits, HasLease, Calls
  <2>. QED  BY <2>1 DEF CallsFit
<1>5. OneWait'
  BY <1>1, <1>2 DEF Protocol, OneWait
<1>6. LeasesApart'
  <2>. USE DEF HasLease
  <2>1. \A v \in Worker : held'[v] # NoLease => held'[v] = held[v]
    BY <1>2
  <2>2. \A v, x \in Worker : held'[v] # NoLease /\ held'[v] = held'[x] => v = x
    BY <2>1 DEF Protocol, LeasesApart
  <2>3. ASSUME NEW e \in calls, e.op = "claim", HasLease(e)
        PROVE  /\ \A v \in Worker : held'[v] # e.lease
               /\ \A f \in calls : f.lease = e.lease => f = e
    BY <2>1, <2>3 DEF Protocol, LeasesApart
  <2>4. ASSUME NEW e \in calls, NEW v \in Worker, HasLease(e), held'[v] = e.lease
        PROVE  /\ client'[v] \notin {"build", "upload", "complete"}
               /\ client'[v] \in {"uploading", "completing"} => e.waited
               /\ client'[v] = "fail" => e.op # "fail"
    <3>1. held[v] = e.lease
      BY <2>1, <2>4
    <3>2. v # w \/ next = "claim"
      BY <3>1, <2>4 DEF Protocol, LeasesApart
    <3>3. v # w
      BY <3>2, <2>4, <1>1, <1>2
    <3>. QED  BY <3>1, <3>3, <2>4, <1>2 DEF Protocol, LeasesApart
  <2>5. \A e, f \in calls :
            HasLease(e) /\ e.lease = f.lease /\ e # f => (e.op = "fail" <=> f.op # "fail")
    BY DEF Protocol, LeasesApart
  <2>. QED  BY <2>2, <2>3, <2>4, <2>5 DEF LeasesApart
<1>. QED  BY <1>2, <1>4, <1>5, <1>6 DEF Protocol

\* A client is disturbed or killed.
LEMMA StopsProtocol ==
    ASSUME Protocol, NEW w \in Worker, Disturbed(w) \/ KillClient(w)
    PROVE  Protocol'
<1>. DEFINE c == CHOOSE d \in calls : d.worker = w /\ d.waited
<1>1. PICK next \in {"claim", "fail"} :
          /\ ClientGoes(w, next)
          /\ calls' = IF client[w] \in Waiting THEN Without(c) ELSE calls
          /\ next = "fail" => client[w] \in Executing \ {"fail", "failing"}
  BY DEF Disturbed, KillClient
<1>2. CASE client[w] \in Waiting
  <2>1. \E d \in calls : d.worker = w /\ d.waited
    BY <1>2 DEF Protocol, OneWait
  <2>2. c \in calls /\ c.worker = w /\ c.waited
    BY <2>1
  <2>. HIDE DEF c
  <2>3. client[w] = WaitsAt[c.op] /\ c \in Calls
    BY <2>2, WaitedCall
  <2>4. next = "fail" => c.op \in {"upload", "complete"}
    BY <2>3, <1>1 DEF WaitsAt, Executing, Calls
  <2>. QED  BY <1>1, <1>2, <2>2, <2>4, GiveUpProtocol
<1>3. CASE client[w] \notin Waiting
  <2>1. next # "claim" => client[w] \in {"build", "upload", "complete"}
    BY <1>1, <1>3 DEF Executing, Waiting
  <2>. QED  BY <1>1, <1>3, <2>1, LocalProtocol
<1>. QED  BY <1>2, <1>3

LEMMA TimeOutProtocol ==
    ASSUME Protocol, NEW c \in calls, TimeOut(c) PROVE Protocol'
<1>1. c.waited /\ ClientGoes(c.worker, After(c.op, "refused")) /\ calls' = Without(c)
  BY DEF TimeOut
<1>2. c.op \in {"claim", "upload", "complete", "fail"}
  BY <1>1, WaitedCall DEF Calls
<1>3. IF c.op \in {"upload", "complete"}
      THEN After(c.op, "refused") = "fail" ELSE After(c.op, "refused") = "claim"
  BY <1>2 DEF After
<1>. QED  BY <1>1, <1>3, GiveUpProtocol

\* A heartbeat that fails.
LEMMA BeatProtocol ==
    ASSUME Protocol, NEW w \in Worker, beat[w] = "on",
           beat' = [beat EXCEPT ![w] = "failed"], UNCHANGED <<client, held, calls>>
    PROVE  Protocol'
<1>1. FunctionsFit' /\ ClientsFit'
  BY DEF Protocol, FunctionsFit, ClientsFit
<1>2. CallsFit' /\ OneWait' /\ LeasesApart'
  BY DEF Protocol, CallsFit, CallFits, OneWait, LeasesApart, HasLease
<1>. QED  BY <1>1, <1>2 DEF Protocol

\* The API stops: every waited call is refused, the others are gone.
LEMMA ApiStopsProtocol ==
    ASSUME Protocol, ApiStops PROVE Protocol'
<1>. DEFINE Refused(d) == [d EXCEPT !.step = "refused"]
<1>1. /\ calls' = {Refused(c) : c \in {d \in calls : d.waited}}
      /\ UNCHANGED <<client, held, beat>>
  BY DEF ApiStops
<1>2. ASSUME NEW e \in calls
      PROVE  /\ CallFits(e)
             /\ Refused(e) \in Calls /\ Refused(e).step = "refused"
             /\ Refused(e).worker = e.worker /\ Refused(e).op = e.op
             /\ Refused(e).lease = e.lease /\ Refused(e).waited = e.waited
             /\ "refused" \in StepsOf[e.op]
  <2>1. CallFits(e) /\ e \in Calls
    BY DEF Protocol, CallsFit, CallFits
  <2>. QED  BY <2>1 DEF Calls, HandlerSteps, Answers, StepsOf
<1>. HIDE DEF Refused
<1>3. \A e \in calls' : \E c \in calls : c.waited /\ e = Refused(c)
  BY <1>1
<1>4. \A c \in calls : c.waited => Refused(c) \in calls'
  BY <1>1
<1>5. FunctionsFit' /\ ClientsFit'
  BY <1>1 DEF Protocol, FunctionsFit, ClientsFit
<1>6. ASSUME NEW e \in calls' PROVE CallFits(e)'
  <2>1. PICK c \in calls : c.waited /\ e = Refused(c)
    BY <1>3
  <2>. QED  BY <2>1, <1>1, <1>2 DEF CallFits, HasLease
<1>7. OneWait'
  <2>1. ASSUME NEW e \in calls', NEW f \in calls', e.worker = f.worker
        PROVE  e = f
    <3>1. PICK c \in calls : c.waited /\ e = Refused(c)
      BY <1>3
    <3>2. PICK d \in calls : d.waited /\ f = Refused(d)
      BY <1>3
    <3>. QED  BY <2>1, <3>1, <3>2, <1>2 DEF Protocol, OneWait
  <2>2. ASSUME NEW v \in Worker, client'[v] \in Waiting
        PROVE  \E e \in calls' : e.worker = v /\ e.waited
    <3>1. PICK c \in calls : c.worker = v /\ c.waited
      BY <1>1, <2>2 DEF Protocol, OneWait
    <3>. QED  BY <3>1, <1>2, <1>4
  <2>. QED  BY <2>1, <2>2 DEF OneWait
<1>8. LeasesApart'
  <2>. USE DEF HasLease
  <2>1. ASSUME NEW e \in calls', e.op = "claim", HasLease(e)
        PROVE  /\ \A w \in Worker : held[w] # e.lease
               /\ \A f \in calls' : f.lease = e.lease => f = e
    <3>1. PICK c \in calls : c.waited /\ e = Refused(c)
      BY <1>3
    <3>2. ASSUME NEW f \in calls', f.lease = e.lease PROVE f = e
      <4>1. PICK d \in calls : d.waited /\ f = Refused(d)
        BY <1>3
      <4>. QED  BY <2>1, <3>1, <3>2, <4>1, <1>2 DEF Protocol, LeasesApart
    <3>. QED  BY <2>1, <3>1, <3>2, <1>2 DEF Protocol, LeasesApart
  <2>2. ASSUME NEW e \in calls', NEW f \in calls', HasLease(e), e.lease = f.lease, e # f
        PROVE  e.op = "fail" <=> f.op # "fail"
    <3>1. PICK c \in calls : c.waited /\ e = Refused(c)
      BY <1>3
    <3>2. PICK d \in calls : d.waited /\ f = Refused(d)
      BY <1>3
    <3>. QED  BY <2>2, <3>1, <3>2, <1>2 DEF Protocol, LeasesApart
  <2>3. ASSUME NEW e \in calls', NEW v \in Worker, HasLease(e), held[v] = e.lease
        PROVE  /\ client[v] \notin {"build", "upload", "complete"}
               /\ client[v] \in {"uploading", "completing"} => e.waited
               /\ client[v] = "fail" => e.op # "fail"
    <3>1. PICK c \in calls : c.waited /\ e = Refused(c)
      BY <1>3
    <3>. QED  BY <2>3, <3>1, <1>2 DEF Protocol, LeasesApart
  <2>4. \A v, w \in Worker : held[v] # NoLease /\ held[v] = held[w] => v = w
    BY DEF Protocol, LeasesApart
  <2>. QED  BY <1>1, <2>1, <2>2, <2>3, <2>4 DEF LeasesApart
<1>. QED  BY <1>5, <1>6, <1>7, <1>8 DEF Protocol, CallsFit

-----------------------------------------------------------------------------
(* Files and leases.                                                       *)

\* Every lease after the step was somebody's before it.
LeasesFrom ==
    /\ \A w \in Worker : \/ held'[w] = NoLease
                         \/ \E v \in Worker : held'[w] = held[v]
                         \/ \E c \in calls : held'[w] = c.lease
    /\ \A e \in calls' : \/ \E v \in Worker : e.lease = held[v]
                         \/ \E c \in calls : e.lease = c.lease

\* Where a call touches or relies on the files.
AtFiles(c) ==
    \/ c.step \in {"mkdir", "store"}
    \/ c.op = "complete" /\ c.step \in {"rename", "names", "ended", "report"}

\* No call gets nearer to the files than it was.
Quietly ==
    \A e \in calls' : AtFiles(e) =>
        \E b \in calls : b.lease = e.lease /\ b.op = e.op /\ b.step = e.step

LEMMA KnownStep ==
    ASSUME RemoteInv, Inv', RowsKeep, Protocol, LeasesFrom PROVE LeasesKnown'
<1>1. ASSUME NEW l \in Leases \cup {NoLease}, Known(l) PROVE Known(l)'
  <2>1. CASE l \in Leases
    <3>1. l.job \in Job /\ l.generation \in Nat /\ l # NoLease
      BY <2>1, LeaseFields
    <3>2. jobs[l.job].generation \in Nat /\ jobs'[l.job].generation \in Nat
      BY <3>1 DEF RemoteInv, Inv, TypeOK, JobRows
    <3>. QED  BY <1>1, <3>1, <3>2 DEF Known, RowsKeep
  <2>. QED  BY <2>1 DEF Known
<1>2. /\ \A w \in Worker : Known(held[w]) /\ held[w] \in Leases \cup {NoLease}
      /\ \A c \in calls : Known(c.lease) /\ c.lease \in Leases \cup {NoLease}
  BY DEF RemoteInv, LeasesKnown, Protocol, CallsFit, CallFits, Calls, ClientsFit
<1>3. Known(NoLease)'
  BY DEF Known
<1>4. ASSUME NEW w \in Worker PROVE Known(held[w])'
  <2>1. CASE held'[w] = NoLease
    BY <2>1 DEF Known
  <2>2. ASSUME NEW v \in Worker, held'[w] = held[v] PROVE Known(held[w])'
    BY <2>2, <1>1, <1>2 DEF Known
  <2>3. ASSUME NEW c \in calls, held'[w] = c.lease PROVE Known(held[w])'
    BY <2>3, <1>1, <1>2 DEF Known
  <2>. QED  BY <2>1, <2>2, <2>3 DEF LeasesFrom
<1>5. ASSUME NEW e \in calls' PROVE Known(e.lease)'
  BY <1>1, <1>2 DEF LeasesFrom
<1>. QED  BY <1>4, <1>5 DEF LeasesKnown

LEMMA QuietFiles ==
    ASSUME RemoteInv, RowsKeep, NoSuccess, UNCHANGED <<staging, final>>, Quietly
    PROVE  FilesFit' /\ Published'
<1>1. ASSUME NEW e \in calls' PROVE CallFiles(e)'
  <2>1. CASE ~AtFiles(e)
    BY <2>1 DEF AtFiles, CallFiles
  <2>2. CASE AtFiles(e)
    <3>1. PICK b \in calls : b.lease = e.lease /\ b.op = e.op /\ b.step = e.step
      BY <2>2 DEF Quietly
    <3>2. CallFiles(b)
      BY DEF RemoteInv, FilesFit
    <3>. QED  BY <3>1, <3>2 DEF CallFiles, FinalOf, StagingOf
  <2>. QED  BY <2>1, <2>2
<1>2. ASSUME NEW j \in Job PROVE IsPublished(j)'
  <2>. SUFFICES ASSUME jobs'[j].state = "complete"
                PROVE  LET g == jobs'[j].generation IN
                       /\ g \in 1..MaxGeneration
                       /\ final[j][g] = "durable"
                       /\ staging[j][g] = "none"
                       /\ \A e \in calls' : e.step \in {"mkdir", "store"}
                             => e.lease # [job |-> j, generation |-> g]
    BY DEF IsPublished
  <2>1. jobs[j].state = "complete" /\ jobs'[j].generation = jobs[j].generation
    BY DEF NoSuccess, RowsKeep
  <2>2. IsPublished(j)
    BY DEF RemoteInv, Published
  <2>. QED  BY <2>1, <2>2 DEF IsPublished, Quietly, AtFiles
<1>. QED  BY <1>1, <1>2 DEF FilesFit, Published

\* A step that leaves the files alone and brings no call nearer to them.
LEMMA QuietStep ==
    ASSUME RemoteInv, RowsRest, Protocol', UNCHANGED <<staging, final>>,
           faults' = faults \/ Fault, LeasesFrom, Quietly
    PROVE  RemoteInv'
<1>1. StoresFit'
  BY RemoteAssumption DEF RemoteInv, StoresFit, Fault
<1>2. LeasesKnown'
  BY KnownStep DEF RemoteInv, RowsRest
<1>3. FilesFit' /\ Published'
  BY QuietFiles DEF RowsRest
<1>. QED  BY <1>1, <1>2, <1>3 DEF RemoteInv, RowsRest

\* A handler goes on to a step of its operation with the lease it has.
LEMMA GoesLemma ==
    ASSUME RemoteInv, NEW c \in calls, NEW step, step \in StepsOf[c.op], Goes(c, step),
           c.op # "claim" \/ step \in {"mkdir", "lease", "report"} => HasLease(c)
    PROVE  /\ Protocol' /\ LeasesFrom
           /\ UNCHANGED <<client, held, beat>>
           /\ \A e \in calls' : \/ e \in calls /\ e # c
                                \/ /\ e.lease = c.lease /\ e.op = c.op
                                   /\ e.step = step /\ e.waited = c.waited
<1>. DEFINE d == [c EXCEPT !.step = step]
<1>1. c \in Calls
  BY DEF RemoteInv, Protocol, CallsFit, CallFits
<1>2. step \in HandlerSteps
  BY <1>1 DEF Calls, StepsOf, HandlerSteps, Answers
<1>3. /\ d \in Calls /\ d.worker = c.worker /\ d.op = c.op /\ d.waited = c.waited
      /\ d.lease = c.lease /\ d.step = step
  BY <1>1, <1>2 DEF Calls
<1>4. Becomes(c, d)
  BY DEF Goes
<1>. HIDE DEF d
<1>5. Protocol'
  BY <1>3, <1>4, BecomesProtocol DEF RemoteInv, HasLease
<1>6. UNCHANGED <<client, held, beat>>
  BY <1>4 DEF Becomes
<1>7. \A e \in calls' : (e \in calls /\ e # c) \/ e = d
  BY <1>4 DEF Becomes
<1>8. LeasesFrom
  BY <1>3, <1>6, <1>7 DEF LeasesFrom
<1>. QED  BY <1>3, <1>5, <1>6, <1>7, <1>8

LEMMA GoesQuietly ==
    ASSUME RemoteInv, NEW c \in calls, NEW step, step \in StepsOf[c.op], Goes(c, step),
           c.op # "claim" \/ step \in {"mkdir", "lease", "report"} => HasLease(c),
           step \notin {"mkdir", "store", "rename", "names", "ended"},
           step = "report" => c.op # "complete",
           RowsRest, UNCHANGED <<staging, final>>, faults' = faults \/ Fault
    PROVE  RemoteInv'
<1>1. /\ Protocol' /\ LeasesFrom
      /\ \A e \in calls' : e \in calls \/ (e.op = c.op /\ e.step = step)
  BY GoesLemma
<1>2. Quietly
  BY <1>1 DEF Quietly, AtFiles
<1>. QED  BY <1>1, <1>2, QuietStep

-----------------------------------------------------------------------------
(* The steps of a client.                                                  *)

LEMMA RequestStep ==
    ASSUME RemoteInv, NEW w \in Worker, Request(w) PROVE RemoteInv'
<1>1. PICK op, from, to, first :
          /\ Sends(w, from, op, to, first)
          /\ to \in Executing \/ to = "claiming"
          /\ first \in {"look", "renew"} \/ (first = "report" /\ op = "fail")
  BY Zenon DEF Request, Executing
<1>. DEFINE n == [worker |-> w, lease |-> held[w], step |-> first,
                  waited |-> TRUE, seen |-> {}, op |-> op]
<1>2. /\ calls' = calls \cup {n}
      /\ held' = [held EXCEPT ![w] = IF to \in Executing THEN @ ELSE NoLease]
      /\ UNCHANGED <<vars, staging, final, faults>>
  BY <1>1 DEF Sends, ClientGoes
<1>3. n.lease = held[w] /\ n.step = first /\ n.op = op
  OBVIOUS
<1>. HIDE DEF n
<1>4. \A v \in Worker : held'[v] \in {NoLease, held[v]}
  BY <1>2 DEF RemoteInv, Protocol, FunctionsFit
<1>5. LeasesFrom
  BY <1>2, <1>3, <1>4 DEF LeasesFrom
<1>6. Quietly
  BY <1>1, <1>2, <1>3 DEF Quietly, AtFiles
<1>7. RowsRest
  BY <1>2, UnchangedRests DEF RemoteInv
<1>8. Protocol'
  BY RequestProtocol DEF RemoteInv
<1>. QED  BY <1>2, <1>5, <1>6, <1>7, <1>8, QuietStep

LEMMA ReceiveStep ==
    ASSUME RemoteInv, NEW c \in calls, Receive(c) PROVE RemoteInv'
<1>1. /\ calls' = calls \ {c}
      /\ \E l \in {c.lease, NoLease} : held' = [held EXCEPT ![c.worker] = l]
      /\ UNCHANGED <<vars, staging, final, faults>>
  BY DEF Receive
<1>2. \A v \in Worker : held'[v] \in {NoLease, held[v], c.lease}
  BY <1>1 DEF RemoteInv, Protocol, FunctionsFit
<1>3. LeasesFrom
  BY <1>1, <1>2 DEF LeasesFrom
<1>4. Quietly
  BY <1>1 DEF Quietly
<1>5. RowsRest
  BY <1>1, UnchangedRests DEF RemoteInv
<1>6. Protocol'
  BY ReceiveProtocol DEF RemoteInv
<1>. QED  BY <1>1, <1>3, <1>4, <1>5, <1>6, QuietStep

\* A client that moves without an answer takes nothing with it.
LEMMA ClientGoesFrom ==
    ASSUME RemoteInv, NEW w \in Worker, NEW next, ClientGoes(w, next),
           \/ calls' = calls
           \/ \E c \in calls : calls' = Without(c)
    PROVE  LeasesFrom /\ Quietly
<1>1. \A e \in calls' : \E c \in calls : e.lease = c.lease /\ e.op = c.op /\ e.step = c.step
  <2>1. ASSUME NEW c \in calls, calls' = Without(c), NEW e \in calls'
        PROVE  \E b \in calls : e.lease = b.lease /\ e.op = b.op /\ e.step = b.step
    <3>1. c \in Calls
      BY DEF RemoteInv, Protocol, CallsFit, CallFits
    <3>2. e \in calls \/ e = [c EXCEPT !.waited = FALSE]
      BY <2>1 DEF Without
    <3>. QED  BY <3>1, <3>2 DEF Calls
  <2>. QED  BY <2>1
<1>2. held' = [held EXCEPT ![w] = IF next \in Executing THEN @ ELSE NoLease]
  BY DEF ClientGoes
<1>3. \A v \in Worker : held'[v] \in {NoLease, held[v]}
  BY <1>2 DEF RemoteInv, Protocol, FunctionsFit
<1>. QED  BY <1>1, <1>3 DEF LeasesFrom, Quietly

LEMMA ClientStops ==
    ASSUME RemoteInv, NEW w \in Worker, Disturbed(w) \/ KillClient(w) PROVE RemoteInv'
<1>. DEFINE c == CHOOSE d \in calls : d.worker = w /\ d.waited
<1>1. /\ \E next : ClientGoes(w, next)
      /\ calls' = IF client[w] \in Waiting THEN Without(c) ELSE calls
      /\ Fault
      /\ UNCHANGED <<vars, staging, final>>
  BY DEF Disturbed, KillClient
<1>2. client[w] \in Waiting => c \in calls
  <2>1. client[w] \in Waiting => \E d \in calls : d.worker = w /\ d.waited
    BY DEF RemoteInv, Protocol, OneWait
  <2>. QED  BY <2>1
<1>. HIDE DEF c
<1>3. LeasesFrom /\ Quietly
  BY <1>1, <1>2, ClientGoesFrom
<1>4. RowsRest
  BY <1>1, UnchangedRests DEF RemoteInv
<1>5. Protocol'
  BY StopsProtocol DEF RemoteInv
<1>. QED  BY <1>1, <1>3, <1>4, <1>5, QuietStep

LEMMA TimeOutStep ==
    ASSUME RemoteInv, NEW c \in calls, TimeOut(c) PROVE RemoteInv'
<1>1. /\ ClientGoes(c.worker, After(c.op, "refused")) /\ calls' = Without(c)
      /\ Fault /\ UNCHANGED <<vars, staging, final>>
  BY DEF TimeOut
<1>2. c.worker \in Worker
  BY DEF RemoteInv, Protocol, CallsFit, CallFits, Calls
<1>3. LeasesFrom /\ Quietly
  BY <1>1, <1>2, ClientGoesFrom
<1>4. RowsRest
  BY <1>1, UnchangedRests DEF RemoteInv
<1>5. Protocol'
  BY TimeOutProtocol DEF RemoteInv
<1>. QED  BY <1>1, <1>3, <1>4, <1>5, QuietStep

LEMMA BuildStep ==
    ASSUME RemoteInv, NEW w \in Worker, BuildRemote(w) PROVE RemoteInv'
<1>1. PICK next \in {"upload", "fail"} : ClientGoes(w, next)
  BY DEF BuildRemote
<1>2. /\ client[w] = "build" /\ calls' = calls
      /\ UNCHANGED <<vars, staging, final, faults>>
  BY DEF BuildRemote
<1>3. LeasesFrom /\ Quietly
  BY <1>1, <1>2, ClientGoesFrom
<1>4. RowsRest
  BY <1>2, UnchangedRests DEF RemoteInv
<1>5. Protocol'
  BY <1>1, <1>2, LocalProtocol DEF RemoteInv, Waiting
<1>. QED  BY <1>2, <1>3, <1>4, <1>5, QuietStep

\* Nothing of the clients, calls and files changes but a heartbeat.
LEMMA BeatsFrom ==
    ASSUME RemoteInv, UNCHANGED <<held, calls>> PROVE LeasesFrom /\ Quietly
BY DEF LeasesFrom, Quietly

LEMMA RemoteRests ==
    ASSUME RemoteInv, RowsRest, UNCHANGED <<remote, faults>> PROVE RemoteInv'
<1>1. UNCHANGED <<client, held, beat, calls>> /\ UNCHANGED <<staging, final, faults>>
  BY DEF remote
<1>2. Protocol'
  BY <1>1, ProtocolStutters DEF RemoteInv
<1>. QED  BY <1>1, <1>2, BeatsFrom, QuietStep

LEMMA BeatStep ==
    ASSUME RemoteInv, NEW w \in Worker, BeatRemote(w) \/ BeatLost(w) PROVE RemoteInv'
<1>1. beat[w] = "on" /\ held[w] \in Leases
  BY DEF BeatRemote, BeatLost, RemoteInv, Protocol, ClientsFit
<1>2. held[w].job \in Job /\ held[w].generation \in Nat
  BY <1>1, LeaseFields
<1>3. Renew(held[w].job, held[w].generation) => RowsRest
  BY <1>2, ReportRests DEF RemoteInv
<1>4. UNCHANGED vars => RowsRest
  BY UnchangedRests DEF RemoteInv
<1>5. CASE UNCHANGED <<remote, faults>> /\ Renew(held[w].job, held[w].generation)
  BY <1>3, <1>5, RemoteRests
<1>6. CASE /\ beat' = [beat EXCEPT ![w] = "failed"]
           /\ UNCHANGED <<client, held, calls>> /\ UNCHANGED <<staging, final>>
           /\ faults' = faults \/ Fault
           /\ UNCHANGED vars \/ Renew(held[w].job, held[w].generation)
  <2>1. Protocol'
    BY <1>1, <1>6, BeatProtocol DEF RemoteInv
  <2>. QED  BY <1>3, <1>4, <1>6, <2>1, BeatsFrom, QuietStep
<1>7. BeatRemote(w) \/ BeatLost(w) =>
          \/ UNCHANGED <<remote, faults>> /\ Renew(held[w].job, held[w].generation)
          \/ /\ beat' = [beat EXCEPT ![w] = "failed"]
             /\ UNCHANGED <<client, held, calls>> /\ UNCHANGED <<staging, final>>
             /\ faults' = faults \/ Fault
             /\ UNCHANGED vars \/ Renew(held[w].job, held[w].generation)
  BY DEF BeatRemote, BeatLost
<1>. QED  BY <1>5, <1>6, <1>7

-----------------------------------------------------------------------------
(* The steps of a handler.                                                 *)

LEMMA CallLemma ==
    ASSUME RemoteInv, NEW c \in calls
    PROVE  /\ c \in Calls /\ c.step \in StepsOf[c.op] /\ c.worker \in Worker
           /\ c.op \in {"claim", "upload", "complete", "fail"}
           /\ c.op # "claim" \/ c.step \in {"mkdir", "lease", "report"} => HasLease(c)
           /\ HasLease(c) => /\ c.lease \in Leases
                             /\ c.lease.job \in Job
                             /\ c.lease.generation \in 1..MaxGeneration
                             /\ c.lease.generation \in Nat
<1>1. CallFits(c)
  BY DEF RemoteInv, Protocol, CallsFit
<1>2. MaxGeneration \in Nat
  BY JobAssumption
<1>. QED  BY <1>1, <1>2, LeaseFields DEF CallFits, Calls, HasLease

\* The other calls of an attempt are not at its files.
LEMMA AloneAtFiles ==
    ASSUME RemoteInv, NEW c \in calls, HasLease(c), c.op # "fail",
           NEW e \in calls, e # c, e.lease = c.lease
    PROVE  ~AtFiles(e)
<1>1. e.op = "fail"
  BY DEF RemoteInv, Protocol, LeasesApart, HasLease
<1>2. e.step \in {"report", "done", "refused"}
  BY <1>1, CallLemma DEF StepsOf
<1>. QED  BY <1>1, <1>2 DEF AtFiles

Finished(c) ==
    /\ jobs[c.lease.job].state = "complete"
    /\ jobs[c.lease.job].generation = c.lease.generation

\* A step may touch the files of its own attempt only.
ElsewhereSame(c) ==
    \A j \in Job, g \in 1..MaxGeneration :
        j # c.lease.job \/ g # c.lease.generation =>
            staging'[j][g] = staging[j][g] /\ final'[j][g] = final[j][g]

LEMMA SetStagingLemma ==
    ASSUME RemoteInv, NEW c \in calls, HasLease(c), NEW x \in {"none", "made", "filled"},
           SetStaging(c, x), final' = final
    PROVE  /\ staging' \in PerAttempt({"none", "made", "filled"})
           /\ staging'[c.lease.job][c.lease.generation] = x
           /\ final' \in PerAttempt({"none", "renamed", "durable"})
           /\ ElsewhereSame(c)
<1>1. c.lease.job \in Job /\ c.lease.generation \in 1..MaxGeneration
  BY CallLemma
<1>2. staging \in PerAttempt({"none", "made", "filled"})
  BY DEF RemoteInv, StoresFit
<1>3. /\ staging' \in PerAttempt({"none", "made", "filled"})
      /\ staging'[c.lease.job][c.lease.generation] = x
      /\ \A j \in Job, g \in 1..MaxGeneration :
            j # c.lease.job \/ g # c.lease.generation => staging'[j][g] = staging[j][g]
  BY <1>1, <1>2 DEF SetStaging, PerAttempt
<1>. QED  BY <1>3 DEF RemoteInv, StoresFit, ElsewhereSame

LEMMA SetFinalLemma ==
    ASSUME RemoteInv, NEW c \in calls, HasLease(c), NEW x \in {"none", "renamed", "durable"},
           SetFinal(c, x)
    PROVE  /\ final' \in PerAttempt({"none", "renamed", "durable"})
           /\ final'[c.lease.job][c.lease.generation] = x
           /\ \A j \in Job, g \in 1..MaxGeneration :
                 j # c.lease.job \/ g # c.lease.generation => final'[j][g] = final[j][g]
<1>1. c.lease.job \in Job /\ c.lease.generation \in 1..MaxGeneration
  BY CallLemma
<1>2. final \in PerAttempt({"none", "renamed", "durable"})
  BY DEF RemoteInv, StoresFit
<1>. QED  BY <1>1, <1>2 DEF SetFinal, PerAttempt

\* What the calls rely on, at the lease of c, when c is at this step.
StepFiles(c, step) ==
    c.op = "complete" =>
        /\ step = "rename" => FinalOf(c) = "none"
        /\ step = "names" => FinalOf(c) = "renamed" /\ StagingOf(c) = "none"
        /\ step \in {"ended", "report"} => FinalOf(c) = "durable" /\ StagingOf(c) = "none"

\* A handler goes on to a step near the files of its attempt, which has not
\* been completed.
LEMMA TouchStep ==
    ASSUME RemoteInv, NEW c \in calls, NEW step, step \in StepsOf[c.op], Goes(c, step),
           c.op # "fail", HasLease(c), ~Finished(c), RowsRest, faults' = faults \/ Fault,
           staging' \in PerAttempt({"none", "made", "filled"}),
           final' \in PerAttempt({"none", "renamed", "durable"}),
           ElsewhereSame(c), StepFiles(c, step)'
    PROVE  RemoteInv'
<1>. DEFINE l == c.lease
<1>1. /\ Protocol' /\ LeasesFrom
      /\ \A e \in calls' : \/ e \in calls /\ e # c
                           \/ e.lease = l /\ e.op = c.op /\ e.step = step
  BY GoesLemma
<1>2. l \in Leases /\ l.job \in Job /\ l.generation \in 1..MaxGeneration
  BY CallLemma
<1>3. StoresFit'
  BY RemoteAssumption DEF RemoteInv, StoresFit, Fault
<1>4. LeasesKnown'
  BY <1>1, KnownStep DEF RemoteInv, RowsRest
<1>5. ASSUME NEW e \in calls' PROVE CallFiles(e)'
  <2>1. CASE e.lease = l /\ e.op = c.op /\ e.step = step
    BY <2>1 DEF StepFiles, CallFiles, FinalOf, StagingOf
  <2>2. CASE e \in calls /\ e # c /\ e.lease = l
    <3>1. ~AtFiles(e)
      BY <2>2, AloneAtFiles
    <3>. QED  BY <3>1 DEF AtFiles, CallFiles
  <2>3. CASE e \in calls /\ e # c /\ e.lease # l
    <3>1. CallFiles(e)
      BY <2>3 DEF RemoteInv, FilesFit
    <3>2. CASE e.op = "complete"
      <4>1. e.lease \in Leases /\ e.lease.job \in Job /\ e.lease.generation \in 1..MaxGeneration
        BY <2>3, <3>2, CallLemma
      <4>2. e.lease.job # l.job \/ e.lease.generation # l.generation
        BY <2>3, <4>1, <1>2, LeaseFields
      <4>. QED  BY <3>1, <4>1, <4>2 DEF CallFiles, FinalOf, StagingOf, ElsewhereSame
    <3>. QED  BY <3>2 DEF CallFiles
  <2>. QED  BY <1>1, <2>1, <2>2, <2>3
<1>6. ASSUME NEW j \in Job PROVE IsPublished(j)'
  <2>. DEFINE g == jobs'[j].generation
  <2>. SUFFICES ASSUME jobs'[j].state = "complete"
                PROVE  /\ g \in 1..MaxGeneration
                       /\ final'[j][g] = "durable"
                       /\ staging'[j][g] = "none"
                       /\ \A e \in calls' : e.step \in {"mkdir", "store"}
                             => e.lease # [job |-> j, generation |-> g]
    BY DEF IsPublished
  <2>1. jobs[j].state = "complete" /\ jobs[j].generation = g
    BY DEF RowsRest, NoSuccess, RowsKeep
  <2>2. j # l.job \/ g # l.generation
    BY <2>1 DEF Finished
  <2>3. /\ g \in 1..MaxGeneration
        /\ final[j][g] = "durable"
        /\ staging[j][g] = "none"
        /\ \A e \in calls : e.step \in {"mkdir", "store"}
                               => e.lease # [job |-> j, generation |-> g]
    BY <2>1 DEF RemoteInv, Published, IsPublished
  <2>4. final'[j][g] = final[j][g] /\ staging'[j][g] = staging[j][g]
    BY <2>2, <2>3 DEF ElsewhereSame
  <2>5. l # [job |-> j, generation |-> g]
    BY <2>2
  <2>. QED  BY <1>1, <2>3, <2>4, <2>5
<1>. QED  BY <1>1, <1>3, <1>4, <1>5, <1>6 DEF RemoteInv, RowsRest, FilesFit, Published

LEMMA LookStep ==
    ASSUME RemoteInv, NEW c \in calls, LookRemote(c) PROVE RemoteInv'
<1>. DEFINE d == [c EXCEPT !.step = "take", !.seen = {primary', lookahead'} \ {NoBatch}]
<1>1. /\ c.op = "claim" /\ Becomes(c, d) /\ UNCHANGED <<staging, final, faults>>
  BY DEF LookRemote, At
<1>2. RowsRest
  BY UnchangedRests, BlockRests DEF LookRemote, RemoteInv, BlockStep
<1>3. c \in Calls /\ {primary', lookahead'} \ {NoBatch} \subseteq Batch
  BY <1>2, CallLemma DEF RowsRest, Inv, TypeOK
<1>4. /\ d \in Calls /\ d.worker = c.worker /\ d.op = c.op /\ d.waited = c.waited
      /\ d.lease = c.lease /\ d.step = "take"
  BY <1>3 DEF Calls, HandlerSteps
<1>. HIDE DEF d
<1>5. Protocol'
  BY <1>1, <1>4, BecomesProtocol DEF RemoteInv, StepsOf
<1>6. /\ \A e \in calls' : e \in calls \/ e = d
      /\ held' = held
  BY <1>1 DEF Becomes
<1>7. LeasesFrom /\ Quietly
  BY <1>4, <1>6 DEF LeasesFrom, Quietly, AtFiles
<1>. QED  BY <1>1, <1>2, <1>5, <1>7, QuietStep

LEMMA GateStep ==
    ASSUME RemoteInv, NEW c \in calls, GateRemote(c) PROVE RemoteInv'
<1>1. /\ c.op = "claim" /\ Goes(c, "empty")
      /\ UNCHANGED vars /\ UNCHANGED <<staging, final>> /\ faults' = faults
  BY DEF GateRemote, At
<1>2. RowsRest
  BY <1>1, UnchangedRests DEF RemoteInv
<1>. QED  BY <1>1, <1>2, GoesQuietly DEF StepsOf

\* A lease that was just granted is newer than every other.
LEMMA TakeStep ==
    ASSUME RemoteInv, NEW c \in calls, TakeRemote(c) PROVE RemoteInv'
<1>1. c.op = "claim" /\ UNCHANGED <<staging, final, faults>>
  BY DEF TakeRemote, At
<1>2. PICK j \in Job :
          /\ Claim(j, c.seen, Job)
          /\ Becomes(c, [c EXCEPT !.step = "mkdir",
                                  !.lease = [job |-> j, generation |-> jobs'[j].generation]])
  BY DEF TakeRemote
<1>. DEFINE l == [job |-> j, generation |-> jobs'[j].generation]
            d == [c EXCEPT !.step = "mkdir", !.lease = l]
<1>3. /\ RowsRest
      /\ jobs'[j].generation = jobs[j].generation + 1
      /\ jobs'[j].generation \in 1..MaxGeneration
      /\ jobs'[j].state # "complete"
  BY <1>2, ClaimRests DEF RemoteInv
<1>4. l \in Leases /\ l.job = j /\ l.generation = jobs[j].generation + 1
  BY <1>3 DEF Leases
<1>5. jobs[j].generation \in Nat /\ jobs'[j].generation \in Nat
  BY <1>3, JobAssumption DEF RemoteInv, Inv, TypeOK, JobRows
<1>6. /\ d \in Calls /\ d.worker = c.worker /\ d.op = c.op /\ d.waited = c.waited
      /\ d.lease = l /\ d.step = "mkdir"
  BY <1>4, CallLemma DEF Calls, HandlerSteps
<1>. HIDE DEF d, l
<1>7. Becomes(c, d)
  BY <1>2 DEF d, l
<1>8. l # NoLease /\ ~Known(l)
  BY <1>4, <1>5, LeaseFields DEF Known
<1>9. /\ \A w \in Worker : held[w] # l
      /\ \A e \in calls : e.lease # l
  BY <1>8 DEF RemoteInv, LeasesKnown
<1>10. Protocol'
  BY <1>1, <1>6, <1>7, <1>8, <1>9, TakeProtocol DEF RemoteInv, HasLease
<1>11. /\ held' = held
       /\ \A e \in calls' : e \in calls \/ e = d
  BY <1>7 DEF Becomes
<1>12. Inv' /\ RowsKeep /\ NoSuccess
  BY <1>3 DEF RowsRest
<1>13. LeasesKnown'
  <2>1. ASSUME NEW m \in Leases \cup {NoLease}, Known(m) PROVE Known(m)'
    <3>1. CASE m \in Leases
      <4>1. m.job \in Job /\ m.generation \in Nat /\ m # NoLease
        BY <3>1, LeaseFields
      <4>2. jobs[m.job].generation \in Nat /\ jobs'[m.job].generation \in Nat
        BY <4>1, <1>12 DEF RemoteInv, Inv, TypeOK, JobRows
      <4>. QED  BY <2>1, <1>12, <4>1, <4>2 DEF Known, RowsKeep
    <3>. QED  BY <3>1 DEF Known
  <2>2. l.generation <= jobs'[l.job].generation
    BY <1>3, <1>4, <1>5
  <2>3. /\ \A w \in Worker : Known(held[w]) /\ held[w] \in Leases \cup {NoLease}
        /\ \A e \in calls : Known(e.lease) /\ e.lease \in Leases \cup {NoLease}
    BY DEF RemoteInv, LeasesKnown, Protocol, CallsFit, CallFits, Calls, ClientsFit
  <2>4. ASSUME NEW w \in Worker PROVE Known(held[w])'
    BY <1>11, <2>1, <2>3 DEF Known
  <2>5. ASSUME NEW e \in calls' PROVE Known(e.lease)'
    <3>1. CASE e \in calls
      BY <3>1, <2>1, <2>3
    <3>2. CASE e = d
      BY <3>2, <1>6, <2>2 DEF Known
    <3>. QED  BY <3>1, <3>2, <1>11
  <2>. QED  BY <2>4, <2>5 DEF LeasesKnown
<1>14. FilesFit'
  <2>1. ASSUME NEW e \in calls' PROVE CallFiles(e)'
    <3>1. e \in calls => CallFiles(e)
      BY DEF RemoteInv, FilesFit
    <3>. QED  BY <1>1, <1>6, <1>11, <3>1 DEF CallFiles, FinalOf, StagingOf
  <2>. QED  BY <2>1 DEF FilesFit
<1>15. ASSUME NEW k \in Job PROVE IsPublished(k)'
  <2>. SUFFICES ASSUME jobs'[k].state = "complete"
                PROVE  LET g == jobs'[k].generation IN
                       /\ g \in 1..MaxGeneration
                       /\ final'[k][g] = "durable"
                       /\ staging'[k][g] = "none"
                       /\ \A e \in calls' : e.step \in {"mkdir", "store"}
                             => e.lease # [job |-> k, generation |-> g]
    BY DEF IsPublished
  <2>1. jobs[k].state = "complete" /\ jobs'[k].generation = jobs[k].generation /\ k # j
    BY <1>3, <1>12 DEF NoSuccess, RowsKeep
  <2>2. IsPublished(k)
    BY DEF RemoteInv, Published
  <2>3. l # [job |-> k, generation |-> jobs'[k].generation]
    BY <1>4, <2>1
  <2>. QED  BY <1>1, <1>6, <1>11, <2>1, <2>2, <2>3 DEF IsPublished
<1>16. StoresFit'
  BY <1>1 DEF RemoteInv, StoresFit
<1>. QED  BY <1>10, <1>12, <1>13, <1>14, <1>15, <1>16 DEF RemoteInv, Published

LEMMA TakeNoneStep ==
    ASSUME RemoteInv, NEW c \in calls, TakeNoneRemote(c) PROVE RemoteInv'
<1>1. /\ c.op = "claim" /\ Goes(c, "finish") /\ jobs' = Recovered(jobs)
      /\ UNCHANGED <<quarantined, state, admissions>>
      /\ UNCHANGED <<staging, final>> /\ faults' = faults
  BY DEF TakeNoneRemote, At
<1>2. RowsRest
  BY <1>1, RecoveryRests DEF RemoteInv
<1>. QED  BY <1>1, <1>2, GoesQuietly DEF StepsOf

LEMMA FinishBlockStep ==
    ASSUME RemoteInv, NEW c \in calls, FinishBlockRemote(c) PROVE RemoteInv'
<1>1. /\ c.op = "claim" /\ Goes(c, "empty")
      /\ FinishActiveBlockIfDrained \/ UNCHANGED vars
      /\ UNCHANGED <<staging, final>> /\ faults' = faults
  BY DEF FinishBlockRemote, At
<1>2. RowsRest
  BY <1>1, UnchangedRests, BlockRests DEF RemoteInv, BlockStep
<1>. QED  BY <1>1, <1>2, GoesQuietly DEF StepsOf

\* The attempt of a claim that makes its directory has not been completed.
LEMMA MkdirStep ==
    ASSUME RemoteInv, NEW c \in calls, MkdirRemote(c) PROVE RemoteInv'
<1>1. c.op = "claim" /\ c.step = "mkdir" /\ final' = final
  BY DEF MkdirRemote, At
<1>2. HasLease(c) /\ c.lease \in Leases /\ c.lease.job \in Job
      /\ c.lease.generation \in 1..MaxGeneration
  BY <1>1, CallLemma
<1>3. UNCHANGED vars => RowsRest
  BY UnchangedRests DEF RemoteInv
<1>4. CASE /\ SetStaging(c, IF StagingOf(c) = "none" THEN "made" ELSE StagingOf(c))
           /\ Goes(c, "lease")
           /\ UNCHANGED <<vars, faults>>
  <2>1. ~Finished(c)
    <3>1. c.lease = [job |-> c.lease.job, generation |-> c.lease.generation]
      BY <1>2 DEF Leases
    <3>. QED  BY <1>1, <1>2, <3>1 DEF Finished, RemoteInv, Published, IsPublished
  <2>. DEFINE x == IF StagingOf(c) = "none" THEN "made" ELSE StagingOf(c)
  <2>2. x \in {"none", "made", "filled"}
    BY <1>2 DEF StagingOf, RemoteInv, StoresFit, PerAttempt
  <2>. HIDE DEF x
  <2>3. staging' \in PerAttempt({"none", "made", "filled"}) /\ ElsewhereSame(c)
    BY <1>1, <1>2, <1>4, <2>2, SetStagingLemma DEF x
  <2>4. final' \in PerAttempt({"none", "renamed", "durable"})
    BY <1>1 DEF RemoteInv, StoresFit
  <2>5. StepFiles(c, "lease")'
    BY <1>1 DEF StepFiles
  <2>. QED  BY <1>1, <1>2, <1>3, <1>4, <2>1, <2>3, <2>4, <2>5, TouchStep DEF StepsOf
<1>5. CASE Fault /\ Goes(c, "report") /\ UNCHANGED <<vars, staging>>
  BY <1>1, <1>2, <1>3, <1>5, GoesQuietly DEF StepsOf
<1>. QED  BY <1>4, <1>5 DEF MkdirRemote

LEMMA HandBackStep ==
    ASSUME RemoteInv, NEW c \in calls, HandBackRemote(c) PROVE RemoteInv'
<1>1. /\ c.op = "claim" /\ c.step = "report" /\ Goes(c, "refused")
      /\ UNCHANGED <<staging, final>> /\ faults' = faults
      /\ \/ Fail(c.lease.job, c.lease.generation, TRUE, FALSE, NoClass)
         \/ UNCHANGED vars
  BY DEF HandBackRemote, At
<1>2. HasLease(c) /\ c.lease.job \in Job /\ c.lease.generation \in Nat
  BY <1>1, CallLemma
<1>3. RowsRest
  BY <1>1, <1>2, UnchangedRests, ReportRests DEF RemoteInv
<1>. QED  BY <1>1, <1>3, GoesQuietly DEF StepsOf

\* A lease that is still held is not completed.
LEMMA FencedUnfinished ==
    ASSUME NEW c, Fenced(c) PROVE ~Finished(c)
BY DEF Fenced, HoldsLease, Finished, Live, LiveStates

LEMMA SameFiles ==
    ASSUME RemoteInv, NEW c, UNCHANGED <<staging, final>>
    PROVE  /\ staging' \in PerAttempt({"none", "made", "filled"})
           /\ final' \in PerAttempt({"none", "renamed", "durable"})
           /\ ElsewhereSame(c)
BY DEF RemoteInv, StoresFit, ElsewhereSame

LEMMA RenewStep ==
    ASSUME RemoteInv, NEW c \in calls, RenewRemote(c) PROVE RemoteInv'
<1>1. c.step = "renew" /\ UNCHANGED <<staging, final>> /\ faults' = faults
  BY DEF RenewRemote
<1>2. c.op \in {"upload", "complete"}
  BY <1>1, CallLemma DEF StepsOf
<1>3. HasLease(c) /\ c.lease.job \in Job /\ c.lease.generation \in Nat
  BY <1>2, CallLemma
<1>4. CASE /\ Fenced(c)
           /\ Renew(c.lease.job, c.lease.generation)
           /\ Goes(c, IF c.op = "upload" THEN "store" ELSE "begin")
  <2>1. RowsRest
    BY <1>3, <1>4, ReportRests DEF RemoteInv
  <2>2. CASE c.op = "complete"
    BY <1>1, <1>3, <1>4, <2>1, <2>2, GoesQuietly DEF StepsOf
  <2>3. CASE c.op = "upload"
    <3>1. StepFiles(c, "store")'
      BY <2>3 DEF StepFiles
    <3>. QED  BY <1>1, <1>3, <1>4, <2>1, <2>3, <3>1, FencedUnfinished, SameFiles, TouchStep
              DEF StepsOf
  <2>. QED  BY <1>2, <2>2, <2>3
<1>5. CASE Goes(c, "refused") /\ UNCHANGED vars
  <2>1. RowsRest
    BY <1>5, UnchangedRests DEF RemoteInv
  <2>. QED  BY <1>1, <1>2, <1>3, <1>5, <2>1, GoesQuietly DEF StepsOf
<1>. QED  BY <1>4, <1>5 DEF RenewRemote

LEMMA StoreStep ==
    ASSUME RemoteInv, NEW c \in calls, StoreRemote(c) PROVE RemoteInv'
<1>1. c.op = "upload" /\ c.step = "store" /\ UNCHANGED vars /\ final' = final
  BY DEF StoreRemote, At
<1>2. HasLease(c) /\ c.lease \in Leases
  BY <1>1, CallLemma
<1>3. ~Finished(c)
  <2>1. /\ c.lease = [job |-> c.lease.job, generation |-> c.lease.generation]
        /\ c.lease.job \in Job
    BY <1>2 DEF Leases
  <2>. QED  BY <1>1, <2>1 DEF Finished, RemoteInv, Published, IsPublished
<1>4. RowsRest
  BY <1>1, UnchangedRests DEF RemoteInv
<1>5. PICK x \in {"made", "filled"}, step \in {"done", "refused"} :
          /\ SetStaging(c, x)
          /\ Goes(c, step)
          /\ faults' = faults \/ Fault
  BY DEF StoreRemote
<1>6. /\ staging' \in PerAttempt({"none", "made", "filled"})
      /\ final' \in PerAttempt({"none", "renamed", "durable"})
      /\ ElsewhereSame(c)
  <2>1. x \in {"none", "made", "filled"}
    OBVIOUS
  <2>. QED  BY <1>1, <1>2, <1>5, <2>1, SetStagingLemma
<1>7. StepFiles(c, step)'
  BY <1>1 DEF StepFiles
<1>8. step \in StepsOf[c.op] /\ c.op # "fail" /\ c.op # "claim"
  BY <1>1 DEF StepsOf
<1>. QED  BY <1>2, <1>3, <1>4, <1>5, <1>6, <1>7, <1>8, TouchStep

LEMMA BeginStep ==
    ASSUME RemoteInv, NEW c \in calls, BeginRemote(c) PROVE RemoteInv'
<1>1. /\ c.op = "complete" /\ UNCHANGED <<staging, final>> /\ faults' = faults
      /\ \/ RecordStarted(c.lease.job, c.lease.generation, Publication) /\ Goes(c, "flush")
         \/ UNCHANGED vars /\ Goes(c, "refused")
  BY DEF BeginRemote, At
<1>2. HasLease(c) /\ c.lease.job \in Job /\ c.lease.generation \in Nat
  BY <1>1, CallLemma
<1>3. RowsRest
  BY <1>1, <1>2, UnchangedRests, ReportRests DEF RemoteInv
<1>. QED  BY <1>1, <1>2, <1>3, GoesQuietly DEF StepsOf

\* What has been published is not published again.
LEMMA UnpublishedUnfinished ==
    ASSUME RemoteInv, NEW c \in calls, HasLease(c), FinalOf(c) # "durable"
    PROVE  ~Finished(c)
<1>1. c.lease.job \in Job
  BY CallLemma
<1>. QED  BY <1>1 DEF Finished, FinalOf, RemoteInv, Published, IsPublished

LEMMA FlushStep ==
    ASSUME RemoteInv, NEW c \in calls, FlushRemote(c) PROVE RemoteInv'
<1>1. /\ c.op = "complete" /\ UNCHANGED vars /\ UNCHANGED <<staging, final>>
      /\ faults' = faults
      /\ Goes(c, IF FinalOf(c) = "none" /\ StagingOf(c) = "filled" THEN "rename" ELSE "broken")
  BY DEF FlushRemote, At
<1>2. HasLease(c)
  BY <1>1, CallLemma
<1>3. RowsRest
  BY <1>1, UnchangedRests DEF RemoteInv
<1>4. CASE FinalOf(c) = "none" /\ StagingOf(c) = "filled"
  <2>1. StepFiles(c, "rename")'
    BY <1>1, <1>4 DEF StepFiles, FinalOf
  <2>2. ~Finished(c)
    BY <1>2, <1>4, UnpublishedUnfinished
  <2>. QED  BY <1>1, <1>2, <1>3, <1>4, <2>1, <2>2, SameFiles, TouchStep DEF StepsOf
<1>5. CASE ~(FinalOf(c) = "none" /\ StagingOf(c) = "filled")
  BY <1>1, <1>2, <1>3, <1>5, GoesQuietly DEF StepsOf
<1>. QED  BY <1>4, <1>5

LEMMA RenameStep ==
    ASSUME RemoteInv, NEW c \in calls, RenameRemote(c) PROVE RemoteInv'
<1>1. /\ c.op = "complete" /\ c.step = "rename" /\ UNCHANGED vars /\ faults' = faults
      /\ SetStaging(c, "none") /\ SetFinal(c, "renamed") /\ Goes(c, "names")
  BY DEF RenameRemote, At
<1>2. HasLease(c) /\ c.lease.job \in Job /\ c.lease.generation \in 1..MaxGeneration
  BY <1>1, CallLemma
<1>3. RowsRest
  BY <1>1, UnchangedRests DEF RemoteInv
<1>4. ~Finished(c)
  <2>1. CallFiles(c)
    BY DEF RemoteInv, FilesFit
  <2>. QED  BY <1>1, <1>2, <2>1, UnpublishedUnfinished DEF CallFiles
<1>5. /\ staging' \in PerAttempt({"none", "made", "filled"})
      /\ staging'[c.lease.job][c.lease.generation] = "none"
      /\ \A j \in Job, g \in 1..MaxGeneration :
            j # c.lease.job \/ g # c.lease.generation => staging'[j][g] = staging[j][g]
  BY <1>1, <1>2 DEF RemoteInv, StoresFit, SetStaging, PerAttempt
<1>6. /\ final' \in PerAttempt({"none", "renamed", "durable"})
      /\ final'[c.lease.job][c.lease.generation] = "renamed"
      /\ \A j \in Job, g \in 1..MaxGeneration :
            j # c.lease.job \/ g # c.lease.generation => final'[j][g] = final[j][g]
  BY <1>1, <1>2, SetFinalLemma
<1>7. ElsewhereSame(c)
  BY <1>5, <1>6 DEF ElsewhereSame
<1>8. StepFiles(c, "names")'
  BY <1>5, <1>6 DEF StepFiles, FinalOf, StagingOf
<1>. QED  BY <1>1, <1>2, <1>3, <1>4, <1>5, <1>6, <1>7, <1>8, TouchStep DEF StepsOf

LEMMA NamesStep ==
    ASSUME RemoteInv, NEW c \in calls, NamesRemote(c) PROVE RemoteInv'
<1>1. /\ c.op = "complete" /\ c.step = "names" /\ UNCHANGED vars
      /\ staging' = staging /\ faults' = faults
      /\ SetFinal(c, "durable") /\ Goes(c, "ended")
  BY DEF NamesRemote, At
<1>2. HasLease(c) /\ c.lease.job \in Job /\ c.lease.generation \in 1..MaxGeneration
  BY <1>1, CallLemma
<1>3. RowsRest
  BY <1>1, UnchangedRests DEF RemoteInv
<1>4. FinalOf(c) = "renamed" /\ StagingOf(c) = "none"
  BY <1>1 DEF RemoteInv, FilesFit, CallFiles
<1>5. ~Finished(c)
  BY <1>2, <1>4, UnpublishedUnfinished
<1>6. /\ final' \in PerAttempt({"none", "renamed", "durable"})
      /\ final'[c.lease.job][c.lease.generation] = "durable"
      /\ \A j \in Job, g \in 1..MaxGeneration :
            j # c.lease.job \/ g # c.lease.generation => final'[j][g] = final[j][g]
  BY <1>1, <1>2, SetFinalLemma
<1>7. staging' \in PerAttempt({"none", "made", "filled"}) /\ ElsewhereSame(c)
  BY <1>1, <1>6 DEF RemoteInv, StoresFit, ElsewhereSame
<1>8. StepFiles(c, "ended")'
  BY <1>1, <1>4, <1>6 DEF StepFiles, FinalOf, StagingOf
<1>. QED  BY <1>1, <1>2, <1>3, <1>5, <1>6, <1>7, <1>8, TouchStep DEF StepsOf

LEMMA EndedStep ==
    ASSUME RemoteInv, NEW c \in calls, EndedRemote(c) PROVE RemoteInv'
<1>1. c.step \in {"ended", "broken"} /\ UNCHANGED <<staging, final>> /\ faults' = faults
  BY DEF EndedRemote
<1>2. c.op = "complete"
  BY <1>1, CallLemma DEF StepsOf
<1>3. HasLease(c) /\ c.lease.job \in Job /\ c.lease.generation \in Nat
  BY <1>2, CallLemma
<1>4. RowsRest
  BY <1>3, UnchangedRests, ReportRests DEF RemoteInv, EndedRemote
<1>5. CASE Fenced(c) /\ c.step = "ended"
  <2>1. Goes(c, "report")
    BY <1>5 DEF EndedRemote
  <2>2. CallFiles(c)
    BY DEF RemoteInv, FilesFit
  <2>3. StepFiles(c, "report")'
    BY <1>1, <1>2, <1>5, <2>2 DEF StepFiles, CallFiles, FinalOf, StagingOf
  <2>. QED  BY <1>1, <1>2, <1>3, <1>4, <1>5, <2>1, <2>3, FencedUnfinished, SameFiles, TouchStep
            DEF StepsOf
<1>6. CASE ~(Fenced(c) /\ c.step = "ended")
  <2>1. Goes(c, "refused")
    BY <1>6 DEF EndedRemote
  <2>. QED  BY <1>1, <1>2, <1>3, <1>4, <2>1, GoesQuietly DEF StepsOf
<1>. QED  BY <1>5, <1>6

\* complete: the one step that finishes a job, after the files are in place,
\* with no other call of the attempt left at them.
LEMMA ReportStep ==
    ASSUME RemoteInv, NEW c \in calls, ReportRemote(c) PROVE RemoteInv'
<1>. DEFINE l == c.lease
<1>1. /\ c.op = "complete" /\ c.step = "report"
      /\ UNCHANGED <<staging, final>> /\ faults' = faults
  BY DEF ReportRemote, At
<1>2. /\ HasLease(c) /\ l.job \in Job /\ l.generation \in Nat
      /\ l \in Leases /\ l.generation \in 1..MaxGeneration
  BY <1>1, CallLemma
<1>3. CASE UNCHANGED vars /\ Goes(c, "refused")
  <2>1. RowsRest
    BY <1>3, UnchangedRests DEF RemoteInv
  <2>. QED  BY <1>1, <1>2, <1>3, <2>1, GoesQuietly DEF StepsOf
<1>4. CASE Complete(l.job, l.generation) /\ Goes(c, "done")
  <2>1. /\ Inv' /\ RowsKeep
        /\ jobs'[l.job].generation = l.generation
        /\ \A k \in Job \ {l.job} : jobs'[k].state = "complete" => jobs[k].state = "complete"
    BY <1>2, <1>4, CompleteMoves DEF RemoteInv
  <2>2. /\ Protocol' /\ LeasesFrom
        /\ \A e \in calls' : \/ e \in calls /\ e # c
                             \/ e.lease = l /\ e.op = c.op /\ e.step = "done"
    BY <1>1, <1>2, <1>4, GoesLemma DEF StepsOf
  <2>3. FinalOf(c) = "durable" /\ StagingOf(c) = "none"
    BY <1>1 DEF RemoteInv, FilesFit, CallFiles
  <2>4. ASSUME NEW e \in calls' PROVE CallFiles(e)'
    <3>1. e \in calls => CallFiles(e)
      BY DEF RemoteInv, FilesFit
    <3>. QED  BY <1>1, <2>2, <3>1 DEF CallFiles, FinalOf, StagingOf
  <2>5. ASSUME NEW j \in Job, jobs'[j].state = "complete" PROVE IsPublished(j)'
    <3>1. CASE j # l.job
      <4>1. jobs[j].state = "complete" /\ jobs'[j].generation = jobs[j].generation
        BY <2>1, <2>5, <3>1 DEF RowsKeep
      <4>2. IsPublished(j)
        BY DEF RemoteInv, Published
      <4>. QED  BY <1>1, <2>2, <4>1, <4>2 DEF IsPublished
    <3>2. CASE j = l.job
      <4>1. l = [job |-> j, generation |-> jobs'[j].generation]
        BY <1>2, <2>1, <3>2 DEF Leases
      <4>2. ASSUME NEW e \in calls', e.lease = l PROVE e.step \notin {"mkdir", "store"}
        <5>1. CASE e \in calls /\ e # c
          BY <1>1, <1>2, <4>2, <5>1, AloneAtFiles DEF AtFiles
        <5>. QED  BY <2>2, <5>1
      <4>. QED  BY <1>1, <1>2, <2>1, <2>3, <3>2, <4>1, <4>2 DEF IsPublished, FinalOf, StagingOf
    <3>. QED  BY <3>1, <3>2
  <2>6. LeasesKnown'
    BY <2>1, <2>2, KnownStep DEF RemoteInv
  <2>7. StoresFit'
    BY <1>1 DEF RemoteInv, StoresFit
  <2>8. Published'
    BY <2>5 DEF Published, IsPublished
  <2>. QED  BY <2>1, <2>2, <2>4, <2>6, <2>7, <2>8 DEF RemoteInv, FilesFit
<1>. QED  BY <1>3, <1>4 DEF ReportRemote

LEMMA FailStep ==
    ASSUME RemoteInv, NEW c \in calls, FailRemote(c) PROVE RemoteInv'
<1>1. /\ c.op = "fail" /\ UNCHANGED <<staging, final>> /\ faults' = faults
      /\ \/ /\ \E retryable, pathological \in BOOLEAN :
                  Fail(c.lease.job, c.lease.generation, retryable, pathological, NoClass)
            /\ Goes(c, "done")
         \/ UNCHANGED vars /\ Goes(c, "refused")
  BY DEF FailRemote, At
<1>2. HasLease(c) /\ c.lease.job \in Job /\ c.lease.generation \in Nat
  BY <1>1, CallLemma
<1>3. RowsRest
  BY <1>1, <1>2, UnchangedRests, ReportRests DEF RemoteInv
<1>. QED  BY <1>1, <1>2, <1>3, GoesQuietly DEF StepsOf

LEMMA BreaksStep ==
    ASSUME RemoteInv, NEW c \in calls, BreaksRemote(c) PROVE RemoteInv'
<1>1. /\ c.op = "complete" /\ UNCHANGED <<staging, final>> /\ Fault
      /\ UNCHANGED vars /\ Goes(c, "broken")
  BY DEF BreaksRemote
<1>2. HasLease(c)
  BY <1>1, CallLemma
<1>3. RowsRest
  BY <1>1, UnchangedRests DEF RemoteInv
<1>. QED  BY <1>1, <1>2, <1>3, GoesQuietly DEF StepsOf

\* The API stops; a power loss undoes a rename that was not yet flushed,
\* which no answer has told of.
LEMMA ApiStopsStep ==
    ASSUME RemoteInv, ApiStops PROVE RemoteInv'
<1>. DEFINE Refused(d) == [d EXCEPT !.step = "refused"]
<1>1. /\ calls' = {Refused(c) : c \in {d \in calls : d.waited}}
      /\ UNCHANGED vars /\ UNCHANGED <<client, held, beat>> /\ Fault
  BY DEF ApiStops
<1>2. ASSUME NEW c \in calls
      PROVE  /\ Refused(c).step = "refused" /\ Refused(c).op = c.op
             /\ Refused(c).lease = c.lease
  BY CallLemma DEF Calls
<1>. HIDE DEF Refused
<1>3. \A e \in calls' : \E c \in calls : e.step = "refused" /\ e.op = c.op /\ e.lease = c.lease
  BY <1>1, <1>2
<1>4. RowsRest
  BY <1>1, UnchangedRests DEF RemoteInv
<1>5. Protocol'
  BY ApiStopsProtocol DEF RemoteInv
<1>6. LeasesFrom
  BY <1>1, <1>3 DEF LeasesFrom
<1>7. LeasesKnown'
  BY <1>4, <1>6, KnownStep DEF RemoteInv, RowsRest
<1>8. FilesFit'
  BY <1>3 DEF FilesFit, CallFiles
<1>9. /\ staging' \in PerAttempt({"none", "made", "filled"})
      /\ final' \in PerAttempt({"none", "renamed", "durable"})
      /\ \A j \in Job, g \in 1..MaxGeneration :
            final[j][g] # "renamed" => staging'[j][g] = staging[j][g] /\ final'[j][g] = final[j][g]
  <2>1. CASE UNCHANGED <<staging, final>>
    BY <2>1 DEF RemoteInv, StoresFit
  <2>2. ASSUME NEW j \in Job, NEW g \in 1..MaxGeneration, final[j][g] = "renamed",
               final' = [final EXCEPT ![j][g] = "none"],
               staging' = [staging EXCEPT ![j][g] = "filled"]
        PROVE  <1>9!1 /\ <1>9!2 /\ <1>9!3
    BY <2>2 DEF RemoteInv, StoresFit, PerAttempt
  <2>. QED  BY <2>1, <2>2 DEF ApiStops
<1>10. StoresFit'
  BY <1>1, <1>9, RemoteAssumption DEF RemoteInv, StoresFit, Fault
<1>11. ASSUME NEW j \in Job PROVE IsPublished(j)'
  <2>1. IsPublished(j) /\ jobs' = jobs
    BY <1>1 DEF RemoteInv, Published, vars
  <2>. QED  BY <1>3, <1>9, <2>1 DEF IsPublished
<1>. QED  BY <1>4, <1>5, <1>7, <1>8, <1>10, <1>11 DEF RemoteInv, RowsRest, Published

-----------------------------------------------------------------------------
(* The invariant holds.                                                    *)

LEMMA HandlerStep ==
    ASSUME RemoteInv, NEW c \in calls, Handler(c) PROVE RemoteInv'
BY LookStep, GateStep, TakeStep, TakeNoneStep, FinishBlockStep, MkdirStep, HandBackStep,
   RenewStep, StoreStep, BeginStep, FlushStep, RenameStep, NamesStep, EndedStep, ReportStep,
   FailStep DEF Handler

LEMMA InitRemote == RemoteInit => RemoteInv
<1>. SUFFICES ASSUME RemoteInit PROVE RemoteInv
  OBVIOUS
<1>1. Inv
  BY InitInv DEF RemoteInit
<1>2. calls = {} /\ \A w \in Worker : held[w] = NoLease
  BY DEF RemoteInit
<1>3. FunctionsFit /\ ClientsFit
  BY DEF RemoteInit, FunctionsFit, ClientsFit, ClientStates, Executing
<1>4. CallsFit /\ OneWait /\ LeasesApart
  BY <1>2 DEF RemoteInit, CallsFit, OneWait, LeasesApart, Waiting
<1>5. StoresFit
  BY RemoteAssumption DEF RemoteInit, StoresFit, PerAttempt
<1>6. LeasesKnown /\ FilesFit
  BY <1>2 DEF LeasesKnown, Known, FilesFit
<1>7. Published
  BY DEF RemoteInit, Init, Published, IsPublished, AbsentRow, NewRow
<1>. QED  BY <1>1, <1>3, <1>4, <1>5, <1>6, <1>7 DEF RemoteInv, Protocol

LEMMA RemoteStep == RemoteInv /\ [RemoteNext]_remoteVars => RemoteInv'
<1>. SUFFICES ASSUME RemoteInv, [RemoteNext]_remoteVars PROVE RemoteInv'
  OBVIOUS
<1>1. CASE SynchronizeRemote
  BY <1>1, SyncRests, RemoteRests DEF SynchronizeRemote, RemoteInv
<1>2. CASE ClockRemote
  BY <1>2, TickRests, RemoteRests DEF ClockRemote, RemoteInv
<1>3. ASSUME NEW w \in Worker,
             ClientWorks(w) \/ BeatRemote(w) \/ BeatLost(w) \/ Disturbed(w) \/ KillClient(w)
      PROVE  RemoteInv'
  BY <1>3, RequestStep, BuildStep, ReceiveStep, BeatStep, ClientStops DEF ClientWorks
<1>4. ASSUME NEW c \in calls, Handler(c) \/ TimeOut(c) \/ BreaksRemote(c)
      PROVE  RemoteInv'
  BY <1>4, HandlerStep, TimeOutStep, BreaksStep
<1>5. CASE ApiStops
  BY <1>5, ApiStopsStep
<1>6. CASE UNCHANGED remoteVars
  <2>1. UNCHANGED vars /\ UNCHANGED <<remote, faults>>
    BY <1>6 DEF remoteVars
  <2>. QED  BY <2>1, UnchangedRests, RemoteRests DEF RemoteInv
<1>. QED  BY <1>1, <1>2, <1>3, <1>4, <1>5, <1>6 DEF RemoteNext

LEMMA RemoteInvHolds == RemoteSpec => []RemoteInv
BY InitRemote, RemoteStep, PTL DEF RemoteSpec

\* A client executes a lease exactly between the claim's answer and the end
\* of the attempt, and it waits for exactly one call, however many it has
\* given up on that still run (execute_remote_lease, request).
THEOREM RemoteTypeSafe == RemoteSpec => []RemoteTypeOK
<1>1. RemoteInv => RemoteTypeOK
  <2>. SUFFICES ASSUME RemoteInv PROVE RemoteTypeOK
    OBVIOUS
  <2>1. FunctionsFit /\ ClientsFit /\ StoresFit /\ OneWait /\ CallsFit
    BY DEF RemoteInv, Protocol
  <2>2. ASSUME NEW w \in Worker
        PROVE  Cardinality({c \in calls : c.worker = w /\ c.waited})
                  = IF client[w] \in Waiting THEN 1 ELSE 0
    <3>1. CASE client[w] \in Waiting
      <4>1. PICK c \in calls : c.worker = w /\ c.waited
        BY <2>1, <3>1 DEF OneWait
      <4>2. {d \in calls : d.worker = w /\ d.waited} = {c}
        BY <2>1, <4>1 DEF OneWait
      <4>. QED  BY <3>1, <4>2, FS_Singleton
    <3>2. CASE client[w] \notin Waiting
      <4>1. \A c \in calls : c.waited => client[c.worker] = WaitsAt[c.op] /\ c \in Calls
        BY <2>1 DEF CallsFit, CallFits
      <4>2. {c \in calls : c.worker = w /\ c.waited} = {}
        BY <3>2, <4>1 DEF WaitsAt, Waiting, Calls
      <4>. QED  BY <3>2, <4>2, FS_EmptySet
    <3>. QED  BY <3>1, <3>2
  <2>3. calls \subseteq Calls
    BY <2>1 DEF CallsFit, CallFits
  <2>. QED  BY <2>1, <2>2, <2>3 DEF RemoteTypeOK, FunctionsFit, ClientsFit, StoresFit
<1>. QED  BY <1>1, RemoteInvHolds, PTL

\* A job is complete only with its attempt directory in place and flushed,
\* whatever calls of this or another attempt still run (_durably_publish).
THEOREM DurableSafe == RemoteSpec => []RemoteResultDurable
<1>1. RemoteInv => RemoteResultDurable
  BY DEF RemoteInv, Published, IsPublished, RemoteResultDurable
<1>. QED  BY <1>1, RemoteInvHolds, PTL

\* No handler, however late, brings the private directory of a completed
\* attempt back (_staging).
THEOREM StagingSafe == RemoteSpec => []NoStagingLeft
<1>1. RemoteInv => NoStagingLeft
  BY DEF RemoteInv, Published, IsPublished, NoStagingLeft
<1>. QED  BY <1>1, RemoteInvHolds, PTL
=============================================================================
