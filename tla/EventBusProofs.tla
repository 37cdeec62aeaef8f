--------------------------- MODULE EventBusProofs ---------------------------
(***************************************************************************)
(* Proofs about EventBus, for any number of pipelines and watchdogs.  The  *)
(* two loops never run a coroutine of the bus at the same time, because    *)
(* the main thread waits for the bridge; so one queue and one worker are   *)
(* created.  An event is then in one place at a time: posted to a loop or  *)
(* in the coroutine it runs, or on the line that leads through the queue   *)
(* and the worker to the log.  Only a put adds to the line, at its end.    *)
(***************************************************************************)
EXTENDS EventBus, SequenceTheorems, TLAPS

BusEvents == [kind : {"finalized"}, of : Pipelines] \cup [kind : {"indexed"}, of : Pipelines \cup Dogs]
Doings == {"queue", "create", "worker", "put", "join"}
Coroutines == [do : Doings, then : {"put", "join"}, event : BusEvents]
Workers == [loop : Loops, pc : {"get", "handle", "done"}, event : BusEvents \cup {NoJob}]
BusPcs == {"publish", "drain", "draining", "woken", "drained", "gone"}

BusTypes ==
    /\ posted \in [Loops -> Seq(Coroutines)] /\ job \in [Loops -> Coroutines \cup {NoJob}]
    /\ blocked \in BOOLEAN
    /\ queue \in {0, 1} /\ items \in Seq(Seq(BusEvents)) /\ Len(items) = queue
    /\ unfinished \in Seq(Nat) /\ Len(unfinished) = queue
    /\ worker \in {0, 1} /\ workers \in Seq(Workers) /\ Len(workers) = worker
    /\ pc \in [Pipelines \cup Dogs -> BusPcs] /\ waits \subseteq Pipelines \X {1}
    /\ published \in Seq(BusEvents) /\ log \in Seq(BusEvents)

\* The coroutine a loop runs, and those posted to it, by number: what each is
\* there to do, and for which event.
Slot(l, i) == IF i = 0 THEN job[l] ELSE posted[l][i]
Carried(what) ==
    {c \in Loops \X Nat \X BusEvents :
        /\ c[2] <= Len(posted[c[1]]) /\ Slot(c[1], c[2]) # NoJob
        /\ Slot(c[1], c[2]).then = what /\ Slot(c[1], c[2]).event = c[3]}
Coming(e) == \E c \in Carried("put") : c[3] = e

\* The events the bus was done with, the one it is at, and those that wait.
Busy == worker = 1 /\ workers[1].pc \in {"handle", "done"}
Now == IF Busy THEN <<workers[1].event>> ELSE <<>>
Waiting == IF queue = 1 THEN items[1] ELSE <<>>
Line == log \o (Now \o Waiting)

\* The main thread waits while the bridge works for it.
OneLoop ==
    /\ blocked => job["main"] = NoJob
    /\ ~blocked => job["bridge"] = NoJob /\ posted["bridge"] = <<>>
    /\ blocked => \/ job["bridge"] = NoJob /\ Len(posted["bridge"]) = 1
                  \/ job["bridge"] # NoJob /\ posted["bridge"] = <<>>

\* A queue and a worker are there before they are used.
InCoroutine ==
    /\ \A l \in Loops : \A i \in DOMAIN posted[l] : posted[l][i].do = "queue"
    /\ \A l \in Loops :
          /\ job[l].do \in {"put", "join"} => job[l].then = job[l].do /\ worker = 1
          /\ job[l].do = "create" => queue = 0
          /\ job[l].do \in {"worker", "put", "join"} => queue = 1
    /\ worker = 1 => queue = 1
    /\ Busy => workers[1].event \in BusEvents
    /\ worker = 0 => Waiting = <<>>

\* The count of unfinished tasks is right.
Counted == queue = 1 => unfinished[1] = Len(Now) + Len(Waiting)

\* An event that was published is on its way to the line, or on it, once.
OnItsWay ==
    /\ \A e \in BusEvents : e \in Range(published) <=> e \in Range(Line) \/ Coming(e)
    /\ \A e \in BusEvents : ~(e \in Range(Line) /\ Coming(e))
    /\ \A i, k \in DOMAIN Line : i < k => Line[i] # Line[k]
    /\ \A what \in {"put", "join"} : \A c, d \in Carried(what) : c[3] = d[3] => c = d

\* What has been published follows from how far the publishers have come.
Published ==
    /\ \A p \in Pipelines : Finalized(p) \in Range(published) <=> pc[p] # "publish"
    /\ \A d \in Dogs : Indexed(d) \in Range(published) => pc[d] # "publish"
    /\ \A p \in Pipelines :
          Indexed(p) \in Range(published) =>
             \/ Finalized(p) \in Range(log)
             \/ Busy /\ workers[1].pc = "done" /\ workers[1].event = Finalized(p)

Before(e, f) == \E a, b \in DOMAIN published : a < b /\ published[a] = e /\ published[b] = f

\* The line is in the order of the publications of the main thread, and what
\* the bridge is about to put is the last of them.
InOrder ==
    /\ \A i, k \in DOMAIN Line :
          i < k /\ Line[i].kind = "finalized" /\ Line[k].kind = "finalized" =>
             Before(Line[i], Line[k])
    /\ \A c \in Carried("put") :
          c[3].kind = "finalized" =>
             c[1] = "bridge" /\ \A k \in DOMAIN Line :
                Line[k].kind = "finalized" => Before(Line[k], c[3])

\* A drain comes after the pipeline's own event, and is woken for it.
Drains ==
    /\ \A p \in Pipelines :
          /\ pc[p] # "gone"
          /\ pc[p] \in {"draining", "woken", "drained"} => Finalized(p) \in Range(Line)
          /\ pc[p] \in {"woken", "drained"} => Finalized(p) \in Range(log)
          /\ pc[p] = "draining" =>
                <<p, 1>> \in waits \/ \E c \in Carried("join") : c[3] = Finalized(p)
    /\ \A c \in Carried("join") :
          /\ c[1] = "main" /\ c[3].kind = "finalized"
          /\ pc[c[3].of] = "draining" /\ <<c[3].of, 1>> \notin waits
    /\ \A w \in waits : pc[w[1]] = "draining" /\ queue = 1 /\ unfinished[1] > 0

BusInv ==
    /\ BusTypes /\ OneLoop /\ InCoroutine /\ Counted
    /\ OnItsWay /\ Published /\ InOrder /\ Drains
-----------------------------------------------------------------------------
\* Sequences.
LEMMA Ranges ==
    ASSUME NEW S, NEW s \in Seq(S), NEW x
    PROVE  x \in Range(s) <=> \E i \in 1..Len(s) : s[i] = x
BY DEF Range

LEMMA AppendFacts ==
    ASSUME NEW S, NEW s \in Seq(S), NEW x \in S
    PROVE  /\ Append(s, x) \in Seq(S) /\ Len(Append(s, x)) = Len(s) + 1
           /\ Append(s, x)[Len(s) + 1] = x
           /\ \A i \in 1..Len(s) : Append(s, x)[i] = s[i]
           /\ Range(Append(s, x)) = Range(s) \cup {x}
<1>1. /\ Append(s, x) \in Seq(S) /\ Len(Append(s, x)) = Len(s) + 1
      /\ Append(s, x)[Len(s) + 1] = x
      /\ \A i \in 1..Len(s) : Append(s, x)[i] = s[i]
  OBVIOUS
<1>2. ASSUME NEW y PROVE y \in Range(Append(s, x)) <=> y \in Range(s) \cup {x}
  <2>1. y \in Range(Append(s, x)) <=> \E i \in 1..(Len(s) + 1) : Append(s, x)[i] = y
    <3> DEFINE t == Append(s, x)
    <3>1. t \in Seq(S) /\ Len(t) = Len(s) + 1
      BY <1>1
    <3> HIDE DEF t
    <3>2. y \in Range(t) <=> \E i \in 1..(Len(s) + 1) : t[i] = y
      BY <3>1, Ranges
    <3> QED
      BY <3>2 DEF t
  <2>2. y \in Range(s) <=> \E i \in 1..Len(s) : s[i] = y
    BY Ranges
  <2>3. 1..(Len(s) + 1) = 1..Len(s) \cup {Len(s) + 1}
    OBVIOUS
  <2> QED
    BY <1>1, <2>1, <2>2, <2>3
<1> QED
  BY <1>1, <1>2

LEMMA TailFacts ==
    ASSUME NEW S, NEW s \in Seq(S), s # <<>>
    PROVE  /\ Head(s) \in S /\ Head(s) = s[1] /\ Tail(s) \in Seq(S) /\ Len(s) >= 1
           /\ Len(Tail(s)) = Len(s) - 1 /\ \A i \in 1..(Len(s) - 1) : Tail(s)[i] = s[i + 1]
OBVIOUS

LEMMA Replaced ==
    ASSUME NEW S, NEW s \in Seq(S), NEW i \in 1..Len(s), NEW x \in S
    PROVE  /\ [s EXCEPT ![i] = x] \in Seq(S) /\ Len([s EXCEPT ![i] = x]) = Len(s)
           /\ [s EXCEPT ![i] = x][i] = x
           /\ \A k \in 1..Len(s) : k # i => [s EXCEPT ![i] = x][k] = s[k]
OBVIOUS

LEMMA Recounted ==
    ASSUME NEW s \in Seq(Nat), NEW i \in 1..Len(s), NEW x \in Nat
    PROVE  /\ [s EXCEPT ![i] = x] \in Seq(Nat) /\ Len([s EXCEPT ![i] = x]) = Len(s)
           /\ [s EXCEPT ![i] = x][i] = x
OBVIOUS

LEMMA Joined ==
    ASSUME NEW S, NEW s \in Seq(S), NEW t \in Seq(S)
    PROVE  /\ s \o t \in Seq(S) /\ Len(s \o t) = Len(s) + Len(t)
           /\ \A i \in 1..Len(s) : (s \o t)[i] = s[i]
           /\ \A i \in 1..Len(t) : (s \o t)[Len(s) + i] = t[i]
           /\ s \o <<>> = s /\ <<>> \o t = t
OBVIOUS

\* The line: what the bus was done with comes first.
LEMMA LineFacts ==
    ASSUME BusTypes, InCoroutine
    PROVE  /\ Now \in Seq(BusEvents) /\ Waiting \in Seq(BusEvents) /\ Line \in Seq(BusEvents)
           /\ Len(Line) = Len(log) + Len(Now) + Len(Waiting)
           /\ \A i \in 1..Len(log) : Line[i] = log[i]
           /\ Range(log) \subseteq Range(Line)
           /\ Now = <<>> /\ Waiting = <<>> => Line = log
           /\ Len(Now) = IF Busy THEN 1 ELSE 0
<1>1. Now \in Seq(BusEvents) /\ Len(Now) = IF Busy THEN 1 ELSE 0
  BY DEF Now, InCoroutine
<1>2. Waiting \in Seq(BusEvents)
  BY DEF Waiting, BusTypes
<1>3. log \in Seq(BusEvents)
  BY DEF BusTypes
<1>4. Now \o Waiting \in Seq(BusEvents) /\ Len(Now \o Waiting) = Len(Now) + Len(Waiting)
  <2> \A s, t \in Seq(BusEvents) : s \o t \in Seq(BusEvents) /\ Len(s \o t) = Len(s) + Len(t)
    BY Joined
  <2> QED
    BY <1>1, <1>2
<1>5. /\ Line \in Seq(BusEvents) /\ Len(Line) = Len(log) + Len(Now \o Waiting)
      /\ \A i \in 1..Len(log) : Line[i] = log[i]
  BY <1>3, <1>4, Joined DEF Line
<1>6. Range(log) \subseteq Range(Line)
  <2> SUFFICES ASSUME NEW x \in Range(log) PROVE x \in Range(Line)
    OBVIOUS
  <2>1. PICK i \in 1..Len(log) : log[i] = x
    BY <1>3, Ranges
  <2>2. Len(log) \in Nat /\ Len(Now \o Waiting) \in Nat
    BY <1>3, <1>4
  <2>3. i \in 1..Len(Line) /\ Line[i] = x
    BY <1>5, <2>1, <2>2
  <2> QED
    BY <1>5, <2>3, Ranges
<1>7. Now = <<>> /\ Waiting = <<>> => Line = log
  BY <1>3, Joined DEF Line
<1> QED
  BY <1>1, <1>2, <1>4, <1>5, <1>6, <1>7

-----------------------------------------------------------------------------
\* The types hold under every step; so do the facts about the loops, the queue,
\* the worker and the count, which rest on nothing else.
Core == BusTypes /\ OneLoop /\ InCoroutine /\ Counted

LEMMA EventsOf ==
    /\ \A p \in Pipelines : Finalized(p) \in BusEvents /\ Indexed(p) \in BusEvents
    /\ \A d \in Dogs : Indexed(d) \in BusEvents
    /\ \A e \in BusEvents : e.kind = "finalized" => e.of \in Pipelines /\ e = Finalized(e.of)
    /\ \A e \in BusEvents : e.kind = "finalized" \/ e.kind = "indexed"
    /\ NoJob \notin BusEvents /\ NoJob \notin Coroutines
BY DEF BusEvents, Finalized, Indexed, NoJob, Coroutines

\* A coroutine is handed to a loop by a thread that is not kept waiting, or by
\* the main thread, which waits.
LEMMA Posting ==
    ASSUME Core, NEW l \in Loops, NEW j \in Coroutines, Post(l, j), j.do = "queue",
           \/ l = "main" /\ blocked' = blocked
           \/ l = "bridge" /\ Free("main") /\ blocked' = TRUE /\ j.then = "put",
           UNCHANGED <<job, queue, items, unfinished, worker>>
    PROVE  /\ posted' \in [Loops -> Seq(Coroutines)] /\ blocked' \in BOOLEAN
           /\ OneLoop'
           /\ \A m \in Loops : \A i \in DOMAIN posted'[m] : posted'[m][i].do = "queue"
<1> USE DEF Core, Loops
<1>1. posted' = [posted EXCEPT ![l] = Append(posted[l], j)]
  BY DEF Post
<1>2. posted[l] \in Seq(Coroutines) /\ posted \in [Loops -> Seq(Coroutines)]
  BY DEF BusTypes
<1>3. /\ Append(posted[l], j) \in Seq(Coroutines)
      /\ Len(Append(posted[l], j)) = Len(posted[l]) + 1
      /\ Append(posted[l], j)[Len(posted[l]) + 1] = j
      /\ \A i \in 1..Len(posted[l]) : Append(posted[l], j)[i] = posted[l][i]
  BY <1>2, AppendFacts
<1>4. posted' \in [Loops -> Seq(Coroutines)] /\ blocked' \in BOOLEAN
  BY <1>1, <1>2, <1>3 DEF BusTypes
<1>5. OneLoop'
  BY <1>1, <1>2, <1>3 DEF OneLoop, Free, BusTypes
<1>6. \A m \in Loops : \A i \in DOMAIN posted'[m] : posted'[m][i].do = "queue"
  <2> SUFFICES ASSUME NEW m \in Loops, NEW i \in DOMAIN posted'[m]
               PROVE  posted'[m][i].do = "queue"
    OBVIOUS
  <2>1. CASE m = l
    <3>1. posted'[m] = Append(posted[l], j)
      BY <1>1, <1>2, <2>1
    <3>2. i \in 1..(Len(posted[l]) + 1)
      BY <1>3, <3>1
    <3>3. i \in 1..Len(posted[l]) \/ i = Len(posted[l]) + 1
      BY <1>2, <3>2
    <3>4. \A k \in 1..Len(posted[l]) : posted[l][k].do = "queue"
      BY <1>2 DEF InCoroutine
    <3> QED
      BY <1>3, <3>1, <3>3, <3>4
  <2>2. CASE m # l
    BY <1>1, <1>2, <2>2 DEF InCoroutine
  <2> QED
    BY <2>1, <2>2
<1> QED
  BY <1>4, <1>5, <1>6

\* The publishers and the drains.
LEMMA CorePosts ==
    ASSUME Core, \/ \E p \in Pipelines : PipelinePublishes(p) \/ PipelineDrains(p)
                 \/ \E d \in Dogs : DogPublishes(d)
    PROVE  Core'
<1> USE DEF Core
<1>1. ASSUME NEW e \in BusEvents, NEW t \in {"main", "thread"}, PublishSync(e, t),
             t = "main" => Free("main"),
             UNCHANGED <<job, queue, items, unfinished, worker, workers, log>>,
             pc' \in [Pipelines \cup Dogs -> BusPcs], UNCHANGED waits
      PROVE  Core'
  <2> DEFINE j == [do |-> "queue", then |-> "put", event |-> e]
  <2>1. j \in Coroutines /\ j.do = "queue" /\ j.then = "put"
    BY DEF Coroutines, Doings
  <2>2. /\ Post(PublishLoop(t), j) /\ PublishLoop(t) \in Loops
        /\ published' = Append(published, e)
        /\ \/ PublishLoop(t) = "main" /\ blocked' = blocked
           \/ PublishLoop(t) = "bridge" /\ Free("main") /\ blocked' = TRUE
    BY <1>1 DEF PublishSync, PublishLoop, Loops, BusTypes
  <2> HIDE DEF j
  <2>3. /\ posted' \in [Loops -> Seq(Coroutines)] /\ blocked' \in BOOLEAN /\ OneLoop'
        /\ \A m \in Loops : \A i \in DOMAIN posted'[m] : posted'[m][i].do = "queue"
    BY <1>1, <2>1, <2>2, Posting
  <2>4. published' \in Seq(BusEvents)
    BY <1>1, <2>2, AppendFacts DEF BusTypes
  <2>5. BusTypes'
    BY <1>1, <2>3, <2>4 DEF BusTypes
  <2>6. UNCHANGED <<Waiting, Busy, Now>>
    BY <1>1 DEF Waiting, Busy, Now
  <2>7. InCoroutine' /\ Counted'
    BY <1>1, <2>3, <2>6 DEF InCoroutine, Counted
  <2> QED
    BY <2>3, <2>5, <2>7
<1>2. ASSUME NEW p \in Pipelines, PipelinePublishes(p) PROVE Core'
  <2>1. pc' \in [Pipelines \cup Dogs -> BusPcs] /\ Finalized(p) \in BusEvents
    BY <1>2, EventsOf DEF PipelinePublishes, BusTypes, BusPcs
  <2> QED
    BY <1>1, <1>2, <2>1 DEF PipelinePublishes
<1>3. ASSUME NEW d \in Dogs, DogPublishes(d) PROVE Core'
  <2>1. pc' \in [Pipelines \cup Dogs -> BusPcs] /\ Indexed(d) \in BusEvents
    BY <1>3, EventsOf DEF DogPublishes, BusTypes, BusPcs
  <2> QED
    BY <1>1, <1>3, <2>1 DEF DogPublishes
<1>4. ASSUME NEW p \in Pipelines, PipelineDrains(p) PROVE Core'
  <2> DEFINE j == [do |-> "queue", then |-> "join", event |-> Finalized(p)]
  <2>1. j \in Coroutines /\ j.do = "queue" /\ Post("main", j) /\ "main" \in Loops
    BY <1>4, EventsOf DEF PipelineDrains, Coroutines, Doings, Loops
  <2> HIDE DEF j
  <2>2. UNCHANGED <<job, blocked, queue, items, unfinished, worker, workers, waits, published, log>>
    BY <1>4 DEF PipelineDrains
  <2>3. /\ posted' \in [Loops -> Seq(Coroutines)] /\ OneLoop'
        /\ \A m \in Loops : \A i \in DOMAIN posted'[m] : posted'[m][i].do = "queue"
    BY <2>1, <2>2, Posting
  <2>4. pc' \in [Pipelines \cup Dogs -> BusPcs]
    BY <1>4 DEF PipelineDrains, BusTypes, BusPcs
  <2>5. BusTypes'
    BY <2>2, <2>3, <2>4 DEF BusTypes
  <2>6. UNCHANGED <<Waiting, Busy, Now>>
    BY <2>2 DEF Waiting, Busy, Now
  <2>7. InCoroutine' /\ Counted'
    BY <2>2, <2>3, <2>6 DEF InCoroutine, Counted
  <2> QED
    BY <2>3, <2>5, <2>7
<1> QED
  BY <1>2, <1>3, <1>4
\* A loop takes up the coroutine that was posted first.
LEMMA CoreBegins ==
    ASSUME Core, NEW l \in Loops, BeginJob(l)
    PROVE  Core'
<1> USE DEF Core, Loops
<1>1. /\ job[l] = NoJob /\ posted[l] # <<>> /\ (l = "main" => ~blocked)
      /\ job' = [job EXCEPT ![l] = Head(posted[l])]
      /\ posted' = [posted EXCEPT ![l] = Tail(posted[l])]
      /\ UNCHANGED <<blocked, queue, items, unfinished, worker, workers, pc, waits, published, log>>
  BY DEF BeginJob
<1>2. posted[l] \in Seq(Coroutines) /\ posted \in [Loops -> Seq(Coroutines)]
  BY DEF BusTypes
<1>3. /\ Head(posted[l]) \in Coroutines /\ Head(posted[l]) = posted[l][1]
      /\ Tail(posted[l]) \in Seq(Coroutines) /\ Len(posted[l]) >= 1
      /\ Len(Tail(posted[l])) = Len(posted[l]) - 1
      /\ \A i \in 1..(Len(posted[l]) - 1) : Tail(posted[l])[i] = posted[l][i + 1]
  BY <1>1, <1>2, TailFacts
<1>4. Head(posted[l]).do = "queue" /\ Head(posted[l]) # NoJob
  BY <1>2, <1>3, EventsOf DEF InCoroutine
<1>5. BusTypes'
  BY <1>1, <1>2, <1>3 DEF BusTypes
<1>6. OneLoop'
  <2>1. posted'["bridge"] = <<>>
    <3>1. CASE l = "main"
      BY <1>1, <1>2, <3>1 DEF OneLoop
    <3>2. CASE l = "bridge"
      <4>1. Len(posted[l]) = 1
        BY <1>1, <3>2 DEF OneLoop
      <4>2. Len(Tail(posted[l])) = 0
        BY <1>3, <4>1
      <4> QED
        BY <1>1, <1>2, <1>3, <3>2, <4>2
    <3> QED
      BY <3>1, <3>2
  <2>2. \A m \in Loops : m # l => job'[m] = job[m]
    BY <1>1 DEF BusTypes
  <2>3. job'[l] # NoJob
    BY <1>1, <1>4 DEF BusTypes
  <2> QED
    BY <1>1, <2>1, <2>2, <2>3 DEF OneLoop
<1>7. UNCHANGED <<Waiting, Busy, Now>>
  BY <1>1 DEF Waiting, Busy, Now
<1>8. \A m \in Loops : \A i \in DOMAIN posted'[m] : posted'[m][i].do = "queue"
  <2> SUFFICES ASSUME NEW m \in Loops, NEW i \in DOMAIN posted'[m]
               PROVE  posted'[m][i].do = "queue"
    OBVIOUS
  <2>1. CASE m = l
    <3>1. posted'[m] = Tail(posted[l])
      BY <1>1, <1>2, <2>1
    <3>2. i \in 1..(Len(posted[l]) - 1)
      BY <1>3, <3>1
    <3>3. i + 1 \in 1..Len(posted[l]) /\ posted'[m][i] = posted[l][i + 1]
      BY <1>2, <1>3, <3>1, <3>2
    <3> QED
      BY <1>2, <3>3 DEF InCoroutine
  <2>2. CASE m # l
    BY <1>1, <1>2, <2>2 DEF InCoroutine
  <2> QED
    BY <2>1, <2>2
<1>9. InCoroutine' /\ Counted'
  <2>1. \A m \in Loops : job'[m] = job[m] \/ job'[m].do = "queue"
    BY <1>1, <1>4 DEF BusTypes
  <2> QED
    BY <1>1, <1>7, <1>8, <2>1 DEF InCoroutine, Counted
<1> QED
  BY <1>5, <1>6, <1>9

\* The coroutines, statement by statement.  While one runs the other loop has
\* none, so that nobody creates a second queue or a second worker.
LEMMA CoreRuns ==
    ASSUME Core, NEW l \in Loops, SeesQueue(l) \/ CreatesQueue(l) \/ EnsuresWorker(l)
    PROVE  /\ Core' /\ job[l] # NoJob /\ UNCHANGED <<posted, pc, waits, published, log, blocked>>
           /\ \E d \in Doings : job' = [job EXCEPT ![l].do = d]
           /\ UNCHANGED <<Now, Waiting, Busy>> /\ (Busy => workers'[1] = workers[1])
           /\ queue \in {0, queue'} /\ (queue = 1 => unfinished' = unfinished)
<1> USE DEF Core, Loops
<1>1. /\ job[l] \in Coroutines /\ job[l] # NoJob
      /\ UNCHANGED <<posted, pc, waits, published, log, blocked>>
  BY DEF SeesQueue, CreatesQueue, EnsuresWorker, Do, BusTypes, NoJob
<1>2. \A m \in Loops : m # l => job[m] = NoJob
  BY <1>1 DEF OneLoop
<1>3. CASE SeesQueue(l)
  <2>1. PICK d \in {"create", "worker"} :
            job' = [job EXCEPT ![l].do = d] /\ (d = "create" <=> queue = 0)
    BY <1>3 DEF SeesQueue, Do, NoQueue
  <2>2. UNCHANGED <<queue, items, unfinished, worker, workers>>
    BY <1>3 DEF SeesQueue
  <2>3. job' \in [Loops -> Coroutines \cup {NoJob}]
    BY <1>1, <2>1 DEF BusTypes, Coroutines, Doings
  <2>4. UNCHANGED <<Waiting, Busy, Now>>
    BY <2>2 DEF Waiting, Busy, Now
  <2>5. \A m \in Loops : m # l => job'[m] = job[m]
    BY <2>1 DEF BusTypes
  <2>6. job'[l].do = d /\ job'[l] # NoJob
    BY <1>1, <2>1 DEF BusTypes, Coroutines, NoJob
  <2>7. BusTypes' /\ OneLoop' /\ InCoroutine' /\ Counted'
    BY <1>1, <2>1, <2>2, <2>3, <2>4, <2>5, <2>6 DEF BusTypes, OneLoop, InCoroutine, Counted
  <2> QED
    BY <1>1, <2>1, <2>2, <2>4, <2>7 DEF Doings, BusTypes
<1>4. CASE CreatesQueue(l)
  <2>1. /\ job[l].do = "create" /\ job' = [job EXCEPT ![l].do = "worker"] /\ queue = 0
        /\ items' = Append(items, <<>>) /\ unfinished' = Append(unfinished, 0)
        /\ queue' = Len(items) + 1 /\ UNCHANGED <<worker, workers>>
    BY <1>4 DEF CreatesQueue, Do, InCoroutine
  <2>2. /\ items' \in Seq(Seq(BusEvents)) /\ Len(items') = 1 /\ items'[1] = <<>>
        /\ unfinished' \in Seq(Nat) /\ Len(unfinished') = 1 /\ unfinished'[1] = 0 /\ queue' = 1
    BY <2>1, AppendFacts DEF BusTypes
  <2>3. worker = 0
    BY <2>1 DEF InCoroutine, BusTypes
  <2>4. UNCHANGED <<Waiting, Busy, Now>> /\ Waiting = <<>> /\ Now = <<>>
    BY <2>1, <2>2, <2>3 DEF Waiting, Busy, Now
  <2>5. job' \in [Loops -> Coroutines \cup {NoJob}]
    BY <1>1, <2>1 DEF BusTypes, Coroutines, Doings
  <2>6. \A m \in Loops : m # l => job'[m] = NoJob
    BY <1>2, <2>1 DEF BusTypes
  <2>7. job'[l].do = "worker" /\ job'[l] # NoJob
    BY <1>1, <2>1 DEF BusTypes, Coroutines, NoJob
  <2>8. BusTypes' /\ OneLoop'
    BY <1>1, <1>2, <2>1, <2>2, <2>5, <2>6, <2>7 DEF BusTypes, OneLoop
  <2>9. InCoroutine'
    BY <1>1, <2>1, <2>2, <2>3, <2>4, <2>6, <2>7 DEF InCoroutine, NoJob
  <2>10. Counted'
    BY <2>2, <2>4 DEF Counted
  <2> QED
    BY <1>1, <2>1, <2>2, <2>4, <2>8, <2>9, <2>10 DEF Doings
<1>5. CASE EnsuresWorker(l)
  <2>1. /\ job[l].do = "worker" /\ job' = [job EXCEPT ![l].do = job[l].then] /\ queue = 1
        /\ UNCHANGED <<queue, items, unfinished>>
    BY <1>5 DEF EnsuresWorker, Do, InCoroutine
  <2>2. /\ worker' = 1 /\ workers' \in Seq(Workers) /\ Len(workers') = 1
        /\ Busy' = Busy /\ Now' = Now /\ (Busy' => workers'[1] = workers[1])
    <3>1. CASE worker = 0
      <4> DEFINE w == [loop |-> l, pc |-> "get", event |-> NoJob]
      <4>1. w \in Workers /\ workers \in Seq(Workers) /\ Len(workers) = 0
        BY <3>1 DEF Workers, BusTypes
      <4>2. workers' = Append(workers, w) /\ worker' = 1
        BY <1>5, <3>1, <4>1 DEF EnsuresWorker, NeedsWorker
      <4>3. workers' \in Seq(Workers) /\ Len(workers') = 1 /\ workers'[1] = w
        BY <4>1, <4>2, AppendFacts
      <4> QED
        BY <3>1, <4>2, <4>3 DEF Busy, Now
    <3>2. CASE worker = 1
      BY <1>5, <3>2 DEF EnsuresWorker, NeedsWorker, BusTypes, Busy, Now
    <3> QED
      BY <3>1, <3>2 DEF BusTypes
  <2>3. job' \in [Loops -> Coroutines \cup {NoJob}] /\ job[l].then \in Doings
    BY <1>1, <2>1 DEF BusTypes, Coroutines, Doings
  <2>4. \A m \in Loops : m # l => job'[m] = job[m]
    BY <2>1 DEF BusTypes
  <2>5. job'[l].do = job'[l].then /\ job'[l] # NoJob /\ job'[l].do \in {"put", "join"}
    BY <1>1, <2>1 DEF BusTypes, Coroutines, NoJob
  <2>6. Waiting' = Waiting
    BY <2>1 DEF Waiting
  <2>7. BusTypes' /\ OneLoop'
    BY <1>1, <2>1, <2>2, <2>3, <2>4, <2>5 DEF BusTypes, OneLoop
  <2>8. InCoroutine' /\ Counted'
    BY <1>1, <1>2, <2>1, <2>2, <2>4, <2>5, <2>6 DEF InCoroutine, Counted, NoJob
  <2> QED
    BY <1>1, <2>1, <2>2, <2>3, <2>6, <2>7, <2>8
<1> QED
  BY <1>3, <1>4, <1>5
\* A put ends a coroutine and adds its event to the line.
LEMMA CorePuts ==
    ASSUME Core, NEW l \in Loops, Puts(l)
    PROVE  /\ Core' /\ job[l] \in Coroutines /\ job[l].then = "put"
           /\ job' = [job EXCEPT ![l] = NoJob]
           /\ UNCHANGED <<posted, pc, waits, published, log, queue, Now>>
           /\ queue = 1 /\ Waiting' = Append(Waiting, job[l].event)
           /\ unfinished'[1] > 0
           /\ l = "bridge" => posted["bridge"] = <<>>
<1> USE DEF Core, Loops
<1>1. /\ job[l].do = "put" /\ job' = [job EXCEPT ![l] = NoJob]
      /\ items' = [items EXCEPT ![queue] = Append(items[queue], job[l].event)]
      /\ unfinished' = [unfinished EXCEPT ![queue] = unfinished[queue] + 1]
      /\ blocked' = (blocked /\ l = "main")
      /\ UNCHANGED <<posted, queue, worker, workers, pc, waits, published, log>>
  BY DEF Puts
<1>2. job[l] \in Coroutines /\ job[l].then = "put" /\ worker = 1 /\ queue = 1
  BY <1>1 DEF InCoroutine, BusTypes, NoJob
<1>3. items \in Seq(Seq(BusEvents)) /\ Len(items) = 1 /\ unfinished \in Seq(Nat) /\ Len(unfinished) = 1
  BY <1>2 DEF BusTypes
<1>4. /\ items[1] \in Seq(BusEvents) /\ job[l].event \in BusEvents /\ unfinished[1] \in Nat
  <2>1. 1 \in 1..Len(items) /\ 1 \in 1..Len(unfinished)
    BY <1>3
  <2>2. items[1] \in Seq(BusEvents)
    BY <1>3, <2>1, ElementOfSeq
  <2>3. unfinished[1] \in Nat
    BY <1>3, <2>1, ElementOfSeq
  <2>4. job[l].event \in BusEvents
    BY <1>2 DEF Coroutines
  <2> QED
    BY <2>2, <2>3, <2>4
<1>5. /\ Append(items[1], job[l].event) \in Seq(BusEvents)
      /\ Len(Append(items[1], job[l].event)) = Len(items[1]) + 1
  BY <1>4, AppendFacts
<1>6. /\ items' \in Seq(Seq(BusEvents)) /\ Len(items') = 1
      /\ items'[1] = Append(items[1], job[l].event)
  <2> DEFINE x == Append(items[1], job[l].event)
  <2>1. x \in Seq(BusEvents) /\ items' = [items EXCEPT ![1] = x] /\ 1 \in 1..Len(items)
    BY <1>1, <1>2, <1>3, <1>5
  <2> HIDE DEF x
  <2>2. items' \in Seq(Seq(BusEvents)) /\ Len(items') = 1 /\ items'[1] = x
    BY <1>3, <2>1, Replaced
  <2> QED
    BY <2>2 DEF x
<1>7. unfinished' \in Seq(Nat) /\ Len(unfinished') = 1 /\ unfinished'[1] = unfinished[1] + 1
  <2> DEFINE x == unfinished[1] + 1
  <2>1. x \in Nat /\ unfinished' = [unfinished EXCEPT ![1] = x] /\ 1 \in 1..Len(unfinished)
    BY <1>1, <1>2, <1>3, <1>4
  <2> HIDE DEF x
  <2>2. unfinished' \in Seq(Nat) /\ Len(unfinished') = 1 /\ unfinished'[1] = x
    <3> \A k \in Nat :
           /\ [unfinished EXCEPT ![1] = k] \in Seq(Nat) /\ Len([unfinished EXCEPT ![1] = k]) = 1
           /\ [unfinished EXCEPT ![1] = k][1] = k
      BY <1>3, <2>1, Recounted
    <3> QED
      BY <2>1
  <2> QED
    BY <2>2 DEF x
<1>8. \A m \in Loops : m # l => job[m] = NoJob
  BY <1>2, EventsOf DEF OneLoop
<1>9. \A m \in Loops : job'[m] = NoJob
  BY <1>1, <1>8 DEF BusTypes
<1>10. BusTypes'
  BY <1>1, <1>2, <1>6, <1>7, <1>9 DEF BusTypes
<1>11. OneLoop'
  <2>1. CASE l = "main"
    BY <1>1, <1>2, <1>9, <2>1, EventsOf DEF OneLoop
  <2>2. CASE l = "bridge"
    BY <1>1, <1>2, <1>9, <2>2, EventsOf DEF OneLoop
  <2> QED
    BY <2>1, <2>2
<1>12. Now' = Now /\ Busy' = Busy
  BY <1>1 DEF Now, Busy
<1>13. Waiting = items[1] /\ Waiting' = items'[1]
  BY <1>1, <1>2 DEF Waiting
<1>14. InCoroutine'
  BY <1>1, <1>2, <1>9, <1>12 DEF InCoroutine, NoJob
<1>15. Counted'
  <2>1. Len(Now) \in Nat /\ Len(items[1]) \in Nat
    BY <1>4, LineFacts
  <2> QED
    BY <1>1, <1>2, <1>4, <1>5, <1>6, <1>7, <1>12, <1>13, <2>1 DEF Counted
<1>16. l = "bridge" => posted["bridge"] = <<>>
  BY <1>2, EventsOf DEF OneLoop
<1> QED
  BY <1>1, <1>2, <1>4, <1>6, <1>7, <1>10, <1>11, <1>12, <1>13, <1>14, <1>15, <1>16

\* A join ends a coroutine.
LEMMA CoreJoins ==
    ASSUME Core, NEW l \in Loops, Joins(l), l = "main", job[l].event.of \in Pipelines
    PROVE  /\ Core' /\ job[l] \in Coroutines /\ job[l].then = "join"
           /\ job' = [job EXCEPT ![l] = NoJob] /\ queue = 1
           /\ UNCHANGED <<posted, published, log, queue, unfinished, Now, Waiting>>
           /\ IF unfinished[1] = 0
              THEN pc' = [pc EXCEPT ![job[l].event.of] = "drained"] /\ UNCHANGED waits
              ELSE waits' = waits \cup {<<job[l].event.of, 1>>} /\ UNCHANGED pc
<1> USE DEF Core, Loops
<1>1. /\ job[l].do = "join" /\ job' = [job EXCEPT ![l] = NoJob]
      /\ UNCHANGED <<posted, blocked, queue, items, unfinished, worker, workers, published, log>>
  BY DEF Joins
<1>2. job[l] \in Coroutines /\ job[l].then = "join" /\ worker = 1 /\ queue = 1
  BY <1>1 DEF InCoroutine, BusTypes, NoJob
<1>4. IF unfinished[1] = 0
      THEN pc' = [pc EXCEPT ![job[l].event.of] = "drained"] /\ UNCHANGED waits
      ELSE waits' = waits \cup {<<job[l].event.of, 1>>} /\ UNCHANGED pc
  BY <1>2 DEF Joins, Pending
<1>5. pc' \in [Pipelines \cup Dogs -> BusPcs] /\ waits' \subseteq Pipelines \X {1}
  <2>1. CASE unfinished[1] = 0
    BY <1>4, <2>1 DEF BusTypes, BusPcs
  <2>2. CASE unfinished[1] # 0
    BY <1>4, <2>2 DEF BusTypes
  <2> QED
    BY <2>1, <2>2
<1>6. job' \in [Loops -> Coroutines \cup {NoJob}] /\ job'[l] = NoJob
      /\ \A m \in Loops : m # l => job'[m] = job[m]
  BY <1>1 DEF BusTypes
<1>7. BusTypes'
  BY <1>1, <1>5, <1>6 DEF BusTypes
<1>8. Now' = Now /\ Busy' = Busy /\ Waiting' = Waiting
  BY <1>1 DEF Now, Busy, Waiting
<1>9. OneLoop' /\ InCoroutine' /\ Counted'
  BY <1>1, <1>2, <1>6, <1>8 DEF OneLoop, InCoroutine, Counted, NoJob
<1> QED
  BY <1>1, <1>2, <1>4, <1>7, <1>8, <1>9
-----------------------------------------------------------------------------
\* The worker is the first and only one.
LEMMA TheWorker ==
    ASSUME Core, NEW i \in DOMAIN workers
    PROVE  /\ i = 1 /\ worker = 1 /\ queue = 1 /\ workers \in Seq(Workers) /\ Len(workers) = 1
           /\ workers[1] \in Workers /\ workers[1].loop \in Loops
           /\ items \in Seq(Seq(BusEvents)) /\ Len(items) = 1 /\ items[1] \in Seq(BusEvents)
           /\ unfinished \in Seq(Nat) /\ Len(unfinished) = 1 /\ unfinished[1] \in Nat
           /\ Waiting = items[1]
<1>1. i = 1 /\ worker = 1 /\ workers \in Seq(Workers) /\ Len(workers) = 1
  BY DEF Core, BusTypes
<1>2. queue = 1
  BY <1>1 DEF Core, InCoroutine
<1>3. workers[1] \in Workers /\ workers[1].loop \in Loops
  <2>1. workers[1] \in Workers
    BY <1>1
  <2> QED
    BY <2>1 DEF Workers
<1>4. /\ items \in Seq(Seq(BusEvents)) /\ Len(items) = 1
      /\ unfinished \in Seq(Nat) /\ Len(unfinished) = 1
  BY <1>2 DEF Core, BusTypes
<1>5. items[1] \in Seq(BusEvents)
  <2>1. items \in Seq(Seq(BusEvents)) /\ 1 \in 1..Len(items)
    BY <1>4
  <2> QED
    BY <2>1, ElementOfSeq
<1>6. unfinished[1] \in Nat
  <2>1. unfinished \in Seq(Nat) /\ 1 \in 1..Len(unfinished)
    BY <1>4
  <2> QED
    BY <2>1, ElementOfSeq
<1>7. Waiting = items[1]
  BY <1>2 DEF Waiting
<1> QED
  BY <1>1, <1>2, <1>3, <1>4, <1>5, <1>6, <1>7

LEMMA WorkerSet ==
    ASSUME workers \in Seq(Workers), Len(workers) = 1, NEW w \in Workers
    PROVE  /\ [workers EXCEPT ![1] = w] \in Seq(Workers) /\ Len([workers EXCEPT ![1] = w]) = 1
           /\ [workers EXCEPT ![1] = w][1] = w
BY Replaced

LEMMA Restack ==
    ASSUME NEW S, NEW s \in Seq(S), s # <<>>
    PROVE  <<Head(s)>> \o Tail(s) = s
<1> DEFINE t == <<Head(s)>> \o Tail(s)
<1>1. /\ Head(s) \in S /\ Head(s) = s[1] /\ Tail(s) \in Seq(S) /\ Len(s) \in Nat /\ Len(s) >= 1
      /\ Len(Tail(s)) = Len(s) - 1 /\ \A i \in 1..(Len(s) - 1) : Tail(s)[i] = s[i + 1]
  BY TailFacts
<1>2. <<Head(s)>> \in Seq(S) /\ Len(<<Head(s)>>) = 1 /\ <<Head(s)>>[1] = s[1]
  BY <1>1
<1>3. /\ t \in Seq(S) /\ Len(t) = Len(s) /\ t[1] = s[1]
      /\ \A i \in 1..(Len(s) - 1) : t[i + 1] = s[i + 1]
  BY <1>1, <1>2
<1> HIDE DEF t
<1>4. \A i \in 1..Len(s) : t[i] = s[i]
  <2> SUFFICES ASSUME NEW i \in 1..Len(s) PROVE t[i] = s[i]
    OBVIOUS
  <2>1. i = 1 \/ (i - 1 \in 1..(Len(s) - 1) /\ i = (i - 1) + 1)
    BY <1>1
  <2> QED
    BY <1>3, <2>1
<1>5. s = [i \in 1..Len(s) |-> s[i]] /\ t = [i \in 1..Len(t) |-> t[i]]
  BY <1>3
<1> QED
  BY <1>3, <1>4, <1>5 DEF t

LEMMA Regroup ==
    ASSUME NEW S
    PROVE  \A s, t, u \in Seq(S) : (s \o t) \o u = s \o (t \o u)
BY ConcatAssociative

LEMMA Pushed ==
    ASSUME NEW S, NEW s \in Seq(S), NEW t \in Seq(S), NEW x \in S
    PROVE  /\ Append(s, x) \o (<<>> \o t) = s \o (<<x>> \o t)
           /\ \A u \in Seq(S) : s \o (u \o Append(t, x)) = Append(s \o (u \o t), x)
<1> DEFINE one == <<x>>
<1>1. one \in Seq(S) /\ Append(s, x) = s \o one /\ Append(t, x) = t \o one /\ <<>> \o t = t
  OBVIOUS
<1> HIDE DEF one
<1>2. (s \o one) \o t = s \o (one \o t)
  BY <1>1, Regroup, SMTT(30)
<1>3. ASSUME NEW u \in Seq(S)
      PROVE  s \o (u \o Append(t, x)) = Append(s \o (u \o t), x)
  <2>1. u \o t \in Seq(S) /\ s \o (u \o t) \in Seq(S)
    OBVIOUS
  <2>2. u \o (t \o one) = (u \o t) \o one
    BY <1>1, Regroup, SMTT(30)
  <2>3. \A v, w \in Seq(S) : (s \o v) \o w = s \o (v \o w)
    BY Regroup, SMTT(30)
  <2>4. \A v \in Seq(S) : Append(v, x) = v \o one
    BY DEF one
  <2>5. s \o (u \o Append(t, x)) = s \o ((u \o t) \o one)
    BY <1>1, <2>2
  <2>6. (s \o (u \o t)) \o one = s \o ((u \o t) \o one)
    BY <1>1, <2>1, <2>3
  <2>7. Append(s \o (u \o t), x) = (s \o (u \o t)) \o one
    BY <2>1, <2>4
  <2> QED
    BY <2>5, <2>6, <2>7
<1> QED
  BY <1>1, <1>2, <1>3 DEF one

\* The worker takes the first event that waits; the line is as it was.
LEMMA CoreGets ==
    ASSUME Core, NEW i \in DOMAIN workers, Get(i)
    PROVE  /\ Core' /\ Line' = Line /\ workers'[1].pc = "handle"
           /\ UNCHANGED <<posted, job, queue, unfinished, pc, waits, published, log>>
<1> USE DEF Core
<1> DEFINE e == Head(items[1])
<1> DEFINE w == [workers[1] EXCEPT !.pc = "handle", !.event = e]
<1>1. /\ workers[1].pc = "get" /\ items[1] # <<>> /\ workers' = [workers EXCEPT ![1] = w]
      /\ items' = [items EXCEPT ![1] = Tail(items[1])]
      /\ UNCHANGED <<posted, job, blocked, queue, unfinished, worker, pc, waits, published, log>>
  BY TheWorker DEF Get, WorkerAt
<1>2. /\ e \in BusEvents /\ Tail(items[1]) \in Seq(BusEvents) /\ Len(items[1]) \in Nat
      /\ Len(Tail(items[1])) = Len(items[1]) - 1
  BY <1>1, TheWorker, TailFacts
<1>3. w \in Workers /\ w.pc = "handle" /\ w.event = e
  BY <1>2, TheWorker DEF Workers
<1> HIDE DEF w
<1>4. workers' \in Seq(Workers) /\ Len(workers') = 1 /\ workers'[1] = w
  BY <1>1, <1>3, TheWorker, WorkerSet
<1>5. items' \in Seq(Seq(BusEvents)) /\ Len(items') = 1 /\ items'[1] = Tail(items[1])
  <2> DEFINE x == Tail(items[1])
  <2>1. x \in Seq(BusEvents) /\ items' = [items EXCEPT ![1] = x] /\ 1 \in 1..Len(items)
    BY <1>1, <1>2, TheWorker
  <2> HIDE DEF x
  <2>2. items' \in Seq(Seq(BusEvents)) /\ Len(items') = 1 /\ items'[1] = x
    BY <2>1, TheWorker, Replaced
  <2> QED
    BY <2>2 DEF x
<1>6. /\ ~Busy /\ Now = <<>> /\ Busy' /\ Now' = <<e>> /\ Waiting = items[1]
      /\ Waiting' = Tail(items[1])
  BY <1>1, <1>3, <1>4, <1>5, TheWorker DEF Busy, Now, Waiting
<1>7. Now' \o Waiting' = Waiting /\ Now \o Waiting = Waiting
  BY <1>1, <1>6, TheWorker, Restack, Joined
<1>8. Line' = Line
  BY <1>1, <1>7 DEF Line
<1>9. BusTypes' /\ OneLoop'
  BY <1>1, <1>4, <1>5, TheWorker DEF BusTypes, OneLoop
<1>10. InCoroutine'
  BY <1>1, <1>2, <1>3, <1>4, TheWorker DEF InCoroutine
<1>11. Counted'
  BY <1>1, <1>2, <1>6, TheWorker DEF Counted
<1> QED
  BY <1>1, <1>3, <1>4, <1>8, <1>9, <1>10, <1>11

\* The handler is through, whatever came of it.
LEMMA WorkerAfter ==
    ASSUME Core, NEW i \in DOMAIN workers, workers[1].pc = "handle",
           workers' = [workers EXCEPT ![1].pc = "done"],
           UNCHANGED <<items, queue, worker, log>>
    PROVE  /\ workers' \in Seq(Workers) /\ Len(workers') = 1
           /\ workers'[1].pc = "done" /\ workers'[1].event = workers[1].event
           /\ Busy /\ Busy' /\ Now' = Now /\ Waiting' = Waiting /\ Line' = Line
<1> DEFINE w == [workers[1] EXCEPT !.pc = "done"]
<1>1. w \in Workers /\ w.pc = "done" /\ w.event = workers[1].event
  BY TheWorker DEF Workers
<1>2. workers' = [workers EXCEPT ![1] = w]
  OBVIOUS
<1> HIDE DEF w
<1>3. workers' \in Seq(Workers) /\ Len(workers') = 1 /\ workers'[1] = w
  BY <1>1, <1>2, TheWorker, WorkerSet
<1>4. Busy /\ Busy' /\ Now' = Now /\ Waiting' = Waiting
  BY <1>1, <1>3, TheWorker DEF Busy, Now, Waiting
<1> QED
  BY <1>1, <1>3, <1>4 DEF Line

LEMMA CoreHandles ==
    ASSUME Core, NEW i \in DOMAIN workers, Handled(i) \/ HandlerRaises(i)
    PROVE  /\ Core' /\ Line' = Line /\ workers[1].pc = "handle" /\ workers'[1].pc = "done"
           /\ workers'[1].event = workers[1].event /\ Busy'
           /\ UNCHANGED <<job, queue, unfinished, pc, waits, log>>
           /\ \/ UNCHANGED <<posted, published>>
              \/ /\ workers[1].event.kind = "finalized"
                 /\ PublishSync(Indexed(workers[1].event.of),
                                IF workers[1].loop = "main" THEN "main" ELSE "thread")
<1> USE DEF Core
<1> DEFINE e == workers[1].event
<1> DEFINE t == IF workers[1].loop = "main" THEN "main" ELSE "thread"
<1>1. /\ workers[1].pc = "handle" /\ workers' = [workers EXCEPT ![1].pc = "done"]
      /\ Free(workers[1].loop) /\ UNCHANGED <<job, queue, items, unfinished, worker, pc, waits, log>>
  BY TheWorker DEF Handled, HandlerRaises, WorkerAt, Worker, AfterFailure
<1>2. /\ workers' \in Seq(Workers) /\ Len(workers') = 1
      /\ workers'[1].pc = "done" /\ workers'[1].event = e
      /\ Busy /\ Busy' /\ Now' = Now /\ Waiting' = Waiting /\ Line' = Line
  BY <1>1, WorkerAfter
<1>3. e \in BusEvents
  BY <1>2 DEF InCoroutine
<1>4. \/ UNCHANGED <<posted, blocked, published>>
      \/ e.kind = "finalized" /\ PublishSync(Indexed(e.of), t)
  BY <1>3, EventsOf, TheWorker DEF Handled, HandlerRaises
<1>5. CASE UNCHANGED <<posted, blocked, published>>
  <2>1. BusTypes' /\ OneLoop'
    BY <1>1, <1>2, <1>5, TheWorker DEF BusTypes, OneLoop
  <2>2. InCoroutine' /\ Counted'
    BY <1>1, <1>2, <1>3, <1>5 DEF InCoroutine, Counted
  <2> QED
    BY <1>1, <1>2, <1>5, <2>1, <2>2
<1>6. CASE e.kind = "finalized" /\ PublishSync(Indexed(e.of), t)
  <2> DEFINE f == Indexed(e.of)
  <2> DEFINE j == [do |-> "queue", then |-> "put", event |-> f]
  <2>1. f \in BusEvents
    BY <1>3, <1>6, EventsOf
  <2>2. j \in Coroutines /\ j.do = "queue" /\ j.then = "put"
    BY <2>1 DEF Coroutines, Doings
  <2>3. t = "main" => Free("main")
    BY <1>1
  <2>4. /\ Post(PublishLoop(t), j) /\ PublishLoop(t) \in Loops
        /\ published' = Append(published, f)
        /\ \/ PublishLoop(t) = "main" /\ blocked' = blocked
           \/ PublishLoop(t) = "bridge" /\ Free("main") /\ blocked' = TRUE
    BY <1>6, <2>3 DEF PublishSync, PublishLoop, Loops, BusTypes
  <2> HIDE DEF j, t, f
  <2>5. /\ posted' \in [Loops -> Seq(Coroutines)] /\ blocked' \in BOOLEAN /\ OneLoop'
        /\ \A m \in Loops : \A k \in DOMAIN posted'[m] : posted'[m][k].do = "queue"
    BY <1>1, <2>2, <2>4, Posting
  <2>6. published' \in Seq(BusEvents)
    BY <2>1, <2>4, AppendFacts DEF BusTypes
  <2>7. BusTypes'
    BY <1>1, <1>2, <2>5, <2>6, TheWorker DEF BusTypes
  <2>8. InCoroutine' /\ Counted'
    BY <1>1, <1>2, <1>3, <2>5 DEF InCoroutine, Counted
  <2> USE DEF t, f
  <2> QED
    BY <1>1, <1>2, <1>6, <2>5, <2>7, <2>8
<1> QED
  BY <1>4, <1>5, <1>6

\* The bus is done with an event: it moves to the log and stays on the line.
LEMMA CoreFinishes ==
    ASSUME Core, NEW i \in DOMAIN workers, TaskDone(i)
    PROVE  /\ Core' /\ Line' = Line /\ workers[1].pc = "done" /\ Busy /\ ~Busy'
           /\ log' = Append(log, workers[1].event) /\ workers[1].event \in BusEvents
           /\ unfinished[1] \in Nat /\ unfinished'[1] = unfinished[1] - 1 /\ queue = 1
           /\ unfinished[1] = 1 => Line = log'
           /\ IF unfinished[1] = 1
              THEN /\ waits' = {}
                   /\ pc' = [p \in DOMAIN pc |-> IF <<p, 1>> \in waits THEN "woken" ELSE pc[p]]
              ELSE waits' = waits /\ pc' = pc
           /\ UNCHANGED <<posted, job, queue, published>>
<1> USE DEF Core
<1> DEFINE e == workers[1].event
<1> DEFINE w == [workers[1] EXCEPT !.pc = "get"]
<1>1. /\ workers[1].pc = "done" /\ workers' = [workers EXCEPT ![1] = w] /\ queue = 1
      /\ unfinished' = [unfinished EXCEPT ![1] = unfinished[1] - 1]
      /\ log' = Append(log, e)
      /\ UNCHANGED <<posted, job, blocked, queue, items, worker, published>>
  BY TheWorker DEF TaskDone, WorkerAt, Worker
<1>2. /\ waits' = {v \in waits : ~(unfinished[1] = 1 /\ v[2] = 1)}
      /\ pc' = [p \in DOMAIN pc |->
                  IF unfinished[1] = 1 /\ <<p, 1>> \in waits THEN "woken" ELSE pc[p]]
  BY <1>1 DEF TaskDone
<1>3. w \in Workers /\ w.pc = "get"
  BY TheWorker DEF Workers
<1> HIDE DEF w
<1>4. workers' \in Seq(Workers) /\ Len(workers') = 1 /\ workers'[1] = w
  BY <1>1, <1>3, TheWorker, WorkerSet
<1>5. Busy /\ e \in BusEvents /\ Now = <<e>>
  BY <1>1, TheWorker DEF Busy, Now, InCoroutine
<1>6. ~Busy' /\ Now' = <<>> /\ Waiting' = Waiting
  BY <1>1, <1>3, <1>4 DEF Busy, Now, Waiting
<1>7. log \in Seq(BusEvents) /\ log' \in Seq(BusEvents) /\ Waiting \in Seq(BusEvents)
  BY <1>1, <1>5, AppendFacts, TheWorker DEF BusTypes
<1>8. Line' = Line
  BY <1>1, <1>5, <1>6, <1>7, Pushed DEF Line
<1>9. unfinished[1] = 1 + Len(Waiting) /\ Len(Waiting) \in Nat
  BY <1>5, <1>7, TheWorker DEF Counted
<1>10. unfinished' \in Seq(Nat) /\ Len(unfinished') = 1 /\ unfinished'[1] = unfinished[1] - 1
  <2>1. unfinished[1] - 1 \in Nat
    BY <1>9
  <2>2. \A k \in Nat :
           /\ [unfinished EXCEPT ![1] = k] \in Seq(Nat) /\ Len([unfinished EXCEPT ![1] = k]) = 1
           /\ [unfinished EXCEPT ![1] = k][1] = k
    BY TheWorker, Recounted
  <2> QED
    BY <1>1, <2>1, <2>2
<1>11. unfinished[1] = 1 => Line = log'
  <2> SUFFICES ASSUME unfinished[1] = 1 PROVE Line = log'
    OBVIOUS
  <2>1. Len(Waiting) = 0
    BY <1>9
  <2>2. Waiting' = <<>>
    BY <1>6, <1>7, <2>1
  <2>3. Line' = log'
    BY <1>6, <1>7, <2>2, Joined DEF Line
  <2> QED
    BY <1>8, <2>3
<1>12. /\ pc' \in [Pipelines \cup Dogs -> BusPcs] /\ waits' \subseteq Pipelines \X {1}
       /\ IF unfinished[1] = 1
          THEN /\ waits' = {}
               /\ pc' = [p \in DOMAIN pc |-> IF <<p, 1>> \in waits THEN "woken" ELSE pc[p]]
          ELSE waits' = waits /\ pc' = pc
  <2>1. pc \in [Pipelines \cup Dogs -> BusPcs] /\ waits \subseteq Pipelines \X {1}
    BY DEF BusTypes
  <2>2. CASE unfinished[1] = 1
    BY <1>2, <2>1, <2>2 DEF BusPcs
  <2>3. CASE unfinished[1] # 1
    BY <1>2, <2>1, <2>3
  <2> QED
    BY <2>2, <2>3
<1>13. BusTypes' /\ OneLoop'
  BY <1>1, <1>4, <1>7, <1>10, <1>12, TheWorker DEF BusTypes, OneLoop
<1>14. InCoroutine' /\ Counted'
  BY <1>1, <1>6, <1>7, <1>9, <1>10, TheWorker DEF InCoroutine, Counted
<1> QED
  BY <1>1, <1>5, <1>6, <1>8, <1>10, <1>11, <1>12, <1>13, <1>14, TheWorker

\* A drain that was woken goes on.
LEMMA CoreWakes ==
    ASSUME Core, NEW p \in Pipelines, Wakes(p)
    PROVE  Core' /\ UNCHANGED <<Line, Busy>>
BY DEF Core, Wakes, BusTypes, BusPcs, OneLoop, InCoroutine, Counted, Busy, Now, Waiting, Line
-----------------------------------------------------------------------------
\* What a coroutine is there to do does not depend on how far it has come.
Places == Loops \X Nat \X BusEvents

LEMMA CarriedKept ==
    ASSUME Core, NEW l \in Loops, NEW d \in Doings, job[l] # NoJob,
           job' = [job EXCEPT ![l].do = d], UNCHANGED posted, NEW what
    PROVE  Carried(what)' = Carried(what)
<1>1. /\ \A m \in Loops : m # l => job'[m] = job[m]
      /\ job'[l] # NoJob /\ job'[l].then = job[l].then /\ job'[l].event = job[l].event
  BY EventsOf DEF Core, BusTypes, Coroutines, NoJob
<1> QED
  BY <1>1 DEF Carried, Slot

LEMMA CarriedBegins ==
    ASSUME Core, NEW l \in Loops, BeginJob(l), NEW what, NEW c \in Places
    PROVE  c \in Carried(what)' <=> IF c[1] = l THEN <<l, c[2] + 1, c[3]>> \in Carried(what)
                                    ELSE c \in Carried(what)
<1>1. /\ job[l] = NoJob /\ posted[l] # <<>>
      /\ job' = [job EXCEPT ![l] = Head(posted[l])]
      /\ posted' = [posted EXCEPT ![l] = Tail(posted[l])]
  BY DEF BeginJob
<1>2. posted[l] \in Seq(Coroutines) /\ posted \in [Loops -> Seq(Coroutines)]
  BY DEF Core, BusTypes
<1>3. /\ Head(posted[l]) = posted[l][1] /\ Len(posted[l]) \in Nat /\ Len(posted[l]) >= 1
      /\ Len(Tail(posted[l])) = Len(posted[l]) - 1
      /\ \A i \in 1..(Len(posted[l]) - 1) : Tail(posted[l])[i] = posted[l][i + 1]
  BY <1>1, <1>2, TailFacts
<1>4. /\ job'[l] = posted[l][1] /\ posted'[l] = Tail(posted[l])
      /\ \A m \in Loops : m # l => job'[m] = job[m] /\ posted'[m] = posted[m]
  BY <1>1, <1>2, <1>3 DEF Core, BusTypes
<1>5. CASE c[1] # l
  BY <1>4, <1>5 DEF Carried, Slot, Places
<1>6. CASE c[1] = l
  <2>1. c[2] \in Nat /\ (c[2] <= Len(posted'[l]) <=> c[2] + 1 <= Len(posted[l]))
    BY <1>3, <1>4 DEF Places
  <2>2. c[2] <= Len(posted'[l]) =>
           (IF c[2] = 0 THEN job'[l] ELSE posted'[l][c[2]]) = posted[l][c[2] + 1]
    <3>1. CASE c[2] = 0
      BY <1>4, <3>1
    <3>2. CASE c[2] # 0
      BY <1>3, <1>4, <2>1, <3>2
    <3> QED
      BY <3>1, <3>2
  <2>3. <<l, c[2] + 1, c[3]>> \in Places
    BY <2>1 DEF Places
  <2>4. c \in Carried(what)' <=>
           /\ c[2] <= Len(posted'[l])
           /\ posted[l][c[2] + 1] # NoJob /\ posted[l][c[2] + 1].then = what
           /\ posted[l][c[2] + 1].event = c[3]
    BY <1>6, <2>2 DEF Carried, Slot, Places
  <2>5. <<l, c[2] + 1, c[3]>> \in Carried(what) <=>
           /\ c[2] + 1 <= Len(posted[l])
           /\ posted[l][c[2] + 1] # NoJob /\ posted[l][c[2] + 1].then = what
           /\ posted[l][c[2] + 1].event = c[3]
    BY <2>1, <2>3 DEF Carried, Slot, Places
  <2> QED
    BY <1>6, <2>1, <2>4, <2>5
<1> QED
  BY <1>5, <1>6

\* Where a coroutine that is posted now will be found.
NewPlace(l, e) == <<l, Len(posted[l]) + 1, e>>

LEMMA CarriedPosts ==
    ASSUME Core, NEW l \in Loops, NEW j \in Coroutines, Post(l, j), UNCHANGED job, NEW what
    PROVE  /\ Carried(what)' = Carried(what) \cup (IF j.then = what THEN {NewPlace(l, j.event)} ELSE {})
           /\ NewPlace(l, j.event) \in Places
<1>1. posted' = [posted EXCEPT ![l] = Append(posted[l], j)]
  BY DEF Post
<1>2. posted[l] \in Seq(Coroutines) /\ posted \in [Loops -> Seq(Coroutines)] /\ j # NoJob
  BY EventsOf DEF Core, BusTypes
<1> DEFINE n == Len(posted[l])
<1>3. /\ n \in Nat /\ Len(posted'[l]) = n + 1 /\ posted'[l][n + 1] = j
      /\ \A i \in 1..n : posted'[l][i] = posted[l][i]
      /\ \A m \in Loops : m # l => posted'[m] = posted[m]
  BY <1>1, <1>2, AppendFacts
<1>4. j.event \in BusEvents
  BY DEF Coroutines
<1>5. NewPlace(l, j.event) \in Places
  BY <1>3, <1>4 DEF NewPlace, Places
<1>6. ASSUME NEW c \in Places
      PROVE  c \in Carried(what)' <=>
                c \in Carried(what) \/ (j.then = what /\ c = NewPlace(l, j.event))
  <2>0. /\ c[1] \in Loops /\ c[2] \in Nat /\ c[3] \in BusEvents /\ c = <<c[1], c[2], c[3]>>
    BY DEF Places
  <2>1. CASE c[1] # l
    BY <1>3, <2>0, <2>1 DEF Carried, Slot, NewPlace, Places
  <2>2. CASE c[1] = l /\ c[2] <= n
    <3>1. (IF c[2] = 0 THEN job[l] ELSE posted'[l][c[2]]) =
             (IF c[2] = 0 THEN job[l] ELSE posted[l][c[2]])
      BY <1>3, <2>0, <2>2
    <3>2. c # NewPlace(l, j.event)
      BY <1>3, <2>0, <2>2 DEF NewPlace
    <3>3. c[2] <= Len(posted'[l])
      BY <1>3, <2>0, <2>2
    <3> QED
      BY <2>0, <2>2, <3>1, <3>2, <3>3 DEF Carried, Slot, Places
  <2>3. CASE c[1] = l /\ c[2] = n + 1
    <3>1. c \notin Carried(what)
      BY <1>3, <2>3 DEF Carried
    <3>2. c \in Carried(what)' <=> j.then = what /\ j.event = c[3]
      BY <1>2, <1>3, <2>0, <2>3 DEF Carried, Slot, Places
    <3>3. c = NewPlace(l, j.event) <=> j.event = c[3]
      BY <2>0, <2>3 DEF NewPlace
    <3> QED
      BY <3>1, <3>2, <3>3
  <2>4. CASE c[1] = l /\ c[2] > n + 1
    BY <1>3, <2>0, <2>4 DEF Carried, NewPlace
  <2> QED
    BY <1>3, <2>0, <2>1, <2>2, <2>3, <2>4
<1>7. Carried(what) \subseteq Places /\ Carried(what)' \subseteq Places
  BY DEF Carried, Places
<1> QED
  BY <1>5, <1>6, <1>7

LEMMA CarriedEnds ==
    ASSUME Core, NEW l \in Loops, job[l] \in Coroutines,
           job' = [job EXCEPT ![l] = NoJob], UNCHANGED posted, NEW what
    PROVE  /\ Carried(what)' = {c \in Carried(what) : ~(c[1] = l /\ c[2] = 0)}
           /\ <<l, 0, job[l].event>> \in Carried(job[l].then)
           /\ \A c \in Carried(what) :
                 c[1] = l /\ c[2] = 0 => what = job[l].then /\ c = <<l, 0, job[l].event>>
<1>1. /\ job'[l] = NoJob /\ \A m \in Loops : m # l => job'[m] = job[m]
      /\ job[l] # NoJob /\ job[l].event \in BusEvents
      /\ \A m \in Loops : Len(posted[m]) \in Nat
  BY EventsOf DEF Core, BusTypes, Coroutines
<1>2. Carried(what)' = {c \in Carried(what) : ~(c[1] = l /\ c[2] = 0)}
  <2>1. ASSUME NEW c \in Places
        PROVE  c \in Carried(what)' <=> c \in Carried(what) /\ ~(c[1] = l /\ c[2] = 0)
    BY <1>1 DEF Carried, Slot, Places
  <2>2. Carried(what) \subseteq Places /\ Carried(what)' \subseteq Places
    BY DEF Carried, Places
  <2> QED
    BY <2>1, <2>2
<1>3. <<l, 0, job[l].event>> \in Carried(job[l].then)
  BY <1>1 DEF Carried, Slot
<1>4. \A c \in Carried(what) :
         c[1] = l /\ c[2] = 0 => what = job[l].then /\ c = <<l, 0, job[l].event>>
  BY DEF Carried, Slot
<1> QED
  BY <1>2, <1>3, <1>4
-----------------------------------------------------------------------------
\* The line and what is coming, under the steps that change them.
Way == OnItsWay /\ InOrder

\* Nothing moves between the places.
LEMMA WayKept ==
    ASSUME Way, UNCHANGED <<Line, published>>,
           Carried("put")' = Carried("put"), Carried("join")' = Carried("join")
    PROVE  Way'
BY DEF Way, OnItsWay, InOrder, Coming, Before

\* A loop takes up a coroutine: all that were posted to it move up by one.
LEMMA MovedUp ==
    ASSUME Core, NEW l \in Loops, BeginJob(l), NEW what
    PROVE  /\ \A c \in Carried(what)' : \E d \in Carried(what) : d[1] = c[1] /\ d[3] = c[3]
           /\ \A d \in Carried(what) : \E c \in Carried(what)' : d[1] = c[1] /\ d[3] = c[3]
           /\ (\A c, d \in Carried(what) : c[3] = d[3] => c = d) =>
                 \A c, d \in Carried(what)' : c[3] = d[3] => c = d
<1>0. Carried(what) \subseteq Places /\ Carried(what)' \subseteq Places
  BY DEF Carried, Places
<1>1. \A c \in Places : c[1] \in Loops /\ c[2] \in Nat /\ c[3] \in BusEvents /\ c = <<c[1], c[2], c[3]>>
  BY DEF Places
<1>2. ASSUME NEW c \in Carried(what)'
      PROVE  \E d \in Carried(what) : d[1] = c[1] /\ d[3] = c[3]
  BY <1>0, CarriedBegins
<1>3. ASSUME NEW d \in Carried(what)
      PROVE  \E c \in Carried(what)' : d[1] = c[1] /\ d[3] = c[3]
  <2>1. CASE d[1] = l
    <3>1. d[2] # 0
      BY <2>1 DEF Carried, Slot, BeginJob
    <3>2. d[2] - 1 \in Nat /\ (d[2] - 1) + 1 = d[2]
      BY <1>0, <1>1, <3>1
    <3> DEFINE c == <<l, d[2] - 1, d[3]>>
    <3>3. c \in Places /\ c[1] = l /\ c[2] + 1 = d[2] /\ c[3] = d[3]
      BY <1>0, <1>1, <3>2 DEF Places
    <3>4. <<l, c[2] + 1, c[3]>> = d
      BY <1>0, <1>1, <2>1, <3>3
    <3> HIDE DEF c
    <3>5. c \in Carried(what)'
      BY <3>3, <3>4, CarriedBegins
    <3> QED
      BY <2>1, <3>3, <3>5
  <2>2. CASE d[1] # l
    BY <1>0, <2>2, CarriedBegins
  <2> QED
    BY <2>1, <2>2
<1>4. ASSUME \A c, d \in Carried(what) : c[3] = d[3] => c = d,
             NEW c \in Carried(what)', NEW d \in Carried(what)', c[3] = d[3]
      PROVE  c = d
  <2> DEFINE Up(x) == IF x[1] = l THEN <<l, x[2] + 1, x[3]>> ELSE x
  <2>1. Up(c) \in Carried(what) /\ Up(d) \in Carried(what)
    BY <1>0, CarriedBegins
  <2>2. Up(c)[3] = c[3] /\ Up(d)[3] = d[3] /\ Up(c)[1] = c[1] /\ Up(d)[1] = d[1]
    OBVIOUS
  <2>3. Up(c) = Up(d)
    BY <1>4, <2>1, <2>2
  <2>4. c[1] = d[1] /\ c[2] = d[2]
    BY <1>0, <1>1, <2>2, <2>3
  <2> QED
    BY <1>0, <1>1, <1>4, <2>4
<1> QED
  BY <1>2, <1>3, <1>4

LEMMA WayBegins ==
    ASSUME Core, Way, NEW l \in Loops, BeginJob(l)
    PROVE  Way' /\ UNCHANGED <<Line, Busy>>
<1>1. UNCHANGED <<queue, items, workers, worker, log, published>>
  BY DEF BeginJob
<1>2. UNCHANGED <<Line, Busy>>
  BY <1>1 DEF Line, Busy, Now, Waiting
<1>3. \A e : Coming(e)' <=> Coming(e)
  BY MovedUp DEF Coming
<1>4. OnItsWay'
  BY <1>1, <1>2, <1>3, MovedUp DEF Way, OnItsWay
<1>5. InOrder'
  <2>1. \A e, f : Before(e, f)' <=> Before(e, f)
    BY <1>1 DEF Before
  <2> QED
    BY <1>2, <2>1, MovedUp DEF Way, InOrder
<1> QED
  BY <1>2, <1>4, <1>5 DEF Way

\* What was published before stays before.
LEMMA StaysBefore ==
    ASSUME BusTypes, NEW e \in BusEvents, published' = Append(published, e)
    PROVE  /\ Range(published') = Range(published) \cup {e}
           /\ \A f, g : Before(f, g) => Before(f, g)'
           /\ \A f \in Range(published) : Before(f, e)'
<1>1. published \in Seq(BusEvents) /\ Len(published) \in Nat
  BY DEF BusTypes
<1> DEFINE n == Len(published)
<1>2. /\ published' \in Seq(BusEvents) /\ Len(published') = n + 1 /\ published'[n + 1] = e
      /\ \A i \in 1..n : published'[i] = published[i]
      /\ Range(published') = Range(published) \cup {e}
  BY <1>1, AppendFacts
<1>3. DOMAIN published = 1..n /\ DOMAIN published' = 1..(n + 1)
  BY <1>1, <1>2
<1>4. \A f, g : Before(f, g) => Before(f, g)'
  BY <1>1, <1>2, <1>3 DEF Before
<1>5. ASSUME NEW f \in Range(published) PROVE Before(f, e)'
  <2>1. PICK i \in 1..n : published[i] = f
    BY <1>1, Ranges
  <2> QED
    BY <1>1, <1>2, <1>3, <2>1 DEF Before
<1> QED
  BY <1>2, <1>4, <1>5

\* An event that was not published yet is published.
LEMMA WayPublishes ==
    ASSUME Core, Way, NEW l \in Loops, NEW j \in Coroutines, Post(l, j), j.then = "put",
           published' = Append(published, j.event), j.event \notin Range(published),
           j.event.kind = "finalized" => l = "bridge", UNCHANGED <<job, Line>>
    PROVE  Way' /\ Carried("join")' = Carried("join")
<1> DEFINE e == j.event
<1>1. e \in BusEvents
  BY DEF Coroutines
<1>2. /\ Carried("put")' = Carried("put") \cup {NewPlace(l, e)} /\ NewPlace(l, e) \in Places
      /\ Carried("join")' = Carried("join")
  <2>1. Carried("put")' = Carried("put") \cup {NewPlace(l, e)} /\ NewPlace(l, e) \in Places
    <3>1. \A what : Carried(what)' = Carried(what) \cup (IF j.then = what THEN {NewPlace(l, e)} ELSE {})
      BY CarriedPosts
    <3>2. Carried("put")' = Carried("put") \cup (IF j.then = "put" THEN {NewPlace(l, e)} ELSE {})
      BY <3>1
    <3>3. NewPlace(l, e) \in Places
      BY CarriedPosts
    <3> QED
      BY <3>2, <3>3
  <2>2. Carried("join")' = Carried("join")
    <3>1. Carried("join")' = Carried("join") \cup (IF j.then = "join" THEN {NewPlace(l, e)} ELSE {})
      BY CarriedPosts
    <3> QED
      BY <3>1
  <2> QED
    BY <2>1, <2>2
<1>3. NewPlace(l, e)[1] = l /\ NewPlace(l, e)[3] = e
  BY DEF NewPlace
<1>4. /\ Range(published') = Range(published) \cup {e}
      /\ \A f, g : Before(f, g) => Before(f, g)'
      /\ \A f \in Range(published) : Before(f, e)'
  BY <1>1, StaysBefore DEF Core
<1> HIDE DEF e
<1>5. \A f : Coming(f)' <=> Coming(f) \/ f = e
  BY <1>2, <1>3 DEF Coming
<1>6. \A c \in Carried("put") : c[3] # e
  BY <1>1 DEF Way, OnItsWay, Coming, e
<1>7. e \notin Range(Line)
  BY <1>1 DEF Way, OnItsWay, e
<1>8. OnItsWay'
  BY <1>1, <1>2, <1>3, <1>4, <1>5, <1>6, <1>7 DEF Way, OnItsWay
<1>9. \A k \in DOMAIN Line : Line[k] \in Range(published)
  <2>1. \A k \in DOMAIN Line : Line[k] \in BusEvents /\ Line[k] \in Range(Line)
    BY LineFacts DEF Core, Range
  <2> QED
    BY <2>1 DEF Way, OnItsWay
<1>10. InOrder'
  BY <1>2, <1>3, <1>4, <1>9 DEF Way, InOrder, e
<1> QED
  BY <1>2, <1>8, <1>10 DEF Way

\* A put moves an event to the end of the line.
LEMMA WayPuts ==
    ASSUME Core, Way, NEW l \in Loops, Puts(l)
    PROVE  /\ Way' /\ Carried("join")' = Carried("join")
           /\ Range(Line) \subseteq Range(Line') /\ UNCHANGED Busy
<1> DEFINE e == job[l].event
<1>1. /\ job[l] \in Coroutines /\ job[l].then = "put" /\ job' = [job EXCEPT ![l] = NoJob]
      /\ UNCHANGED <<posted, published, log, Now>> /\ Waiting' = Append(Waiting, e)
      /\ l = "bridge" => posted["bridge"] = <<>>
  BY CorePuts
<1>2. e \in BusEvents
  BY <1>1 DEF Coroutines
<1>3. /\ Carried("put")' = {c \in Carried("put") : ~(c[1] = l /\ c[2] = 0)}
      /\ Carried("join")' = {c \in Carried("join") : ~(c[1] = l /\ c[2] = 0)}
      /\ <<l, 0, e>> \in Carried("put")
      /\ \A c \in Carried("put") : c[1] = l /\ c[2] = 0 => c = <<l, 0, e>>
      /\ \A c \in Carried("join") : ~(c[1] = l /\ c[2] = 0)
  BY <1>1, CarriedEnds
<1>4. Line' = Append(Line, e)
  <2>1. Now \in Seq(BusEvents) /\ Waiting \in Seq(BusEvents) /\ log \in Seq(BusEvents)
    BY LineFacts DEF Core, BusTypes
  <2>2. \A u \in Seq(BusEvents) : log \o (u \o Append(Waiting, e)) = Append(log \o (u \o Waiting), e)
    <3> HIDE DEF e
    <3> QED
      BY <1>2, <2>1, Pushed, SMTT(30)
  <2>3. log \o (Now \o Append(Waiting, e)) = Append(log \o (Now \o Waiting), e)
    BY <2>1, <2>2
  <2> QED
    BY <1>1, <2>3 DEF Line
<1>5. /\ Line \in Seq(BusEvents) /\ Line' \in Seq(BusEvents) /\ Len(Line) \in Nat
      /\ Len(Line') = Len(Line) + 1 /\ Line'[Len(Line) + 1] = e
      /\ \A i \in 1..Len(Line) : Line'[i] = Line[i]
      /\ Range(Line') = Range(Line) \cup {e}
  BY <1>2, <1>4, LineFacts, AppendFacts DEF Core
<1> DEFINE n == Len(Line)
<1>6. /\ DOMAIN Line = 1..n /\ DOMAIN Line' = 1..(n + 1)
      /\ \A i \in DOMAIN Line' : i \in 1..n \/ i = n + 1
  BY <1>5
<1> HIDE DEF e
<1>7. Coming(e) /\ e \notin Range(Line)
  BY <1>2, <1>3 DEF Coming, Way, OnItsWay
<1>8. \A f \in BusEvents : Coming(f)' <=> Coming(f) /\ f # e
  <2>1. \A c \in Carried("put") : c[3] = e => c = <<l, 0, e>>
    BY <1>3 DEF Way, OnItsWay
  <2> QED
    BY <1>3, <2>1 DEF Coming
<1>9. \A i \in 1..n : Line[i] # e
  BY <1>5, <1>6, <1>7 DEF Range
<1>10. OnItsWay'
  <2>1. \A i, k \in DOMAIN Line' : i < k => Line'[i] # Line'[k]
    <3> SUFFICES ASSUME NEW i \in DOMAIN Line', NEW k \in DOMAIN Line', i < k
                 PROVE  Line'[i] # Line'[k]
      OBVIOUS
    <3>1. i \in 1..n
      BY <1>5, <1>6
    <3>2. CASE k = n + 1
      BY <1>5, <1>9, <3>1, <3>2
    <3>3. CASE k \in 1..n
      BY <1>5, <1>6, <3>1, <3>3 DEF Way, OnItsWay
    <3> QED
      BY <1>6, <3>2, <3>3
  <2>2. \A f \in BusEvents : f \in Range(published') <=> f \in Range(Line') \/ Coming(f)'
    BY <1>1, <1>5, <1>7, <1>8 DEF Way, OnItsWay
  <2>3. \A f \in BusEvents : ~(f \in Range(Line') /\ Coming(f)')
    BY <1>5, <1>8 DEF Way, OnItsWay
  <2>4. \A what \in {"put", "join"} : \A c, d \in Carried(what)' : c[3] = d[3] => c = d
    BY <1>3 DEF Way, OnItsWay
  <2> QED
    BY <2>1, <2>2, <2>3, <2>4 DEF OnItsWay
<1>11. InOrder'
  <2>1. \A f, g : Before(f, g)' <=> Before(f, g)
    BY <1>1 DEF Before
  <2>2. e.kind = "finalized" =>
           l = "bridge" /\ \A k \in 1..n : Line[k].kind = "finalized" => Before(Line[k], e)
    <3>1. <<l, 0, e>>[3] = e /\ <<l, 0, e>>[1] = l
      OBVIOUS
    <3> QED
      BY <1>3, <1>6, <3>1 DEF Way, InOrder
  <2>3. ASSUME NEW i \in DOMAIN Line', NEW k \in DOMAIN Line', i < k,
               Line'[i].kind = "finalized", Line'[k].kind = "finalized"
        PROVE  Before(Line'[i], Line'[k])
    <3>1. i \in 1..n
      BY <1>5, <1>6, <2>3
    <3>2. CASE k = n + 1
      BY <1>5, <2>2, <2>3, <3>1, <3>2
    <3>3. CASE k \in 1..n
      BY <1>5, <1>6, <2>3, <3>1, <3>3 DEF Way, InOrder
    <3> QED
      BY <1>6, <3>2, <3>3
  <2>4. ASSUME NEW c \in Carried("put")', c[3].kind = "finalized"
        PROVE  c[1] = "bridge" /\ \A k \in DOMAIN Line' :
                  Line'[k].kind = "finalized" => Before(Line'[k], c[3])
    <3>1. c \in Carried("put") /\ ~(c[1] = l /\ c[2] = 0) /\ c[1] = "bridge"
      BY <1>3, <2>4 DEF Way, InOrder
    <3>2. e.kind # "finalized"
      <4> SUFFICES ASSUME e.kind = "finalized" PROVE FALSE
        OBVIOUS
      <4>1. l = "bridge" /\ posted["bridge"] = <<>>
        BY <1>1, <2>2
      <4>2. c[2] \in Nat /\ c[2] <= 0
        BY <3>1, <4>1 DEF Carried
      <4> QED
        BY <3>1, <4>1, <4>2
    <3>3. \A k \in 1..n : Line[k].kind = "finalized" => Before(Line[k], c[3])
      BY <1>6, <2>4, <3>1 DEF Way, InOrder
    <3> QED
      BY <1>5, <1>6, <3>1, <3>2, <3>3
  <2> QED
    BY <2>1, <2>3, <2>4 DEF InOrder
<1>12. Carried("join")' = Carried("join")
  BY <1>3
<1>13. UNCHANGED Busy
  BY DEF Puts, Busy
<1> QED
  BY <1>5, <1>10, <1>11, <1>12, <1>13 DEF Way
-----------------------------------------------------------------------------
\* What the publishers have done, and what the drains wait for.

\* The event the worker is at is on the line, and the bus is not done with it.
LEMMA OnHand ==
    ASSUME Core, Way, Busy
    PROVE  /\ workers[1].event \in BusEvents
           /\ workers[1].event \in Range(Line) /\ workers[1].event \notin Range(log)
<1> DEFINE e == workers[1].event
<1>1. e \in BusEvents /\ Now = <<e>>
  BY DEF Core, InCoroutine, Now
<1>2. Now \in Seq(BusEvents) /\ Waiting \in Seq(BusEvents) /\ log \in Seq(BusEvents)
  BY LineFacts DEF Core, BusTypes
<1>3. /\ Line \in Seq(BusEvents) /\ Len(log) \in Nat /\ Len(Line) \in Nat
      /\ Len(Line) = Len(log) + 1 + Len(Waiting) /\ Len(Waiting) \in Nat
      /\ \A i \in 1..Len(log) : Line[i] = log[i]
  BY <1>1, <1>2, LineFacts DEF Core
<1>4. (Now \o Waiting) \in Seq(BusEvents) /\ Len(Now \o Waiting) = 1 + Len(Waiting) /\ (Now \o Waiting)[1] = e
  <2> HIDE DEF e
  <2> QED
    BY <1>1, <1>2
<1>5. Line[Len(log) + 1] = e
  <2> DEFINE t == Now \o Waiting
  <2>1. t \in Seq(BusEvents) /\ 1 \in 1..Len(t) /\ t[1] = e /\ Line = log \o t
    BY <1>3, <1>4 DEF Line
  <2> HIDE DEF t, e
  <2> QED
    BY <1>2, <2>1, Joined
<1>6. Len(log) + 1 \in 1..Len(Line)
  BY <1>3
<1>7. e \in Range(Line)
  BY <1>3, <1>5, <1>6, Ranges
<1>8. e \notin Range(log)
  <2> SUFFICES ASSUME e \in Range(log) PROVE FALSE
    OBVIOUS
  <2>1. PICK i \in 1..Len(log) : log[i] = e
    BY <1>2, Ranges
  <2>2. i \in DOMAIN Line /\ Len(log) + 1 \in DOMAIN Line /\ i < Len(log) + 1
    BY <1>3, <1>6, <2>1
  <2>3. Line[i] = Line[Len(log) + 1]
    BY <1>3, <1>5, <2>1
  <2> QED
    BY <2>2, <2>3 DEF Way, OnItsWay
<1> QED
  BY <1>1, <1>7, <1>8

\* Publishing is a post to the loop that publish_sync chooses.
LEMMA Publishing ==
    ASSUME Core, Way, NEW e \in BusEvents, NEW t \in {"main", "thread"}, PublishSync(e, t),
           e \notin Range(published), e.kind = "finalized" => t = "main", UNCHANGED <<job, Line>>
    PROVE  /\ Way' /\ Carried("join")' = Carried("join")
           /\ Range(published') = Range(published) \cup {e}
<1> DEFINE j == [do |-> "queue", then |-> "put", event |-> e]
<1>1. j \in Coroutines /\ j.then = "put" /\ j.event = e
  BY DEF Coroutines, Doings
<1>2. Post(PublishLoop(t), j) /\ published' = Append(published, e)
  BY DEF PublishSync
<1>3. PublishLoop(t) \in Loops /\ (e.kind = "finalized" => PublishLoop(t) = "bridge")
  BY DEF PublishLoop, Loops
<1> HIDE DEF j
<1>4. Way' /\ Carried("join")' = Carried("join")
  BY <1>1, <1>2, <1>3, WayPublishes
<1>5. Range(published') = Range(published) \cup {e}
  BY <1>2, StaysBefore DEF Core
<1> QED
  BY <1>4, <1>5

\* A step that takes no drain further.
LEMMA DrainsKept ==
    ASSUME Drains, UNCHANGED waits, Range(Line) \subseteq Range(Line'), Range(log) \subseteq Range(log'),
           \A p \in Pipelines : pc'[p] = pc[p] \/ (pc[p] = "publish" /\ pc'[p] = "drain"),
           \A c \in Carried("join")' : \E d \in Carried("join") : d[1] = c[1] /\ d[3] = c[3],
           \A d \in Carried("join") : \E c \in Carried("join")' : d[1] = c[1] /\ d[3] = c[3],
           \A e \in BusEvents : e.kind = "finalized" => e.of \in Pipelines,
           BusTypes, BusTypes',
           waits # {} => queue' = 1 /\ unfinished'[1] > 0
    PROVE  Drains'
<1>1. \A p \in Pipelines :
          /\ pc'[p] # "gone"
          /\ pc'[p] \in {"draining", "woken", "drained"} => pc[p] = pc'[p]
  <2>1. \A p \in Pipelines : pc[p] # "gone"
    BY DEF Drains
  <2> TAKE p \in Pipelines
  <2>2. pc'[p] = pc[p] \/ (pc[p] = "publish" /\ pc'[p] = "drain")
    OBVIOUS
  <2> QED
    BY <2>1, <2>2
<1>2. \A p \in Pipelines :
          /\ pc'[p] # "gone"
          /\ pc'[p] \in {"draining", "woken", "drained"} => Finalized(p) \in Range(Line')
          /\ pc'[p] \in {"woken", "drained"} => Finalized(p) \in Range(log')
          /\ pc'[p] = "draining" =>
                <<p, 1>> \in waits' \/ \E c \in Carried("join")' : c[3] = Finalized(p)
  <2> SUFFICES ASSUME NEW p \in Pipelines
               PROVE  /\ pc'[p] # "gone"
                      /\ pc'[p] \in {"draining", "woken", "drained"} => Finalized(p) \in Range(Line')
                      /\ pc'[p] \in {"woken", "drained"} => Finalized(p) \in Range(log')
                      /\ pc'[p] = "draining" =>
                            \/ <<p, 1>> \in waits'
                            \/ \E c \in Carried("join")' : c[3] = Finalized(p)
    OBVIOUS
  <2>1. pc'[p] \in {"draining", "woken", "drained"} => Finalized(p) \in Range(Line)
    BY <1>1 DEF Drains
  <2>2. pc'[p] \in {"woken", "drained"} => Finalized(p) \in Range(log)
    BY <1>1 DEF Drains
  <2>3. pc'[p] = "draining" => <<p, 1>> \in waits \/ \E d \in Carried("join") : d[3] = Finalized(p)
    BY <1>1 DEF Drains
  <2>4. (\E d \in Carried("join") : d[3] = Finalized(p)) => \E c \in Carried("join")' : c[3] = Finalized(p)
    OBVIOUS
  <2> QED
    BY <1>1, <2>1, <2>2, <2>3, <2>4
<1>3. \A c \in Carried("join") : c[3] \in BusEvents
  BY DEF Carried
<1>4. \A c \in Carried("join")' :
          /\ c[1] = "main" /\ c[3].kind = "finalized"
          /\ pc'[c[3].of] = "draining" /\ <<c[3].of, 1>> \notin waits'
  <2> SUFFICES ASSUME NEW c \in Carried("join")'
               PROVE  /\ c[1] = "main" /\ c[3].kind = "finalized"
                      /\ pc'[c[3].of] = "draining" /\ <<c[3].of, 1>> \notin waits'
    OBVIOUS
  <2>1. PICK d \in Carried("join") : d[1] = c[1] /\ d[3] = c[3]
    OBVIOUS
  <2>2. d[1] = "main" /\ d[3].kind = "finalized" /\ pc[d[3].of] = "draining" /\ <<d[3].of, 1>> \notin waits
    BY DEF Drains
  <2>3. pc'[d[3].of] = "draining"
    BY <1>3, <2>2
  <2> QED
    BY <2>1, <2>2, <2>3
<1>5. \A w \in waits' : pc'[w[1]] = "draining" /\ queue' = 1 /\ unfinished'[1] > 0
  <2>1. \A w \in waits : w[1] \in Pipelines /\ pc[w[1]] = "draining"
    BY DEF Drains, BusTypes
  <2> QED
    BY <2>1
<1> QED
  BY <1>2, <1>4, <1>5 DEF Drains

\* A step that publishes nothing and with which the bus is done with no event.
LEMMA PublishedKept ==
    ASSUME Published, UNCHANGED <<published, log>>,
           \A p \in Pipelines \cup Dogs : pc'[p] = "publish" <=> pc[p] = "publish",
           Busy /\ workers[1].pc = "done" =>
              Busy' /\ workers'[1].pc = "done" /\ workers'[1].event = workers[1].event
    PROVE  Published'
BY DEF Published

\* The names of the events.
LEMMA Names ==
    /\ \A p, q : Finalized(p) = Finalized(q) => p = q
    /\ \A p, q : Indexed(p) = Indexed(q) => p = q
    /\ \A p, q : Finalized(p) # Indexed(q)
    /\ \A p : Indexed(p).kind = "indexed" /\ Finalized(p).kind = "finalized"
    /\ \A p : Indexed(p).of = p /\ Finalized(p).of = p
BY DEF Finalized, Indexed
-----------------------------------------------------------------------------
\* One lemma per kind of step: the whole invariant is kept.
LEMMA Parts == BusInv <=> Core /\ Way /\ Published /\ Drains
BY DEF BusInv, Core, Way

LEMMA PartsNext == BusInv' <=> Core' /\ Way' /\ Published' /\ Drains'
BY DEF BusInv, Core, Way

LEMMA AfterPublish ==
    ASSUME BusInv, NEW p \in Pipelines, PipelinePublishes(p)
    PROVE  BusInv'
<1> USE Parts
<1> DEFINE e == Finalized(p)
<1>1. /\ pc[p] = "publish" /\ Free("main") /\ PublishSync(e, "main")
      /\ pc' = [pc EXCEPT ![p] = "drain"]
      /\ UNCHANGED <<job, queue, items, unfinished, worker, workers, waits, log>>
  BY DEF PipelinePublishes
<1>2. e \in BusEvents /\ e \notin Range(published)
  BY <1>1, EventsOf DEF Published
<1>3. UNCHANGED <<Line, Busy, Now, Waiting>>
  BY <1>1 DEF Line, Busy, Now, Waiting
<1>4. Core'
  BY CorePosts
<1>5. Way' /\ Carried("join")' = Carried("join") /\ Range(published') = Range(published) \cup {e}
  <2> HIDE DEF e
  <2> QED
    BY <1>1, <1>2, <1>3, Publishing
<1>6. pc \in [Pipelines \cup Dogs -> BusPcs] /\ BusTypes /\ BusTypes'
  BY <1>4 DEF Core, BusTypes
<1>7. pc'[p] = "drain" /\ \A q \in Pipelines \cup Dogs : q # p => pc'[q] = pc[q]
  BY <1>1, <1>6
<1>8. Published'
  <2>1. \A q \in Pipelines : Finalized(q) \in Range(published') <=> pc'[q] # "publish"
    BY <1>1, <1>5, <1>7, Names DEF Published
  <2>2. \A d \in Dogs : Indexed(d) \in Range(published') => pc'[d] # "publish"
    BY <1>1, <1>5, <1>7, Names DEF Published
  <2>3. \A q \in Pipelines :
          Indexed(q) \in Range(published') =>
             \/ Finalized(q) \in Range(log')
             \/ Busy' /\ workers'[1].pc = "done" /\ workers'[1].event = Finalized(q)
    BY <1>1, <1>3, <1>5, Names DEF Published
  <2> QED
    BY <2>1, <2>2, <2>3 DEF Published
<1>9. Drains'
  <2>1. \A q \in Pipelines : pc'[q] = pc[q] \/ (pc[q] = "publish" /\ pc'[q] = "drain")
    BY <1>1, <1>7
  <2>2. waits # {} => queue' = 1 /\ unfinished'[1] > 0
    BY <1>1 DEF Drains
  <2>3. Range(Line) \subseteq Range(Line') /\ Range(log) \subseteq Range(log')
    BY <1>1, <1>3
  <2> QED
    BY <1>1, <1>5, <1>6, <2>1, <2>2, <2>3, EventsOf, DrainsKept
<1> QED
  BY <1>4, <1>5, <1>8, <1>9, PartsNext

LEMMA AfterDog ==
    ASSUME BusInv, NEW d \in Dogs, DogPublishes(d)
    PROVE  BusInv'
<1> USE Parts
<1> DEFINE e == Indexed(d)
<1>1. /\ pc[d] = "publish" /\ PublishSync(e, "thread")
      /\ pc' = [pc EXCEPT ![d] = "gone"]
      /\ UNCHANGED <<job, queue, items, unfinished, worker, workers, waits, log>>
  BY DEF DogPublishes
<1>2. e \in BusEvents /\ e \notin Range(published) /\ e.kind # "finalized"
  BY <1>1, EventsOf, Names DEF Published
<1>3. UNCHANGED <<Line, Busy, Now, Waiting>>
  BY <1>1 DEF Line, Busy, Now, Waiting
<1>4. Core'
  BY CorePosts
<1>5. Way' /\ Carried("join")' = Carried("join") /\ Range(published') = Range(published) \cup {e}
  <2> HIDE DEF e
  <2> QED
    BY <1>1, <1>2, <1>3, Publishing
<1>6. pc \in [Pipelines \cup Dogs -> BusPcs] /\ BusTypes /\ BusTypes'
  BY <1>4 DEF Core, BusTypes
<1>7. /\ pc'[d] = "gone" /\ \A q \in Pipelines \cup Dogs : q # d => pc'[q] = pc[q]
      /\ \A q \in Pipelines : q # d /\ pc'[q] = pc[q]
  BY <1>1, <1>6, EventBusAssumption
<1>8. Published'
  <2>1. \A q \in Pipelines : Finalized(q) \in Range(published') <=> pc'[q] # "publish"
    BY <1>1, <1>5, <1>7, Names DEF Published
  <2>2. \A c \in Dogs : Indexed(c) \in Range(published') => pc'[c] # "publish"
    BY <1>1, <1>5, <1>7, Names DEF Published
  <2>3. \A q \in Pipelines :
          Indexed(q) \in Range(published') =>
             \/ Finalized(q) \in Range(log')
             \/ Busy' /\ workers'[1].pc = "done" /\ workers'[1].event = Finalized(q)
    BY <1>1, <1>3, <1>5, <1>7, Names DEF Published
  <2> QED
    BY <2>1, <2>2, <2>3 DEF Published
<1>9. Drains'
  <2>1. waits # {} => queue' = 1 /\ unfinished'[1] > 0
    BY <1>1 DEF Drains
  <2>2. Range(Line) \subseteq Range(Line') /\ Range(log) \subseteq Range(log')
    BY <1>1, <1>3
  <2> QED
    BY <1>1, <1>5, <1>6, <1>7, <2>1, <2>2, EventsOf, DrainsKept
<1> QED
  BY <1>4, <1>5, <1>8, <1>9, PartsNext

\* The worker's subscriber publishes RagIndexed of the paper, which only it does.
LEMMA AfterHandled ==
    ASSUME BusInv, NEW i \in DOMAIN workers, Handled(i) \/ HandlerRaises(i)
    PROVE  BusInv'
<1> USE Parts
<1> DEFINE e == workers[1].event
<1>1. /\ Core' /\ Line' = Line /\ workers[1].pc = "handle" /\ workers'[1].pc = "done"
      /\ workers'[1].event = e /\ Busy'
      /\ UNCHANGED <<job, queue, unfinished, pc, waits, log>>
      /\ \/ UNCHANGED <<posted, published>>
         \/ /\ e.kind = "finalized"
            /\ PublishSync(Indexed(e.of), IF workers[1].loop = "main" THEN "main" ELSE "thread")
  BY CoreHandles
<1>2. Busy
  BY <1>1, TheWorker DEF Busy
<1>3. e \in BusEvents /\ e \in Range(Line) /\ e \notin Range(log)
  BY <1>2, OnHand
<1>4. BusTypes /\ BusTypes'
  BY <1>1 DEF Core
<1>5. waits # {} => queue' = 1 /\ unfinished'[1] > 0
  BY <1>1 DEF Drains
<1>6. CASE UNCHANGED <<posted, published>>
  <2>1. \A what : Carried(what)' = Carried(what)
    BY <1>1, <1>6 DEF Carried, Slot
  <2>2. Way'
    BY <1>1, <1>6, <2>1, WayKept
  <2>3. Published'
    BY <1>1, <1>6, PublishedKept
  <2>4. Drains'
    BY <1>1, <1>4, <1>5, <2>1, EventsOf, DrainsKept
  <2> QED
    BY <1>1, <2>2, <2>3, <2>4, PartsNext
<1>7. CASE e.kind = "finalized" /\ PublishSync(Indexed(e.of), IF workers[1].loop = "main" THEN "main" ELSE "thread")
  <2> DEFINE p == e.of
  <2> DEFINE f == Indexed(p)
  <2> DEFINE t == IF workers[1].loop = "main" THEN "main" ELSE "thread"
  <2>1. p \in Pipelines /\ e = Finalized(p) /\ f \in BusEvents /\ f.kind # "finalized"
    BY <1>3, <1>7, EventsOf, Names
  <2>2. f \notin Range(published)
    <3>1. ~(Busy /\ workers[1].pc = "done")
      BY <1>1
    <3>2. Finalized(p) \notin Range(log)
      BY <1>3, <2>1
    <3> QED
      BY <2>1, <3>1, <3>2 DEF Published
  <2>3. t \in {"main", "thread"} /\ PublishSync(f, t)
    BY <1>7
  <2> HIDE DEF f, t
  <2>4. Way' /\ Carried("join")' = Carried("join") /\ Range(published') = Range(published) \cup {f}
    BY <1>1, <2>1, <2>2, <2>3, Publishing
  <2>5. Published'
    <3>1. \A q \in Pipelines : Finalized(q) \in Range(published') <=> pc'[q] # "publish"
      BY <1>1, <2>4, Names DEF Published, f
    <3>2. \A c \in Dogs : Indexed(c) \in Range(published') => pc'[c] # "publish"
      <4>1. \A c \in Dogs : Indexed(c) # f
        BY <2>1, Names, EventBusAssumption DEF f
      <4> QED
        BY <1>1, <2>4, <4>1 DEF Published
    <3>3. ASSUME NEW q \in Pipelines, Indexed(q) \in Range(published')
          PROVE  \/ Finalized(q) \in Range(log')
                 \/ Busy' /\ workers'[1].pc = "done" /\ workers'[1].event = Finalized(q)
      <4>1. CASE q = p
        BY <1>1, <2>1, <4>1
      <4>2. CASE q # p
        <5>1. Indexed(q) \in Range(published)
          BY <2>4, <3>3, <4>2, Names DEF f
        <5> QED
          BY <1>1, <5>1 DEF Published
      <4> QED
        BY <4>1, <4>2
    <3> QED
      BY <3>1, <3>2, <3>3 DEF Published
  <2>6. Drains'
    BY <1>1, <1>4, <1>5, <2>4, EventsOf, DrainsKept
  <2> QED
    BY <1>1, <2>4, <2>5, <2>6, PartsNext
<1> QED
  BY <1>1, <1>6, <1>7
\* A loop takes up a coroutine, or goes on with the one it runs.
LEMMA AfterBegin ==
    ASSUME BusInv, NEW l \in Loops, BeginJob(l)
    PROVE  BusInv'
<1> USE Parts
<1>1. Core'
  BY CoreBegins
<1>2. Way' /\ UNCHANGED <<Line, Busy>>
  BY WayBegins
<1>3. UNCHANGED <<queue, unfinished, worker, workers, pc, waits, published, log>>
  BY DEF BeginJob
<1>4. Published'
  BY <1>2, <1>3, PublishedKept
<1>5. Drains'
  <2>1. waits # {} => queue' = 1 /\ unfinished'[1] > 0
    BY <1>3 DEF Drains
  <2>2. BusTypes /\ BusTypes'
    BY <1>1 DEF Core
  <2>3. /\ \A c \in Carried("join")' : \E d \in Carried("join") : d[1] = c[1] /\ d[3] = c[3]
        /\ \A d \in Carried("join") : \E c \in Carried("join")' : d[1] = c[1] /\ d[3] = c[3]
    BY MovedUp
  <2> QED
    BY <1>2, <1>3, <2>1, <2>2, <2>3, EventsOf, DrainsKept
<1> QED
  BY <1>1, <1>2, <1>4, <1>5, PartsNext

LEMMA AfterRuns ==
    ASSUME BusInv, NEW l \in Loops, SeesQueue(l) \/ CreatesQueue(l) \/ EnsuresWorker(l)
    PROVE  BusInv'
<1> USE Parts
<1>1. /\ Core' /\ job[l] # NoJob /\ UNCHANGED <<posted, pc, waits, published, log, blocked>>
      /\ \E d \in Doings : job' = [job EXCEPT ![l].do = d]
      /\ UNCHANGED <<Now, Waiting, Busy>> /\ (Busy => workers'[1] = workers[1])
      /\ queue \in {0, queue'} /\ (queue = 1 => unfinished' = unfinished)
  BY CoreRuns
<1>2. \A what : Carried(what)' = Carried(what)
  <2>1. PICK d \in Doings : job' = [job EXCEPT ![l].do = d]
    BY <1>1
  <2> QED
    BY <1>1, <2>1, CarriedKept
<1>3. Line' = Line
  BY <1>1 DEF Line
<1>4. Way'
  BY <1>1, <1>2, <1>3, WayKept
<1>5. Published'
  BY <1>1, PublishedKept
<1>6. Drains'
  <2>1. waits # {} => queue' = 1 /\ unfinished'[1] > 0
    BY <1>1 DEF Drains
  <2>2. BusTypes /\ BusTypes'
    BY <1>1 DEF Core
  <2> QED
    BY <1>1, <1>2, <1>3, <2>1, <2>2, EventsOf, DrainsKept
<1> QED
  BY <1>1, <1>4, <1>5, <1>6, PartsNext

\* An event is put: it was coming, and is on the line.
LEMMA AfterPuts ==
    ASSUME BusInv, NEW l \in Loops, Puts(l)
    PROVE  BusInv'
<1> USE Parts
<1>1. /\ Core' /\ UNCHANGED <<pc, waits, published, log, queue>>
      /\ queue = 1 /\ unfinished'[1] > 0
  BY CorePuts
<1>2. /\ Way' /\ Carried("join")' = Carried("join")
      /\ Range(Line) \subseteq Range(Line') /\ UNCHANGED Busy
  BY WayPuts
<1>3. UNCHANGED <<worker, workers>>
  BY DEF Puts
<1>4. Published'
  BY <1>1, <1>2, <1>3, PublishedKept
<1>5. Drains'
  <2>1. BusTypes /\ BusTypes'
    BY <1>1 DEF Core
  <2> QED
    BY <1>1, <1>2, <2>1, EventsOf, DrainsKept
<1> QED
  BY <1>1, <1>2, <1>4, <1>5, PartsNext

\* The worker takes the next event.
LEMMA AfterGets ==
    ASSUME BusInv, NEW i \in DOMAIN workers, Get(i)
    PROVE  BusInv'
<1> USE Parts
<1>1. /\ Core' /\ Line' = Line
      /\ UNCHANGED <<posted, job, queue, unfinished, pc, waits, published, log>>
  BY CoreGets
<1>2. \A what : Carried(what)' = Carried(what)
  BY <1>1 DEF Carried, Slot
<1>3. workers[1].pc = "get"
  BY TheWorker DEF Get, WorkerAt
<1>4. Published'
  BY <1>1, <1>3, PublishedKept
<1>5. Drains'
  <2>1. waits # {} => queue' = 1 /\ unfinished'[1] > 0
    BY <1>1 DEF Drains
  <2>2. BusTypes /\ BusTypes'
    BY <1>1 DEF Core
  <2> QED
    BY <1>1, <1>2, <2>1, <2>2, EventsOf, DrainsKept
<1> QED
  BY <1>1, <1>2, <1>4, <1>5, WayKept, PartsNext

\* A pipeline hands over its drain only when its own event is on the line: the
\* bridge has nothing left to put, for the main thread no longer waits for it.
LEMMA AfterDrain ==
    ASSUME BusInv, NEW p \in Pipelines, PipelineDrains(p)
    PROVE  BusInv'
<1> USE Parts
<1> DEFINE e == Finalized(p)
<1> DEFINE j == [do |-> "queue", then |-> "join", event |-> e]
<1>1. /\ pc[p] = "drain" /\ ~blocked /\ Post("main", j)
      /\ pc' = [pc EXCEPT ![p] = "draining"]
      /\ UNCHANGED <<job, blocked, queue, items, unfinished, worker, workers, waits, published, log>>
  BY DEF PipelineDrains
<1>2. Core'
  BY CorePosts
<1>3. e \in BusEvents /\ j \in Coroutines /\ j.then = "join" /\ j.event = e /\ "main" \in Loops
  BY EventsOf DEF Coroutines, Doings, Loops
<1>4. UNCHANGED <<Line, Busy>>
  BY <1>1 DEF Line, Busy, Now, Waiting
<1>5. pc \in [Pipelines \cup Dogs -> BusPcs] /\ waits \subseteq Pipelines \X {1}
  BY DEF Core, BusTypes
<1>6. pc'[p] = "draining" /\ \A q \in Pipelines \cup Dogs : q # p => pc'[q] = pc[q]
  BY <1>1, <1>5
<1>7. e.kind = "finalized" /\ e.of = p
  BY Names
<1> DEFINE new == NewPlace("main", e)
<1>8. new[1] = "main" /\ new[3] = e
  BY DEF NewPlace
<1>9. Carried("put")' = Carried("put") /\ Carried("join")' = Carried("join") \cup {new}
  <2> HIDE DEF e
  <2>1. j \in Coroutines /\ j.then = "join" /\ j.event = e /\ Post("main", j)
    BY <1>1, <1>3
  <2> HIDE DEF j
  <2>2. \A what : Carried(what)' = Carried(what) \cup (IF j.then = what THEN {new} ELSE {})
    BY <1>1, <1>3, <2>1, CarriedPosts
  <2>3. Carried("put")' = Carried("put") \cup (IF j.then = "put" THEN {new} ELSE {})
    BY <2>2
  <2>4. Carried("join")' = Carried("join") \cup (IF j.then = "join" THEN {new} ELSE {})
    BY <2>2
  <2> QED
    BY <2>1, <2>3, <2>4
<1> HIDE DEF new, j
<1>10. \A c \in Carried("join") : pc[c[3].of] = "draining" /\ c[3] # e
  BY <1>1, <1>7 DEF Drains
<1>11. Way'
  <2>1. OnItsWay'
    <3>1. \A f : Coming(f)' <=> Coming(f)
      BY <1>9 DEF Coming
    <3>2. \A what \in {"put", "join"} : \A c, d \in Carried(what)' : c[3] = d[3] => c = d
      <4>1. \A c, d \in Carried("put")' : c[3] = d[3] => c = d
        BY <1>9 DEF Way, OnItsWay
      <4>2. \A c, d \in Carried("join")' : c[3] = d[3] => c = d
        <5>1. \A c, d \in Carried("join") : c[3] = d[3] => c = d
          BY DEF Way, OnItsWay
        <5> HIDE DEF e
        <5> QED
          BY <1>8, <1>9, <1>10, <5>1
      <4> QED
        BY <4>1, <4>2
    <3> QED
      BY <1>1, <1>4, <3>1, <3>2 DEF Way, OnItsWay
  <2>2. InOrder'
    <3>1. \A f, g : Before(f, g)' <=> Before(f, g)
      BY <1>1 DEF Before
    <3> QED
      BY <1>4, <1>9, <3>1 DEF Way, InOrder
  <2> QED
    BY <2>1, <2>2 DEF Way
<1>12. Published'
  <2>1. \A q \in Pipelines \cup Dogs : pc'[q] = "publish" <=> pc[q] = "publish"
    BY <1>1, <1>6
  <2> QED
    BY <1>1, <1>4, <2>1, PublishedKept
<1>13. e \in Range(Line)
  <2>1. e \in Range(published)
    BY <1>1 DEF Published
  <2>2. ~Coming(e)
    <3> SUFFICES ASSUME NEW c \in Carried("put"), c[3] = e PROVE FALSE
      BY DEF Coming
    <3>1. c[1] = "bridge"
      BY <1>7 DEF Way, InOrder
    <3>2. job["bridge"] = NoJob /\ Len(posted["bridge"]) = 0
      BY <1>1 DEF Core, OneLoop
    <3>3. c[2] \in Nat /\ c[2] <= 0 /\ Slot("bridge", c[2]) # NoJob
      BY <3>1, <3>2 DEF Carried
    <3> QED
      BY <3>2, <3>3 DEF Slot
  <2> QED
    BY <1>3, <2>1, <2>2 DEF Way, OnItsWay
<1>14. Drains'
  <2>1. ASSUME NEW q \in Pipelines
        PROVE  /\ pc'[q] # "gone"
               /\ pc'[q] \in {"draining", "woken", "drained"} => Finalized(q) \in Range(Line')
               /\ pc'[q] \in {"woken", "drained"} => Finalized(q) \in Range(log')
               /\ pc'[q] = "draining" =>
                     <<q, 1>> \in waits' \/ \E c \in Carried("join")' : c[3] = Finalized(q)
    <3>1. CASE q = p
      BY <1>4, <1>6, <1>8, <1>9, <1>13, <3>1
    <3>2. CASE q # p
      BY <1>1, <1>4, <1>6, <1>9, <3>2 DEF Drains
    <3> QED
      BY <3>1, <3>2
  <2>2. <<p, 1>> \notin waits
    <3>1. \A w \in waits : pc[w[1]] = "draining"
      BY DEF Drains
    <3> QED
      BY <1>1, <3>1
  <2>3. ASSUME NEW c \in Carried("join")'
        PROVE  /\ c[1] = "main" /\ c[3].kind = "finalized"
               /\ pc'[c[3].of] = "draining" /\ <<c[3].of, 1>> \notin waits'
    <3>1. CASE c = new
      BY <1>1, <1>6, <1>7, <1>8, <2>2, <3>1
    <3>2. CASE c \in Carried("join")
      <4>1. c[3].of \in Pipelines
        BY <3>2, EventsOf DEF Carried, Drains
      <4>2. pc'[c[3].of] = "draining"
        BY <1>1, <1>6, <1>10, <3>2, <4>1
      <4> QED
        BY <1>1, <3>2, <4>2 DEF Drains
    <3> QED
      BY <1>9, <3>1, <3>2
  <2>4. \A w \in waits' : pc'[w[1]] = "draining" /\ queue' = 1 /\ unfinished'[1] > 0
    <3>1. \A w \in waits : w[1] \in Pipelines /\ pc[w[1]] = "draining" /\ w[1] # p
      BY <1>1, <1>5 DEF Drains
    <3> QED
      BY <1>1, <1>6, <3>1 DEF Drains
  <2> QED
    BY <2>1, <2>3, <2>4 DEF Drains
<1> QED
  BY <1>2, <1>11, <1>12, <1>14, PartsNext
\* A drain looks at the count: none is left, so the bus is done with the whole
\* line; or it waits, and the count is not zero.
LEMMA AfterJoins ==
    ASSUME BusInv, NEW l \in Loops, Joins(l)
    PROVE  BusInv'
<1> USE Parts
<1> DEFINE e == job[l].event
<1> DEFINE p == e.of
<1>1. job[l] \in Coroutines /\ job[l].then = "join" /\ e \in BusEvents /\ job[l] # NoJob
  <2>1. job[l].do = "join" /\ job[l] \in Coroutines \cup {NoJob}
    BY DEF Joins, Core, BusTypes
  <2>2. job[l] # NoJob
    BY <2>1 DEF NoJob
  <2>3. job[l].then = "join"
    BY <2>1 DEF Core, InCoroutine
  <2>4. job[l] \in Coroutines
    BY <2>1, <2>2
  <2> QED
    BY <2>2, <2>3, <2>4 DEF Coroutines
<1> DEFINE me == <<l, 0, e>>
<1>2. me[1] = l /\ me[2] = 0 /\ me[3] = e
  OBVIOUS
<1>3. me \in Carried("join")
  BY <1>1 DEF Carried, Slot, Core, BusTypes
<1>4. l = "main" /\ e.kind = "finalized" /\ pc[p] = "draining" /\ <<p, 1>> \notin waits
  BY <1>2, <1>3 DEF Drains
<1>5. p \in Pipelines /\ e = Finalized(p)
  BY <1>1, <1>4, EventsOf
<1>6. /\ Core' /\ job' = [job EXCEPT ![l] = NoJob] /\ queue = 1
      /\ UNCHANGED <<posted, published, log, queue, unfinished, Now, Waiting>>
      /\ IF unfinished[1] = 0
         THEN pc' = [pc EXCEPT ![p] = "drained"] /\ UNCHANGED waits
         ELSE waits' = waits \cup {<<p, 1>>} /\ UNCHANGED pc
  BY <1>4, <1>5, CoreJoins
<1>7. UNCHANGED <<worker, workers>>
  BY DEF Joins
<1>8. UNCHANGED <<Line, Busy>>
  BY <1>6, <1>7 DEF Line, Busy
<1> HIDE DEF e, me
<1>9. Carried("put")' = Carried("put") /\ Carried("join")' = Carried("join") \ {me}
  <2> DEFINE Mine(c) == c[1] = l /\ c[2] = 0
  <2>1. \A what : /\ Carried(what)' = {c \in Carried(what) : ~Mine(c)}
                  /\ \A c \in Carried(what) : Mine(c) => what = job[l].then /\ c = me
    BY <1>1, <1>6, CarriedEnds DEF e, me
  <2>2. Carried("put")' = {c \in Carried("put") : ~Mine(c)}
    BY <2>1
  <2>3. \A c \in Carried("put") : Mine(c) => "put" = "join"
    BY <1>1, <2>1
  <2>4. Carried("join")' = {c \in Carried("join") : ~Mine(c)}
    BY <2>1
  <2>5. \A c \in Carried("join") : Mine(c) => c = me
    BY <2>1
  <2>6. Mine(me)
    BY <1>2
  <2> HIDE DEF Mine
  <2>7. Carried("put")' = Carried("put")
    BY <2>2, <2>3
  <2>8. Carried("join")' = Carried("join") \ {me}
    BY <2>4, <2>5, <2>6
  <2> QED
    BY <2>7, <2>8
<1>10. \A c \in Carried("join") : c # me => c[3] # e
  BY <1>2, <1>3 DEF Way, OnItsWay
<1>11. Way'
  <2>1. \A f : Coming(f)' <=> Coming(f)
    BY <1>9 DEF Coming
  <2>2. OnItsWay'
    BY <1>6, <1>8, <1>9, <2>1 DEF Way, OnItsWay
  <2>3. \A f, g : Before(f, g)' <=> Before(f, g)
    BY <1>6 DEF Before
  <2>4. InOrder'
    BY <1>8, <1>9, <2>3 DEF Way, InOrder
  <2> QED
    BY <2>2, <2>4 DEF Way
<1>12. pc \in [Pipelines \cup Dogs -> BusPcs] /\ waits \subseteq Pipelines \X {1}
  BY DEF Core, BusTypes
<1>13. /\ \A q \in Pipelines \cup Dogs : q # p => pc'[q] = pc[q]
       /\ pc'[p] = IF unfinished[1] = 0 THEN "drained" ELSE "draining"
       /\ waits' = IF unfinished[1] = 0 THEN waits ELSE waits \cup {<<p, 1>>}
  BY <1>4, <1>5, <1>6, <1>12
<1>14. Published'
  <2>1. \A q \in Pipelines \cup Dogs : pc'[q] = "publish" <=> pc[q] = "publish"
    BY <1>4, <1>13
  <2> QED
    BY <1>6, <1>7, <1>8, <2>1, PublishedKept
<1>15. unfinished[1] = 0 => Line = log
  <2>1. Now \in Seq(BusEvents) /\ Waiting \in Seq(BusEvents)
    BY LineFacts DEF Core
  <2>2. unfinished[1] = 0 => Len(Now) = 0 /\ Len(Waiting) = 0
    BY <1>6, <2>1 DEF Core, Counted
  <2>3. unfinished[1] = 0 => Now = <<>> /\ Waiting = <<>>
    BY <2>1, <2>2
  <2> QED
    BY <2>3, LineFacts DEF Core
<1>16. e \in Range(Line)
  BY <1>4, <1>5 DEF Drains
<1>17. unfinished[1] \in Nat
  <2>1. unfinished \in Seq(Nat) /\ Len(unfinished) = 1
    BY <1>6 DEF Core, BusTypes
  <2>2. 1 \in 1..Len(unfinished)
    BY <2>1
  <2> QED
    BY <2>1, <2>2, ElementOfSeq
<1>18. Drains'
  <2>1. ASSUME NEW q \in Pipelines
        PROVE  /\ pc'[q] # "gone"
               /\ pc'[q] \in {"draining", "woken", "drained"} => Finalized(q) \in Range(Line')
               /\ pc'[q] \in {"woken", "drained"} => Finalized(q) \in Range(log')
               /\ pc'[q] = "draining" =>
                     <<q, 1>> \in waits' \/ \E c \in Carried("join")' : c[3] = Finalized(q)
    <3>1. CASE q = p
      BY <1>5, <1>6, <1>8, <1>13, <1>15, <1>16, <3>1
    <3>2. CASE q # p
      <4>1. Finalized(q) # e
        BY <1>5, <3>2, Names
      <4>2. \A c \in Carried("join") : c[3] = Finalized(q) => c \in Carried("join")'
        BY <1>2, <1>9, <4>1
      <4>3. waits \subseteq waits'
        BY <1>13
      <4> QED
        BY <1>6, <1>8, <1>13, <3>2, <4>2, <4>3 DEF Drains
    <3> QED
      BY <3>1, <3>2
  <2>2. ASSUME NEW c \in Carried("join")'
        PROVE  /\ c[1] = "main" /\ c[3].kind = "finalized"
               /\ pc'[c[3].of] = "draining" /\ <<c[3].of, 1>> \notin waits'
    <3>1. c \in Carried("join") /\ c[3] # e
      BY <1>9, <1>10
    <3>2. c[3] \in BusEvents /\ c[3].kind = "finalized"
      BY <3>1 DEF Carried, Drains
    <3>3. c[3].of \in Pipelines /\ c[3].of # p
      BY <1>5, <3>1, <3>2, EventsOf
    <3>4. <<c[3].of, 1>> # <<p, 1>>
      BY <3>3
    <3> QED
      BY <1>13, <3>1, <3>3, <3>4 DEF Drains
  <2>3. \A w \in waits' : pc'[w[1]] = "draining" /\ queue' = 1 /\ unfinished'[1] > 0
    <3>1. \A w \in waits : w \in Pipelines \X {1} /\ w # <<p, 1>>
      BY <1>4, <1>12
    <3>2. \A w \in waits : w[1] \in Pipelines /\ w[1] # p
      BY <3>1
    <3>3. \A w \in waits : pc'[w[1]] = "draining" /\ queue' = 1 /\ unfinished'[1] > 0
      BY <1>6, <1>13, <3>2 DEF Drains
    <3>4. CASE unfinished[1] = 0
      BY <1>13, <3>3, <3>4
    <3>5. CASE unfinished[1] # 0
      BY <1>6, <1>13, <1>17, <3>3, <3>5
    <3> QED
      BY <3>4, <3>5
  <2> QED
    BY <2>1, <2>2, <2>3 DEF Drains
<1> QED
  BY <1>6, <1>11, <1>14, <1>18, PartsNext

\* The bus is done with an event; with the last one it wakes the drains.
LEMMA AfterFinishes ==
    ASSUME BusInv, NEW i \in DOMAIN workers, TaskDone(i)
    PROVE  BusInv'
<1> USE Parts
<1> DEFINE e == workers[1].event
<1> DEFINE last == unfinished[1] = 1
<1>1. /\ Core' /\ Line' = Line /\ workers[1].pc = "done" /\ Busy /\ ~Busy'
      /\ log' = Append(log, e) /\ e \in BusEvents
      /\ unfinished[1] \in Nat /\ unfinished'[1] = unfinished[1] - 1 /\ queue = 1
      /\ last => Line = log'
      /\ IF last
         THEN /\ waits' = {}
              /\ pc' = [p \in DOMAIN pc |-> IF <<p, 1>> \in waits THEN "woken" ELSE pc[p]]
         ELSE waits' = waits /\ pc' = pc
      /\ UNCHANGED <<posted, job, queue, published>>
  BY CoreFinishes
<1> HIDE DEF e, last
<1>2. \A what : Carried(what)' = Carried(what)
  BY <1>1 DEF Carried, Slot
<1>3. Way'
  BY <1>1, <1>2, WayKept
<1>4. Range(log') = Range(log) \cup {e}
  BY <1>1, AppendFacts DEF Core, BusTypes
<1>5. pc \in [Pipelines \cup Dogs -> BusPcs] /\ waits \subseteq Pipelines \X {1}
  BY DEF Core, BusTypes
<1>6. \A w \in waits : pc[w[1]] = "draining" /\ w[1] \in Pipelines /\ w = <<w[1], 1>>
  BY <1>5 DEF Drains
<1>7. \A q \in Pipelines \cup Dogs :
         \/ pc'[q] = pc[q] /\ ~(last /\ <<q, 1>> \in waits)
         \/ last /\ <<q, 1>> \in waits /\ pc[q] = "draining" /\ pc'[q] = "woken"
  <2> TAKE q \in Pipelines \cup Dogs
  <2>1. <<q, 1>> \in waits => pc[q] = "draining"
    BY <1>6
  <2> QED
    BY <1>1, <1>5, <2>1
<1>8. Published'
  <2>1. \A q \in Pipelines \cup Dogs : pc'[q] = "publish" <=> pc[q] = "publish"
    BY <1>7
  <2> QED
    BY <1>1, <1>4, <2>1 DEF Published, e
<1>9. Drains'
  <2>1. ASSUME NEW q \in Pipelines
        PROVE  /\ pc'[q] # "gone"
               /\ pc'[q] \in {"draining", "woken", "drained"} => Finalized(q) \in Range(Line')
               /\ pc'[q] \in {"woken", "drained"} => Finalized(q) \in Range(log')
               /\ pc'[q] = "draining" =>
                     <<q, 1>> \in waits' \/ \E c \in Carried("join")' : c[3] = Finalized(q)
    <3>1. CASE pc'[q] = pc[q] /\ ~(last /\ <<q, 1>> \in waits)
      BY <1>1, <1>2, <1>4, <3>1 DEF Drains
    <3>2. CASE last /\ pc[q] = "draining" /\ pc'[q] = "woken"
      BY <1>1, <3>2 DEF Drains
    <3> QED
      BY <1>7, <3>1, <3>2
  <2>2. ASSUME NEW c \in Carried("join")'
        PROVE  /\ c[1] = "main" /\ c[3].kind = "finalized"
               /\ pc'[c[3].of] = "draining" /\ <<c[3].of, 1>> \notin waits'
    <3>1. c \in Carried("join") /\ c[3] \in BusEvents
      BY <1>2 DEF Carried
    <3>2. c[1] = "main" /\ c[3].kind = "finalized" /\ pc[c[3].of] = "draining" /\ <<c[3].of, 1>> \notin waits
      BY <3>1 DEF Drains
    <3>3. c[3].of \in Pipelines
      BY <3>1, <3>2, EventsOf
    <3>4. pc'[c[3].of] = "draining"
      BY <1>7, <3>2, <3>3
    <3> QED
      BY <1>1, <3>2, <3>4
  <2>3. \A w \in waits' : pc'[w[1]] = "draining" /\ queue' = 1 /\ unfinished'[1] > 0
    <3>1. CASE last
      BY <1>1, <3>1
    <3>2. CASE ~last
      <4>1. \A w \in waits : unfinished[1] > 0
        BY DEF Drains
      <4> QED
        BY <1>1, <1>6, <3>2, <4>1 DEF last
    <3> QED
      BY <3>1, <3>2
  <2> QED
    BY <2>1, <2>2, <2>3 DEF Drains
<1> QED
  BY <1>1, <1>3, <1>8, <1>9, PartsNext

LEMMA AfterWakes ==
    ASSUME BusInv, NEW p \in Pipelines, Wakes(p)
    PROVE  BusInv'
<1> USE Parts
<1>1. Core' /\ UNCHANGED <<Line, Busy>>
  BY CoreWakes
<1>2. /\ pc[p] = "woken" /\ pc' = [pc EXCEPT ![p] = "drained"]
      /\ UNCHANGED <<posted, job, queue, unfinished, workers, waits, published, log>>
  BY DEF Wakes
<1>3. \A what : Carried(what)' = Carried(what)
  BY <1>2 DEF Carried, Slot
<1>4. pc \in [Pipelines \cup Dogs -> BusPcs] /\ waits \subseteq Pipelines \X {1}
  BY DEF Core, BusTypes
<1>5. pc'[p] = "drained" /\ \A q \in Pipelines \cup Dogs : q # p => pc'[q] = pc[q]
  BY <1>2, <1>4
<1>6. Published'
  <2>1. \A q \in Pipelines \cup Dogs : pc'[q] = "publish" <=> pc[q] = "publish"
    BY <1>2, <1>5
  <2> QED
    BY <1>1, <1>2, <2>1, PublishedKept
<1>7. Drains'
  <2>1. ASSUME NEW q \in Pipelines
        PROVE  /\ pc'[q] # "gone"
               /\ pc'[q] \in {"draining", "woken", "drained"} => Finalized(q) \in Range(Line')
               /\ pc'[q] \in {"woken", "drained"} => Finalized(q) \in Range(log')
               /\ pc'[q] = "draining" =>
                     <<q, 1>> \in waits' \/ \E c \in Carried("join")' : c[3] = Finalized(q)
    <3>1. CASE q = p
      BY <1>1, <1>2, <1>5, <3>1 DEF Drains
    <3>2. CASE q # p
      BY <1>1, <1>2, <1>3, <1>5, <3>2 DEF Drains
    <3> QED
      BY <3>1, <3>2
  <2>2. ASSUME NEW c \in Carried("join")'
        PROVE  /\ c[1] = "main" /\ c[3].kind = "finalized"
               /\ pc'[c[3].of] = "draining" /\ <<c[3].of, 1>> \notin waits'
    <3>1. c \in Carried("join") /\ c[3] \in BusEvents
      BY <1>3 DEF Carried
    <3>2. c[1] = "main" /\ c[3].kind = "finalized" /\ pc[c[3].of] = "draining" /\ <<c[3].of, 1>> \notin waits
      BY <3>1 DEF Drains
    <3>3. c[3].of \in Pipelines
      BY <3>1, <3>2, EventsOf
    <3> QED
      BY <1>2, <1>5, <3>2, <3>3
  <2>3. \A w \in waits' : pc'[w[1]] = "draining" /\ queue' = 1 /\ unfinished'[1] > 0
    <3>1. \A w \in waits : w[1] \in Pipelines /\ pc[w[1]] = "draining"
      BY <1>4 DEF Drains
    <3> QED
      BY <1>2, <1>5, <3>1 DEF Drains
  <2> QED
    BY <2>1, <2>2, <2>3 DEF Drains
<1> QED
  BY <1>1, <1>2, <1>3, <1>6, <1>7, WayKept, PartsNext
-----------------------------------------------------------------------------
\* The invariant holds at the start, and every step keeps it.
LEMMA BusStarts ==
    ASSUME BusInit
    PROVE  BusInv
<1> USE DEF BusInit
<1>1. BusTypes
  <2>1. \A S : <<>> \in Seq(S) /\ Len(<<>>) = 0
    OBVIOUS
  <2>2. posted \in [Loops -> Seq(Coroutines)] /\ job \in [Loops -> Coroutines \cup {NoJob}]
    BY <2>1
  <2>3. pc \in [Pipelines \cup Dogs -> BusPcs]
    BY DEF BusPcs
  <2>4. /\ queue = 0 /\ worker = 0 /\ items \in Seq(Seq(BusEvents)) /\ Len(items) = 0
        /\ unfinished \in Seq(Nat) /\ Len(unfinished) = 0
        /\ workers \in Seq(Workers) /\ Len(workers) = 0
        /\ published \in Seq(BusEvents) /\ log \in Seq(BusEvents)
    BY <2>1 DEF NoQueue
  <2> QED
    BY <2>2, <2>3, <2>4 DEF BusTypes
<1>2. OneLoop
  BY DEF OneLoop, Loops
<1>3. InCoroutine
  BY DEF InCoroutine, NoJob, NoQueue, Busy, Waiting, Loops
<1>4. Counted
  BY DEF Counted, NoQueue
<1>5. ~Busy /\ Now = <<>> /\ Waiting = <<>> /\ Line = <<>>
  BY DEF Busy, Now, Waiting, Line, NoQueue
<1>6. \A what : Carried(what) = {}
  BY DEF Carried, Slot, Loops
<1>7. Range(Line) = {} /\ Range(published) = {} /\ Range(log) = {}
  BY <1>5 DEF Range
<1>8. DOMAIN Line = {}
  BY <1>5
<1>9. OnItsWay
  BY <1>6, <1>7, <1>8 DEF OnItsWay, Coming
<1>10. InOrder
  BY <1>6, <1>8 DEF InOrder
<1>11. Published
  BY <1>7 DEF Published
<1>12. Drains
  BY <1>6, <1>7 DEF Drains
<1> QED
  BY <1>1, <1>2, <1>3, <1>4, <1>9, <1>10, <1>11, <1>12 DEF BusInv

LEMMA BusStutters ==
    ASSUME BusInv, UNCHANGED busVars
    PROVE  BusInv'
<1> USE Parts DEF busVars
<1>1. UNCHANGED <<Line, Busy, Now, Waiting>>
  BY DEF Line, Busy, Now, Waiting
<1>2. \A what : Carried(what)' = Carried(what)
  BY DEF Carried, Slot
<1>3. Core'
  BY <1>1 DEF Core, BusTypes, OneLoop, InCoroutine, Counted
<1>4. Way'
  BY <1>1, <1>2, WayKept
<1>5. Published'
  BY <1>1 DEF Published
<1>6. Drains'
  BY <1>1, <1>2 DEF Drains
<1> QED
  BY <1>3, <1>4, <1>5, <1>6, PartsNext

LEMMA BusStep ==
    ASSUME BusInv, [BusNext]_busVars
    PROVE  BusInv'
<1>1. ASSUME NEW p \in Pipelines, PipelinePublishes(p) PROVE BusInv'
  BY <1>1, AfterPublish
<1>2. ASSUME NEW p \in Pipelines, PipelineDrains(p) PROVE BusInv'
  BY <1>2, AfterDrain
<1>3. ASSUME NEW p \in Pipelines, Wakes(p) PROVE BusInv'
  BY <1>3, AfterWakes
<1>4. ASSUME NEW l \in Loops, BeginJob(l) PROVE BusInv'
  BY <1>4, AfterBegin
<1>5. ASSUME NEW l \in Loops, SeesQueue(l) \/ CreatesQueue(l) \/ EnsuresWorker(l) PROVE BusInv'
  BY <1>5, AfterRuns
<1>6. ASSUME NEW l \in Loops, Puts(l) PROVE BusInv'
  BY <1>6, AfterPuts
<1>7. ASSUME NEW l \in Loops, Joins(l) PROVE BusInv'
  BY <1>7, AfterJoins
<1>8. ASSUME NEW i \in DOMAIN workers, Get(i) PROVE BusInv'
  BY <1>8, AfterGets
<1>9. ASSUME NEW i \in DOMAIN workers, Handled(i) \/ HandlerRaises(i) PROVE BusInv'
  BY <1>9, AfterHandled
<1>10. ASSUME NEW i \in DOMAIN workers, TaskDone(i) PROVE BusInv'
  BY <1>10, AfterFinishes
<1>11. ASSUME NEW d \in Dogs, DogPublishes(d) PROVE BusInv'
  BY <1>11, AfterDog
<1>12. CASE UNCHANGED busVars
  BY <1>12, BusStutters
<1> QED
  BY <1>1, <1>2, <1>3, <1>4, <1>5, <1>6, <1>7, <1>8, <1>9, <1>10, <1>11, <1>12
  DEF BusNext, BusProgress

\* What the invariant says of a bus that has come to rest.
LEMMA AtRest ==
    ASSUME BusInv, ~Stirring
    PROVE  (\A p \in Pipelines : pc[p] = "drained") /\ Range(log) = Range(published)
<1> USE Parts
<1>1. BusTypes /\ OneLoop /\ InCoroutine /\ Counted
  BY DEF Core
<1>2. \A l \in Loops : job[l] = NoJob
  <2> SUFFICES ASSUME NEW l \in Loops, job[l] # NoJob PROVE FALSE
    OBVIOUS
  <2>1. job[l] \in Coroutines
    BY <1>1 DEF BusTypes
  <2>2. job[l].do \in {"queue", "create", "worker", "put", "join"}
    BY <2>1 DEF Coroutines, Doings
  <2> QED
    BY <2>2 DEF Stirring
<1>3. \A l \in Loops : posted[l] \in Seq(Coroutines)
  BY <1>1 DEF BusTypes
<1>4. ~blocked
  <2> SUFFICES ASSUME blocked PROVE FALSE
    OBVIOUS
  <2>1. "bridge" \in Loops /\ Len(posted["bridge"]) = 1
    BY <1>1, <1>2 DEF OneLoop, Loops
  <2>2. Free("bridge") /\ posted["bridge"] # <<>>
    BY <1>2, <1>3, <2>1 DEF Free
  <2> QED
    BY <2>1, <2>2 DEF Stirring
<1>5. \A l \in Loops : Free(l) /\ posted[l] = <<>>
  BY <1>2, <1>4 DEF Free, Stirring
<1>6. \A what : Carried(what) = {}
  <2> SUFFICES ASSUME NEW what, NEW c \in Carried(what) PROVE FALSE
    OBVIOUS
  <2>1. c[1] \in Loops /\ c[2] \in Nat /\ c[2] <= Len(posted[c[1]]) /\ Slot(c[1], c[2]) # NoJob
    BY DEF Carried
  <2>2. c[2] = 0
    BY <1>5, <2>1
  <2> QED
    BY <1>2, <2>1, <2>2 DEF Slot
<1>7. ~Busy /\ Waiting = <<>>
  <2>1. CASE worker = 0
    BY <1>1, <2>1 DEF Busy, InCoroutine
  <2>2. CASE worker = 1
    <3>1. 1 \in DOMAIN workers
      BY <1>1, <2>2 DEF BusTypes
    <3>2. workers[1].loop \in Loops /\ workers[1].pc \in {"get", "handle", "done"} /\ Waiting = items[1]
      BY <3>1, TheWorker DEF Workers
    <3>3. Free(workers[1].loop)
      BY <1>5, <3>2
    <3>4. workers[1].pc = "get" /\ items[queue] = <<>>
      BY <3>1, <3>2, <3>3 DEF Stirring, WorkerAt
    <3>5. queue = 1
      BY <1>1, <2>2 DEF InCoroutine
    <3> QED
      BY <3>2, <3>4, <3>5 DEF Busy
  <2> QED
    BY <1>1, <2>1, <2>2 DEF BusTypes
<1>8. Line = log /\ Now = <<>>
  BY <1>1, <1>7, LineFacts DEF Now
<1>9. Range(log) = Range(published)
  <2>1. \A e \in BusEvents : e \in Range(published) <=> e \in Range(log)
    BY <1>6, <1>8 DEF Way, OnItsWay, Coming
  <2>2. Range(published) \subseteq BusEvents /\ Range(log) \subseteq BusEvents
    <3>1. \A s \in Seq(BusEvents) : Range(s) \subseteq BusEvents
      BY DEF Range
    <3> QED
      BY <1>1, <3>1 DEF BusTypes
  <2> QED
    BY <2>1, <2>2
<1>10. waits = {}
  <2> SUFFICES ASSUME NEW w \in waits PROVE FALSE
    OBVIOUS
  <2>1. queue = 1 /\ unfinished[1] > 0
    BY DEF Drains
  <2>2. Len(Now) = 0 /\ Len(Waiting) = 0
    BY <1>7, <1>8
  <2>3. unfinished[1] = 0
    BY <1>1, <2>1, <2>2 DEF Counted
  <2> QED
    BY <2>1, <2>3
<1>11. ASSUME NEW p \in Pipelines PROVE pc[p] = "drained"
  <2>1. pc[p] \in BusPcs /\ pc[p] # "gone"
    BY <1>1 DEF BusTypes, Drains
  <2>2. Free("main")
    BY <1>5 DEF Loops
  <2>3. pc[p] \notin {"publish", "woken", "drain"}
    BY <1>4, <2>2 DEF Stirring
  <2>4. pc[p] # "draining"
    BY <1>6, <1>10 DEF Drains
  <2> QED
    BY <2>1, <2>3, <2>4 DEF BusPcs
<1> QED
  BY <1>9, <1>11

\* The log is the head of the line, and in the line no event stands twice.
LEMMA LogInOrder ==
    ASSUME BusInv
    PROVE  MainThreadOrder
<1> USE Parts
<1>1. /\ Line \in Seq(BusEvents) /\ log \in Seq(BusEvents) /\ Len(log) \in Nat /\ Len(Line) \in Nat
      /\ Len(Line) >= Len(log) /\ \A i \in 1..Len(log) : Line[i] = log[i]
  <2>1. /\ Now \in Seq(BusEvents) /\ Waiting \in Seq(BusEvents) /\ Line \in Seq(BusEvents)
        /\ Len(Line) = Len(log) + Len(Now) + Len(Waiting)
        /\ \A i \in 1..Len(log) : Line[i] = log[i]
    BY LineFacts DEF Core
  <2>2. log \in Seq(BusEvents)
    BY DEF Core, BusTypes
  <2>3. Len(log) \in Nat /\ Len(Now) \in Nat /\ Len(Waiting) \in Nat /\ Len(Line) \in Nat
    BY <2>1, <2>2
  <2> QED
    BY <2>1, <2>2, <2>3
<1>2. DOMAIN log = 1..Len(log) /\ \A i \in DOMAIN log : i \in DOMAIN Line /\ Line[i] = log[i]
  BY <1>1
<1>3. \A i, k \in DOMAIN log : i < k => log[i] # log[k]
  BY <1>2 DEF Way, OnItsWay
<1>4. \A i, k \in DOMAIN log :
         i < k /\ log[i].kind = "finalized" /\ log[k].kind = "finalized" => Before(log[i], log[k])
  BY <1>2 DEF Way, InOrder
<1> QED
  BY <1>3, <1>4 DEF MainThreadOrder, Before

-----------------------------------------------------------------------------
\* Whatever the number of pipelines and watchdogs, and in whatever order the
\* statements of the two loops interleave: a pipeline that has drained the bus
\* finds its own event handled, events are handled once and in the order of the
\* main thread, and when the bus can take no step, nothing was lost and no
\* drain hangs (publish_sync, _ensure_queue, drain and _worker of the bus).
THEOREM BusKeepsPromises == BusSpec => []BusDelivers
<1>1. BusInit => BusInv
  BY BusStarts
<1>2. BusInv /\ [BusNext]_busVars => BusInv'
  BY BusStep
<1>3. BusInv => BusDelivers
  <2> SUFFICES ASSUME BusInv PROVE BusDelivers
    OBVIOUS
  <2>1. DrainCoversOwnEvent
    BY DEF BusInv, Drains, DrainCoversOwnEvent
  <2>2. QuietMeansDone
    BY AtRest DEF QuietMeansDone
  <2>3. MainThreadOrder
    BY LogInOrder
  <2> QED
    BY <2>1, <2>2, <2>3 DEF BusDelivers
<1> QED
  BY <1>1, <1>2, <1>3, PTL DEF BusSpec
=============================================================================
