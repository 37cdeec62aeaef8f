---------------------------- MODULE ReaderProofs ----------------------------
(***************************************************************************)
(* Proofs about those who read what a reextract takes away: a question and *)
(* its answer stream (QaRetrieval), patrol requests and the cache of their *)
(* reports (Patrol).  Each invariant says how far a reader has come and    *)
(* what, at that point, still stands of what it has read.                  *)
(***************************************************************************)
EXTENDS QaRetrieval, Patrol, TLAPS

-----------------------------------------------------------------------------
(* A question beside a reextract.                                          *)

EarlyPcs == {"exists", "query", "context"}
StreamPcs == {"paper", "graph", "stream", "look"}
QaPcs == {"idle", "end"} \cup EarlyPcs \cup StreamPcs
Warnings == {"none", "index_not_ready", "unavailable", "timeout"}
ServedRuns == IndexRuns \cup {NoIndex}
Answers == [Kinds -> ServedRuns]
PlainEvents == [sse : {"warning", "error", "done"}]
CiteStates == {"ready", "indexing", "retrieval_timeout", "l2_timeout", "hallucinated_id"}
CiteEvents ==
    [sse : {"citation"}, chunk : Chunks, failed : BOOLEAN, state : CiteStates]
Events == PlainEvents \cup CiteEvents
Asks ==
    [pc : QaPcs, scale : Scales, read : Answers, got : Answers, todo : SUBSET Kinds,
     warning : Warnings, ready : BOOLEAN, graph : BOOLEAN, look : Chunks \X ServedRuns,
     sse : Seq(Events)]
BeforeServe == {"serving", "unset", "dropped", "queued", "preview", "saved"}

QaTypes ==
    /\ served \in ServedRuns /\ rows \subseteq IndexRuns \X Kinds
    /\ life \in BeforeServe \cup {"indexed", "ready"}
    /\ row \in {"ready", "preview", "blind"}
    /\ disk \in BOOLEAN /\ mem \in BOOLEAN /\ torn \in BOOLEAN /\ calm \in BOOLEAN
    /\ ask \in Asks /\ lru \subseteq ServedRuns \X Chunks \X BOOLEAN
    /\ asked \in Nat /\ seen \subseteq IndexRuns

\* The active run has its evidence, unless a purge gave up half way; the new run
\* is known to nobody before it is active; what was not found is not remembered
\* about the active run.
StoreInOrder ==
    /\ served # NoIndex /\ ~torn =>
          {served} \X Kinds \subseteq rows /\ <<served, "real", FALSE>> \notin lru
    /\ life \in BeforeServe =>
          served # NewRun /\ ask.look[2] # NewRun /\ \A e \in lru : e[1] # NewRun
    /\ \A e \in lru : e[3] => e[2] = "real"

\* What is read and found was active since the question was asked.
EvidenceSeen ==
    /\ ask.pc # "idle" => served \in seen \cup {NoIndex}
    /\ \A k \in Kinds : ask.read[k] \in seen \cup {NoIndex}
                     /\ ask.got[k] \in seen \cup {NoIndex}

\* Whether the route answers from a graph.
Answerable == row # "blind" /\ Graph

\* Everything that the active run has was found, or its purge gave up half way.
AllFound == served # NoIndex /\ (torn \/ \A k \in Kinds : ask.got[k] = served)

\* While nothing changes, what the question has read still stands.
Undisturbed ==
    calm =>
        /\ ask.pc = "exists" => ask.read = NoAnswer
        /\ ask.pc = "query" =>
              /\ served # NoIndex
              /\ \A k \in Kinds : /\ ask.read[k] \in {NoIndex, served}
                                  /\ k \notin ask.todo => torn \/ ask.got[k] = served
        /\ /\ ask.pc \in {"context", "end"} \cup StreamPcs /\ ask.scale = "deep"
           /\ ask.warning = "none" /\ Answerable
           => AllFound
        /\ ask.pc = "graph" => row # "blind"
        /\ ask.pc # "idle" /\ ask.graph => Answerable
        /\ ask.pc # "idle" /\ ask.ready => served # NoIndex
        /\ ask.pc = "look" => served # NoIndex /\ ask.look[2] = served

\* One citation, as PreviewsTellTruth has it.
Truthful(e) ==
    e.sse = "citation" =>
       /\ e.state = "ready" => e.chunk = "real"
       /\ calm /\ ~torn /\ e.state = "hallucinated_id" => e.chunk = "made_up" \/ e.failed
       /\ e.state = "hallucinated_id" => ask.warning \notin {"timeout", "unavailable"}

\* The stream so far.
StreamSoFar ==
    /\ ask.pc \in EarlyPcs => ask.sse = <<>>
    /\ ask.pc \in StreamPcs =>
          \A i \in 1..Len(ask.sse) : ask.sse[i].sse \notin {"error", "done"}
    /\ \A i \in 1..Len(ask.sse) : Truthful(ask.sse[i])


LEMMA AskFields ==
    ASSUME QaTypes
    PROVE  /\ ask.pc \in QaPcs /\ ask.scale \in Scales /\ ask.read \in Answers
           /\ ask.got \in Answers /\ ask.todo \in SUBSET Kinds /\ ask.warning \in Warnings
           /\ ask.ready \in BOOLEAN /\ ask.graph \in BOOLEAN
           /\ ask.look \in Chunks \X ServedRuns /\ ask.sse \in Seq(Events)
BY DEF QaTypes, Asks

\* A reextract step leaves the question alone and ends the calm.
LEMMA ReextractLeaves ==
    ASSUME Reextracting
    PROVE  UNCHANGED <<ask, lru, asked>> /\ calm' = FALSE /\ seen \subseteq seen'
BY DEF Reextracting, PurgeKind, UnsetServed, DropGraph, Requeue, OfferPreview, SaveWhole,
       Serve, MarkReady, Life

\* A step of the question changes the question and the cache alone.
LEMMA AskingLeaves ==
    ASSUME Asking \/ \E c \in Chunks : CiteChunk(c)
    PROVE  UNCHANGED <<paperVars, asked, seen, calm>>
BY DEF Asking, CiteChunk, CheckIndex, QueryReads, QueryFetches, Retrieved, RetrievalFails,
       BeginStream, ReadPaper, LoadGraph, LookUp, EndStream, Answered, Still

\* Events are added at the end.
LEMMA Appends ==
    ASSUME NEW s \in Seq(Events), NEW e \in Events
    PROVE  /\ s \o <<e>> \in Seq(Events) /\ Len(s \o <<e>>) = Len(s) + 1
           /\ \A i \in 1..Len(s) : (s \o <<e>>)[i] = s[i]
           /\ (s \o <<e>>)[Len(s) + 1] = e
OBVIOUS

LEMMA Concats ==
    ASSUME NEW s \in Seq(Events), NEW t \in Seq(Events)
    PROVE  /\ s \o t \in Seq(Events) /\ Len(s \o t) = Len(s) + Len(t)
           /\ \A i \in 1..Len(s) : (s \o t)[i] = s[i]
           /\ \A i \in 1..Len(t) : (s \o t)[Len(s) + i] = t[i]
OBVIOUS

\* A question of another control point, of another stream.
LEMMA AskExcept ==
    ASSUME NEW a \in Asks
    PROVE  /\ \A p \in QaPcs : [a EXCEPT !.pc = p] \in Asks
           /\ \A s \in Seq(Events) : [a EXCEPT !.sse = s] \in Asks
           /\ \A f \in Answers : [a EXCEPT !.got = f] \in Asks
           /\ \A S \in SUBSET Kinds : [a EXCEPT !.todo = S] \in Asks
           /\ \A w \in Warnings : [a EXCEPT !.warning = w] \in Asks
BY DEF Asks

LEMMA PcNames ==
    {"idle", "end", "exists", "query", "context", "paper", "graph", "stream", "look"}
        \subseteq QaPcs
BY DEF QaPcs, EarlyPcs, StreamPcs

LEMMA EventFacts ==
    /\ {Event("warning"), Event("error"), Event("done")} \subseteq Events
    /\ \A c \in Chunks, failed \in BOOLEAN :
          \A st \in CiteStates :
             [sse |-> "citation", chunk |-> c, state |-> st, failed |-> failed] \in Events
    /\ \A e \in Events : e.sse \in {"warning", "error", "done", "citation"}
BY DEF Event, Events, PlainEvents, CiteEvents, CiteStates

CiteEvent(c, st, failed) == [sse |-> "citation", chunk |-> c, state |-> st, failed |-> failed]

LEMMA MissFacts ==
    /\ Miss \in {"indexing", "retrieval_timeout", "hallucinated_id"}
    /\ Miss \in CiteStates /\ Miss # "ready"
    /\ {"ready", "l2_timeout"} \subseteq CiteStates
BY DEF Miss, CiteStates

\* A citation adds one event and leaves the rest of the question alone.
LEMMA CiteFacts ==
    ASSUME QaTypes, NEW c \in Chunks, NEW st \in CiteStates, NEW failed \in BOOLEAN,
           ask' = Cite(c, st, failed)
    PROVE  /\ ask' \in Asks /\ ask'.pc = "stream"
           /\ ask'.sse = ask.sse \o <<CiteEvent(c, st, failed)>>
           /\ ask'.read = ask.read /\ ask'.got = ask.got /\ ask'.look = ask.look
           /\ ask'.warning = ask.warning /\ ask'.ready = ask.ready
           /\ ask'.graph = ask.graph /\ ask'.scale = ask.scale
<1> DEFINE e == CiteEvent(c, st, failed)
<1>1. ask \in Asks /\ ask.sse \o <<e>> \in Seq(Events)
  BY EventFacts, Appends, AskFields DEF QaTypes, CiteEvent
<1>2. ask' = [ask EXCEPT !.sse = ask.sse \o <<e>>, !.pc = "stream"]
  BY <1>1 DEF Cite, Sse, Asks, CiteEvent
<1> HIDE DEF e
<1> QED
  BY <1>1, <1>2, PcNames DEF e, Asks

\* A look-up finds what the cache or the collection has, and may be too late.
LEMMA LookedUp ==
    ASSUME QaTypes, LookUp
    PROVE  \E found \in BOOLEAN :
              /\ \E st \in CiteStates, failed \in BOOLEAN :
                    /\ ask' = Cite(ask.look[1], st, failed)
                    /\ st = "ready" => found
                    /\ st = "hallucinated_id" => st = Miss /\ (found => failed)
              /\ lru' \in {lru, lru \cup {<<ask.look[2], ask.look[1], found>>}}
              /\ \/ \E e \in lru : e = <<ask.look[2], ask.look[1], found>>
                 \/ found = (ask.look[1] = "real" /\ <<ask.look[2], "chunks">> \in rows)
<1> DEFINE c == ask.look[1]
<1> DEFINE r == ask.look[2]
<1> DEFINE hit == {e \in lru : e[1] = r /\ e[2] = c}
<1> DEFINE chosen == CHOOSE e \in hit : TRUE
<1> DEFINE found == IF hit # {} THEN chosen[3] ELSE c = "real" /\ <<r, "chunks">> \in rows
<1>1. hit # {} => chosen \in lru /\ chosen = <<r, c, chosen[3]>> /\ chosen[3] \in BOOLEAN
  <2>1. hit # {} => chosen \in hit
    OBVIOUS
  <2> HIDE DEF chosen
  <2> QED
    BY <2>1 DEF QaTypes
<1>2. found \in BOOLEAN
  BY <1>1
<1>3. /\ \/ ask' = Cite(c, IF found THEN "ready" ELSE Miss, FALSE)
         \/ ask' = Cite(c, "l2_timeout", TRUE)
         \/ ask' = Cite(c, Miss, TRUE)
      /\ lru' \in {lru, lru \cup {<<r, c, found>>}}
  BY DEF LookUp
<1>4. \/ \E e \in lru : e = <<r, c, found>>
      \/ found = (c = "real" /\ <<r, "chunks">> \in rows)
  BY <1>1
<1> HIDE DEF found, hit
<1> QED
  <2>1. \E st \in CiteStates, failed \in BOOLEAN :
          /\ ask' = Cite(c, st, failed)
          /\ st = "ready" => found
          /\ st = "hallucinated_id" => st = Miss /\ (found => failed)
    BY <1>2, <1>3, MissFacts
  <2> QED
    BY <1>2, <1>3, <1>4, <2>1

\* What the question becomes has its type.
LEMMA AskTypes ==
    ASSUME QaTypes, Asking \/ \E c \in Chunks : CiteChunk(c)
    PROVE  ask' \in Asks /\ lru' \subseteq ServedRuns \X Chunks \X BOOLEAN
<1> USE AskFields, PcNames
<1>0. ask \in Asks /\ \A s \in Seq(Events) : Sse(s) \in Asks
  BY Concats, AskExcept DEF QaTypes, Sse
<1>10. UNCHANGED lru => lru' \subseteq ServedRuns \X Chunks \X BOOLEAN
  BY DEF QaTypes
<1>1. ASSUME NEW k \in Kinds, QueryReads(k) \/ QueryFetches(k)
      PROVE  ask' \in Asks /\ UNCHANGED lru
  <2>1. CASE QueryReads(k)
    <3>1. [ask.read EXCEPT ![k] = served] \in Answers
      BY DEF Answers, QaTypes
    <3> QED
      BY <2>1, <3>1 DEF QueryReads, Asks, QaTypes
  <2>2. CASE QueryFetches(k)
    <3>1. \A r \in ServedRuns : [ask.got EXCEPT ![k] = r] \in Answers
      BY DEF Answers
    <3>2. {e[1] : e \in Where(ask.read[k], k)} \cup {NoIndex} \subseteq ServedRuns
      BY DEF Where, QaTypes, ServedRuns
    <3>3. PICK r \in ServedRuns :
              ask' = [ask EXCEPT !.todo = @ \ {k}, !.got[k] = r]
      BY <2>2, <3>2 DEF QueryFetches
    <3> QED
      BY <2>2, <3>1, <3>3 DEF QueryFetches, Asks, QaTypes
  <2> QED
    BY <1>1, <2>1, <2>2
<1>2. CASE CheckIndex \/ Retrieved \/ RetrievalFails
  <2>1. NoAnswer \in Answers
    BY DEF NoAnswer, Answers, ServedRuns
  <2>2. CASE CheckIndex
    BY <1>0, <1>10, <2>2 DEF CheckIndex, Asks, Warnings
  <2>3. CASE Retrieved
    BY <1>0, <1>10, <2>3, AskExcept DEF Retrieved, AskStep
  <2>4. CASE RetrievalFails
    <3>1. \A w \in Warnings : Degraded(w) \in Asks
      BY <1>0, <2>1, AskExcept DEF Degraded
    <3>2. "unavailable" \in Warnings /\ "timeout" \in Warnings
      BY DEF Warnings
    <3> QED
      BY <1>10, <2>4, <3>1, <3>2 DEF RetrievalFails
  <2> QED
    BY <1>2, <2>2, <2>3, <2>4 DEF CheckIndex, Retrieved, RetrievalFails
<1>3. CASE BeginStream
  <2>1. <<>> \in Seq(Events) /\ <<Event("warning")>> \in Seq(Events)
    BY EventFacts
  <2>2. \A a \in Asks, b \in BOOLEAN : [a EXCEPT !.pc = "paper", !.ready = b] \in Asks
    BY DEF Asks
  <2> DEFINE first == IF ask.warning = "none" THEN <<>> ELSE <<Event("warning")>>
  <2>3. PICK b \in {FALSE, served # NoIndex} :
            ask' = [Sse(first) EXCEPT !.pc = "paper", !.ready = b]
    BY <1>3 DEF BeginStream
  <2>4. b \in BOOLEAN /\ Sse(first) \in Asks
    BY <1>0, <2>1
  <2> QED
    BY <1>3, <1>10, <2>2, <2>3, <2>4 DEF BeginStream
<1>4. \A s \in Seq(Events) : Ends(s) => ask' \in Asks
  BY <1>0, AskExcept DEF Ends
<1>5. CASE ReadPaper \/ LoadGraph \/ EndStream \/ Answered
  <2>1. <<Event("done")>> \in Seq(Events) /\ <<Event("error"), Event("done")>> \in Seq(Events)
    BY EventFacts
  <2>2. \A p \in QaPcs : AskStep(p) => ask' \in Asks
    BY <1>0, AskExcept DEF AskStep
  <2>3. [ask EXCEPT !.pc = "stream", !.graph = TRUE] \in Asks
    BY <1>0 DEF Asks
  <2> QED
    BY <1>4, <1>5, <1>10, <2>1, <2>2, <2>3 DEF ReadPaper, LoadGraph, EndStream, Answered, Closing
<1>8. ASSUME NEW c \in Chunks, CiteChunk(c)
      PROVE  ask' \in Asks /\ UNCHANGED lru
  <2>1. served # NoIndex => [ask EXCEPT !.pc = "look", !.look = <<c, served>>] \in Asks
    BY <1>0, <1>8 DEF Asks, QaTypes
  <2> QED
    BY <1>8, <2>1, CiteFacts, MissFacts DEF CiteChunk
<1>9. CASE LookUp
  <2>1. ask' \in Asks /\ ask.look[1] \in Chunks /\ ask.look[2] \in ServedRuns
    BY <1>9, LookedUp, CiteFacts
  <2> QED
    BY <1>9, <2>1, LookedUp DEF QaTypes
<1> QED
  BY <1>1, <1>2, <1>3, <1>5, <1>8, <1>9
  DEF Asking, Retrieved, RetrievalFails, CheckIndex, BeginStream, ReadPaper, LoadGraph,
      EndStream, Answered, QaTypes

LEMMA QaTypesStep ==
    ASSUME QaRetrievalAssumption, QaTypes, [QaNext]_qaVars
    PROVE  QaTypes'
<1>1. CASE Asking \/ \E c \in Chunks : CiteChunk(c)
  BY <1>1, AskTypes, AskingLeaves DEF QaTypes, paperVars
<1>2. CASE Reextracting
  BY <1>2
  DEF Reextracting, PurgeKind, UnsetServed, DropGraph, Requeue, OfferPreview, SaveWhole,
      Serve, MarkReady, Life, QaTypes, BeforeServe, ServedRuns, IndexRuns
<1>3. ASSUME NEW s \in Scales, Ask(s)
      PROVE  QaTypes'
  <2>1. Idle \in Asks
    BY DEF Idle, NoAnswer, Asks, Answers, QaPcs, Scales, ServedRuns, Warnings, Chunks
  <2> QED
    <3>1. \A p \in QaPcs : [Idle EXCEPT !.scale = s, !.pc = p] \in Asks
      BY <2>1 DEF Asks
    <3>2. ask' \in Asks
      BY <1>3, <3>1, PcNames DEF Ask
    <3> QED
      BY <1>3, <3>2 DEF Ask, paperVars, QaTypes, ServedRuns
<1>4. CASE UNCHANGED qaVars
  BY <1>4 DEF qaVars, QaTypes
<1> QED
  BY <1>1, <1>2, <1>3, <1>4 DEF QaNext

\* What a look-up finds is real, and of the active run it finds what is real.
LEMMA LookTells ==
    ASSUME StoreInOrder, NEW found \in BOOLEAN,
           \/ \E e \in lru : e = <<ask.look[2], ask.look[1], found>>
           \/ found = (ask.look[1] = "real" /\ <<ask.look[2], "chunks">> \in rows)
    PROVE  /\ found => ask.look[1] = "real"
           /\ ask.look[1] = "real" /\ ask.look[2] = served /\ served # NoIndex /\ ~torn => found
<1>1. ASSUME NEW e \in lru, e = <<ask.look[2], ask.look[1], found>>, found
      PROVE  ask.look[1] = "real"
  BY <1>1 DEF StoreInOrder
<1>2. ASSUME NEW e \in lru, e = <<ask.look[2], ask.look[1], found>>, ~found,
             ask.look[1] = "real", ask.look[2] = served, served # NoIndex, ~torn
      PROVE  FALSE
  <2>1. e = <<served, "real", FALSE>>
    BY <1>2
  <2> QED
    BY <1>2, <2>1 DEF StoreInOrder
<1> QED
  BY <1>1, <1>2 DEF StoreInOrder, Kinds

\* The store and the cache stay in order,
LEMMA StoreStep ==
    ASSUME QaRetrievalAssumption, QaTypes, StoreInOrder, [QaNext]_qaVars
    PROVE  StoreInOrder'
<1>1. CASE Reextracting
  BY <1>1, QaRetrievalAssumption
  DEF Reextracting, PurgeKind, UnsetServed, DropGraph, Requeue, OfferPreview, SaveWhole,
      Serve, MarkReady, Life, StoreInOrder, BeforeServe, QaTypes
<1>2. CASE UNCHANGED <<paperVars, lru>> /\ ask'.look \in {ask.look, Idle.look}
  BY <1>2, QaRetrievalAssumption DEF paperVars, StoreInOrder, Idle
<1>3. ASSUME NEW c \in Chunks, CiteChunk(c)
      PROVE  UNCHANGED <<paperVars, lru>> /\ ask'.look[2] \in {ask.look[2], served}
  BY <1>3, AskFields DEF CiteChunk, Still, Cite, Sse, QaTypes, Asks
<1>4. CASE LookUp
  <2>1. UNCHANGED paperVars /\ ask'.look = ask.look
    <3>1. PICK st \in CiteStates, failed \in BOOLEAN : ask' = Cite(ask.look[1], st, failed)
      BY <1>4, LookedUp
    <3> QED
      BY <1>4, <3>1, CiteFacts, AskFields DEF LookUp, Still
  <2>2. PICK found \in BOOLEAN :
          /\ lru' \in {lru, lru \cup {<<ask.look[2], ask.look[1], found>>}}
          /\ \/ \E e \in lru : e = <<ask.look[2], ask.look[1], found>>
             \/ found = (ask.look[1] = "real" /\ <<ask.look[2], "chunks">> \in rows)
    BY <1>4, LookedUp
  <2>3. CASE lru' = lru
    BY <2>1, <2>3 DEF StoreInOrder, paperVars
  <2>4. CASE lru' = lru \cup {<<ask.look[2], ask.look[1], found>>}
    <3>1. found => ask.look[1] = "real"
      BY <2>2, LookTells
    <3>2. ask.look[1] = "real" /\ ask.look[2] = served /\ served # NoIndex /\ ~torn => found
      BY <2>2, LookTells
    <3> QED
      <4>1. served # NoIndex /\ ~torn => <<served, "real", FALSE>> \notin lru'
        BY <2>4, <3>2 DEF StoreInOrder
      <4>2. life \in BeforeServe => \A e \in lru' : e[1] # NewRun
        BY <2>4 DEF StoreInOrder
      <4>3. \A e \in lru' : e[3] => e[2] = "real"
        BY <2>4, <3>1 DEF StoreInOrder
      <4> QED
        BY <2>1, <4>1, <4>2, <4>3 DEF StoreInOrder, paperVars
  <2> QED
    BY <2>2, <2>3, <2>4
<1>5. CASE \E s \in Scales : Ask(s)
  BY <1>2, <1>5 DEF Ask, Idle, paperVars
<1>6. CASE Asking
  <2>1. ASSUME Asking, ~LookUp
        PROVE  UNCHANGED <<paperVars, lru>> /\ ask'.look = ask.look
    <3>1. CASE CheckIndex \/ Retrieved \/ RetrievalFails
      BY <3>1 DEF CheckIndex, Retrieved, RetrievalFails, Degraded, AskStep, Still, QaTypes, Asks
    <3>2. CASE \E k \in Kinds : QueryReads(k) \/ QueryFetches(k)
      BY <3>2 DEF QueryReads, QueryFetches, Still, QaTypes, Asks
    <3>3. CASE BeginStream
      BY <3>3 DEF BeginStream, Sse, Still, QaTypes, Asks
    <3>5. CASE ReadPaper \/ Answered
      BY <3>5 DEF ReadPaper, Answered, AskStep, Ends, Sse, Still, QaTypes, Asks
    <3>4. CASE LoadGraph \/ EndStream
      BY <3>4 DEF LoadGraph, EndStream, AskStep, Ends, Sse, Still, QaTypes, Asks
    <3> QED
      BY <2>1, <3>1, <3>2, <3>3, <3>4, <3>5 DEF Asking
  <2> QED
    BY <1>2, <1>4, <1>6, <2>1
<1>7. CASE UNCHANGED qaVars
  BY <1>2, <1>7 DEF qaVars, paperVars
<1>8. ASSUME NEW c \in Chunks, CiteChunk(c)
      PROVE  StoreInOrder'
  <2>1. life \in BeforeServe => ask'.look[2] # NewRun
    BY <1>3, <1>8 DEF StoreInOrder
  <2>2. UNCHANGED paperVars /\ UNCHANGED lru
    BY <1>3, <1>8
  <2> QED
    BY <2>1, <2>2 DEF StoreInOrder, paperVars
<1> QED
  BY <1>1, <1>5, <1>6, <1>7, <1>8 DEF QaNext

\* and what the question has read was active since it was asked.
LEMMA SeenStep ==
    ASSUME QaTypes, EvidenceSeen, [QaNext]_qaVars
    PROVE  EvidenceSeen'
<1>1. CASE Reextracting
  BY <1>1, ReextractLeaves
  DEF Reextracting, PurgeKind, UnsetServed, DropGraph, Requeue, OfferPreview, SaveWhole,
      Serve, MarkReady, Life, EvidenceSeen
<1>2. CASE UNCHANGED <<served, seen>> /\ (ask.pc = "idle" => ask'.pc = "idle")
             /\ ask'.read = ask.read /\ ask'.got \in {ask.got, NoAnswer}
  BY <1>2 DEF EvidenceSeen, NoAnswer
<1>3. ASSUME NEW k \in Kinds, QueryReads(k)
      PROVE  EvidenceSeen'
  BY <1>3, AskFields
  DEF QueryReads, AskAt, Still, paperVars, EvidenceSeen, QaTypes, Asks, Answers
<1>4. ASSUME NEW k \in Kinds, QueryFetches(k)
      PROVE  EvidenceSeen'
  <2>1. {e[1] : e \in Where(ask.read[k], k)} \subseteq {ask.read[k]}
    BY DEF Where
  <2>2. PICK r \in {ask.read[k], NoIndex} :
            ask' = [ask EXCEPT !.todo = @ \ {k}, !.got[k] = r]
    BY <1>4, <2>1 DEF QueryFetches
  <2> QED
    BY <1>4, <2>2, AskFields
    DEF QueryFetches, AskAt, Still, paperVars, EvidenceSeen, QaTypes, Asks, Answers
<1>5. CASE \E s \in Scales : Ask(s)
  BY <1>5 DEF Ask, Idle, NoAnswer, paperVars, EvidenceSeen, QaTypes, ServedRuns
<1>6. CASE CheckIndex \/ Retrieved \/ RetrievalFails \/ BeginStream \/ ReadPaper \/ LoadGraph
           \/ EndStream \/ Answered
  <2>1. /\ ask.pc = "idle" => ask'.pc = "idle"
        /\ ask'.read = ask.read /\ ask'.got \in {ask.got, NoAnswer}
    <3>1. CASE CheckIndex
      BY <3>1, AskFields DEF CheckIndex, AskAt, QaTypes, Asks
    <3>2. CASE RetrievalFails
      BY <3>2, AskFields DEF RetrievalFails, Degraded, QaTypes, Asks
    <3>3. CASE Retrieved \/ Answered
      BY <3>3, AskFields DEF Retrieved, Answered, AskStep, AskAt, QaTypes, Asks
    <3>4. CASE BeginStream
      <4>1. PICK b \in {FALSE, served # NoIndex}, first \in {<<>>, <<Event("warning")>>} :
                ask' = [[ask EXCEPT !.sse = ask.sse \o first] EXCEPT !.pc = "paper", !.ready = b]
        BY <3>4 DEF BeginStream, Sse
      <4> QED
        BY <3>4, <4>1, AskFields DEF BeginStream, AskAt, QaTypes, Asks
    <3>5. CASE ReadPaper \/ LoadGraph \/ EndStream
      <4>1. \A events : Ends(events) => ask'.read = ask.read /\ ask'.got = ask.got
        BY AskFields DEF Ends, Sse, QaTypes, Asks
      <4> QED
        BY <3>5, <4>1, AskFields
        DEF ReadPaper, LoadGraph, EndStream, AskStep, AskAt, QaTypes, Asks
    <3> QED
      BY <1>6, <3>1, <3>2, <3>3, <3>4, <3>5
  <2> QED
    BY <1>2, <1>6, <2>1, AskingLeaves DEF Asking, paperVars
<1>7. CASE LookUp \/ \E c \in Chunks : CiteChunk(c)
  <2>2. CASE LookUp
    <3>1. ask'.read = ask.read /\ ask'.got = ask.got
      BY <2>2, LookedUp, CiteFacts, AskFields
    <3> QED
      BY <1>2, <2>2, <3>1, AskingLeaves DEF Asking, LookUp, AskAt, paperVars
  <2>3. ASSUME NEW c \in Chunks, CiteChunk(c)
        PROVE  EvidenceSeen'
    <3>1. ask'.read = ask.read /\ ask'.got = ask.got
      BY <2>3, CiteFacts, MissFacts DEF CiteChunk, QaTypes, Asks
    <3> QED
      BY <1>2, <2>3, <3>1, AskingLeaves DEF CiteChunk, AskAt, paperVars
  <2> QED
    BY <1>7, <2>2, <2>3
<1>8. CASE UNCHANGED qaVars
  BY <1>8 DEF qaVars, EvidenceSeen
<1> QED
  BY <1>1, <1>3, <1>4, <1>5, <1>6, <1>7, <1>8 DEF QaNext, Asking

LEMMA FetchFields ==
    ASSUME QaTypes, NEW k \in Kinds, NEW r,
           ask' = [ask EXCEPT !.todo = @ \ {k}, !.got[k] = r]
    PROVE  /\ ask'.pc = ask.pc /\ ask'.todo = ask.todo \ {k} /\ ask'.read = ask.read
           /\ ask'.got = [ask.got EXCEPT ![k] = r]
           /\ ask'.graph = ask.graph /\ ask'.ready = ask.ready
BY DEF QaTypes, Asks

\* While nothing changes, what was read and found still stands.
LEMMA UndisturbedStep ==
    ASSUME QaTypes, StoreInOrder, Undisturbed, [QaNext]_qaVars
    PROVE  Undisturbed'
<1> SUFFICES ASSUME calm' PROVE Undisturbed'
  BY DEF Undisturbed
<1>1. ASSUME UNCHANGED <<paperVars, calm>>
      PROVE  calm /\ UNCHANGED <<served, rows, torn, row, disk, mem>> /\ (Answerable <=> Answerable')
  BY <1>1 DEF paperVars, Answerable, Graph
<1>2. CASE Reextracting
  BY <1>2, ReextractLeaves
<1>3. ASSUME NEW s \in Scales, Ask(s)
      PROVE  Undisturbed'
  BY <1>3
  DEF Ask, Idle, NoAnswer, paperVars, Undisturbed, Answerable, Graph, AllFound, StreamPcs
<1>4. CASE CheckIndex
  <2>1. CASE served = NoIndex
    <3>1. /\ ask'.pc = "context" /\ ask'.warning # "none"
          /\ ask'.graph = ask.graph /\ ask'.ready = ask.ready /\ ask.pc = "exists"
      BY <1>4, <2>1, AskFields DEF CheckIndex, AskAt, QaTypes, Asks
    <3> QED
      BY <1>1, <1>4, <3>1, AskingLeaves DEF Asking, Undisturbed, StreamPcs
  <2>2. CASE served # NoIndex
    <3>1. /\ ask'.pc = "query" /\ ask'.todo = Kinds /\ ask'.read = ask.read
          /\ ask'.graph = ask.graph /\ ask'.ready = ask.ready /\ ask.pc = "exists"
      BY <1>4, <2>2, AskFields DEF CheckIndex, AskAt, QaTypes, Asks
    <3> QED
      BY <1>1, <1>4, <2>2, <3>1, AskingLeaves DEF Asking, Undisturbed, StreamPcs, NoAnswer
  <2> QED
    BY <2>1, <2>2
<1>5. ASSUME NEW k \in Kinds, QueryReads(k)
      PROVE  Undisturbed'
  <2>1. served # NoIndex
    BY <1>1, <1>5, AskingLeaves DEF Asking, QueryReads, AskAt, Undisturbed
  <2>2. /\ ask'.pc = "query" /\ ask.pc = "query" /\ ask'.todo = ask.todo
        /\ ask'.read = [ask.read EXCEPT ![k] = served] /\ ask'.got = ask.got
        /\ ask'.graph = ask.graph /\ ask'.ready = ask.ready
    BY <1>5, <2>1, AskFields DEF QueryReads, AskAt, QaTypes, Asks
  <2>3. calm /\ UNCHANGED <<served, torn>> /\ (Answerable <=> Answerable')
    BY <1>1, <1>5, AskingLeaves DEF Asking
  <2>4. \A j \in Kinds : ask'.read[j] \in {NoIndex, served}
    BY <2>2, <2>3, AskFields DEF Undisturbed, Answers
  <2> QED
    BY <2>1, <2>2, <2>3, <2>4 DEF Undisturbed, StreamPcs
<1>6. ASSUME NEW k \in Kinds, QueryFetches(k)
      PROVE  Undisturbed'
  <2>1. /\ calm /\ ask.pc = "query" /\ served # NoIndex /\ ask.read[k] = served
        /\ UNCHANGED <<served, torn>>
    BY <1>1, <1>6, AskingLeaves DEF Asking, QueryFetches, AskAt, Undisturbed
  <2>2. {e[1] : e \in Where(ask.read[k], k)} \subseteq {served}
    BY <2>1 DEF Where
  <2>3. torn \/ <<served, k>> \in Where(ask.read[k], k)
    BY <2>1 DEF Where, StoreInOrder
  <2>4. torn \/ {e[1] : e \in Where(ask.read[k], k)} = {served}
    BY <2>2, <2>3
  <2>5. PICK r \in {served, NoIndex} :
            /\ ask' = [ask EXCEPT !.todo = @ \ {k}, !.got[k] = r]
            /\ torn \/ r = served
    BY <1>6, <2>2, <2>4 DEF QueryFetches
  <2>6. /\ ask'.pc = "query" /\ ask'.todo = ask.todo \ {k} /\ ask'.read = ask.read
        /\ ask'.got = [ask.got EXCEPT ![k] = r]
        /\ ask'.graph = ask.graph /\ ask'.ready = ask.ready
    BY <2>1, <2>5, FetchFields
  <2> QED
    BY <1>1, <1>6, <2>1, <2>5, <2>6, AskFields, AskingLeaves
    DEF Asking, Undisturbed, StreamPcs, Answers
<1>7. CASE Retrieved
  <2>1. /\ ask'.pc = "context" /\ ask.pc = "query" /\ ask.todo = {}
        /\ ask'.got = ask.got /\ ask'.graph = ask.graph /\ ask'.ready = ask.ready
    BY <1>7, AskFields DEF Retrieved, AskStep, AskAt, QaTypes, Asks
  <2> QED
    BY <1>1, <1>7, <2>1, AskingLeaves DEF Asking, Undisturbed, AllFound, StreamPcs
<1>8. CASE RetrievalFails
  <2>1. /\ ask'.pc = "context" /\ ask'.warning # "none" /\ ask.pc \in {"exists", "query"}
        /\ ask'.graph = ask.graph /\ ask'.ready = ask.ready
    BY <1>8, AskFields DEF RetrievalFails, Degraded, QaTypes, Asks
  <2> QED
    BY <1>1, <1>8, <2>1, AskingLeaves DEF Asking, Undisturbed, StreamPcs
<1>9. CASE BeginStream
  <2>1. PICK b \in {FALSE, served # NoIndex}, first \in {<<>>, <<Event("warning")>>} :
            ask' = [[ask EXCEPT !.sse = ask.sse \o first] EXCEPT !.pc = "paper", !.ready = b]
    BY <1>9 DEF BeginStream, Sse
  <2>2. /\ ask'.pc = "paper" /\ ask.pc = "context" /\ ask'.graph = ask.graph
        /\ ask'.got = ask.got /\ ask'.scale = ask.scale /\ ask'.warning = ask.warning
        /\ ask'.ready => served # NoIndex
    BY <1>9, <2>1, AskFields DEF BeginStream, AskAt, QaTypes, Asks
  <2> QED
    BY <1>1, <1>9, <2>2, AskingLeaves DEF Asking, Undisturbed, AllFound, StreamPcs
<1>10. CASE ReadPaper \/ LoadGraph \/ EndStream \/ Answered
  <2>1. \A sse : Ends(sse) =>
            /\ ask'.pc = "end" /\ ask'.graph = ask.graph /\ ask'.ready = ask.ready
            /\ ask'.got = ask.got /\ ask'.scale = ask.scale /\ ask'.warning = ask.warning
    BY AskFields DEF Ends, Sse, QaTypes, Asks
  <2>2. \A p : AskStep(p) =>
            /\ ask'.pc = p /\ ask'.graph = ask.graph /\ ask'.ready = ask.ready
            /\ ask'.got = ask.got /\ ask'.scale = ask.scale /\ ask'.warning = ask.warning
    BY AskFields DEF AskStep, QaTypes, Asks
  <2>3. calm /\ UNCHANGED <<served, rows, torn, row, disk, mem>> /\ (Answerable <=> Answerable')
    BY <1>1, <1>10, AskingLeaves DEF Asking
  <2>4. CASE ReadPaper
    BY <2>1, <2>2, <2>3, <2>4 DEF ReadPaper, AskAt, Undisturbed, AllFound, StreamPcs
  <2>5. CASE LoadGraph
    <3>1. ask.pc = "graph" /\ row # "blind"
      BY <2>3, <2>5 DEF LoadGraph, AskAt, Undisturbed
    <3>2. CASE Graph
      <4>1. /\ ask'.pc = "stream" /\ ask'.ready = ask.ready /\ ask'.got = ask.got
            /\ ask'.scale = ask.scale /\ ask'.warning = ask.warning
        BY <2>5, <3>2, AskFields DEF LoadGraph, QaTypes, Asks
      <4> QED
        BY <2>3, <3>1, <3>2, <4>1 DEF Undisturbed, AllFound, Answerable, StreamPcs
    <3>3. CASE ~Graph
      BY <2>1, <2>3, <2>5, <3>1, <3>3 DEF LoadGraph, Undisturbed, AllFound, StreamPcs
    <3> QED
      BY <3>2, <3>3
  <2>6. CASE EndStream \/ Answered
    BY <2>1, <2>2, <2>3, <2>6 DEF EndStream, Answered, AskAt, Undisturbed, AllFound, StreamPcs
  <2> QED
    BY <1>10, <2>4, <2>5, <2>6
<1>11. CASE LookUp
  <2>1. /\ ask.pc = "look" /\ ask'.pc = "stream"
        /\ ask'.got = ask.got /\ ask'.warning = ask.warning /\ ask'.ready = ask.ready
        /\ ask'.graph = ask.graph /\ ask'.scale = ask.scale
    BY <1>11, LookedUp, CiteFacts, AskFields DEF LookUp, AskAt
  <2> QED
    BY <1>1, <1>11, <2>1, AskingLeaves DEF Asking, Undisturbed, AllFound, StreamPcs
<1>12. ASSUME NEW c \in Chunks, CiteChunk(c)
       PROVE  Undisturbed'
  <2>1. /\ ask.pc = "stream"
        /\ \/ ask'.pc = "stream"
           \/ ask'.pc = "look" /\ served # NoIndex /\ ask'.look[2] = served
        /\ ask'.got = ask.got /\ ask'.warning = ask.warning /\ ask'.ready = ask.ready
        /\ ask'.graph = ask.graph /\ ask'.scale = ask.scale
    BY <1>12, CiteFacts, MissFacts DEF CiteChunk, AskAt, QaTypes, Asks
  <2> QED
    BY <1>1, <1>12, <2>1, AskingLeaves DEF Undisturbed, AllFound, StreamPcs
<1>13. CASE UNCHANGED qaVars
  BY <1>1, <1>13 DEF qaVars, paperVars, Undisturbed, AllFound
<1> QED
  BY <1>2, <1>3, <1>4, <1>5, <1>6, <1>7, <1>8, <1>9, <1>10, <1>11, <1>12, <1>13
  DEF QaNext, Asking

\* Only a question that cites, warns or ends adds to its stream.
LEMMA StreamStep ==
    ASSUME QaRetrievalAssumption, QaTypes, StoreInOrder, Undisturbed, StreamSoFar, OneLastEvent,
           [QaNext]_qaVars
    PROVE  StreamSoFar' /\ OneLastEvent'
<1>1. CASE Reextracting
  BY <1>1, ReextractLeaves DEF StreamSoFar, OneLastEvent, Truthful, AskAt
<1>2. ASSUME NEW s \in Scales, Ask(s)
      PROVE  StreamSoFar' /\ OneLastEvent'
  BY <1>2 DEF Ask, Idle, StreamSoFar, OneLastEvent, AskAt, EarlyPcs, StreamPcs
<1>3. CASE UNCHANGED qaVars
  BY <1>3 DEF qaVars, StreamSoFar, OneLastEvent, Truthful, AskAt
<1>4. ASSUME UNCHANGED <<paperVars, calm>>, ask'.sse = ask.sse, ask'.pc # "end",
             ask.sse = <<>> \/ ask'.warning = ask.warning,
             ask'.pc \in EarlyPcs => ask.pc \in EarlyPcs,
             ask'.pc \in StreamPcs => ask.pc \in StreamPcs
      PROVE  StreamSoFar' /\ OneLastEvent'
  BY <1>4 DEF paperVars, StreamSoFar, OneLastEvent, Truthful, AskAt
<1>5. CASE CheckIndex \/ RetrievalFails \/ \E k \in Kinds : QueryReads(k) \/ QueryFetches(k)
  <2>1. ask'.sse = ask.sse /\ ask.pc \in EarlyPcs /\ ask'.pc \in EarlyPcs
    <3>1. CASE CheckIndex \/ RetrievalFails
      BY <3>1, AskFields
      DEF CheckIndex, RetrievalFails, Degraded, AskAt, QaTypes, Asks, EarlyPcs
    <3>2. ASSUME NEW k \in Kinds, QueryReads(k)
          PROVE  ask'.sse = ask.sse /\ ask.pc = "query" /\ ask'.pc = "query"
      BY <3>2, AskFields DEF QueryReads, AskAt, QaTypes, Asks
    <3>3. ASSUME NEW k \in Kinds, QueryFetches(k)
          PROVE  ask'.sse = ask.sse /\ ask.pc = "query" /\ ask'.pc = "query"
      <4>1. PICK r : ask' = [ask EXCEPT !.todo = @ \ {k}, !.got[k] = r]
        BY <3>3 DEF QueryFetches
      <4> QED
        BY <3>3, <4>1, AskFields DEF QueryFetches, AskAt, QaTypes, Asks
    <3> QED
      BY <1>5, <3>1, <3>2, <3>3 DEF EarlyPcs
  <2> QED
    BY <1>4, <1>5, <2>1, AskingLeaves DEF Asking, StreamSoFar, EarlyPcs, StreamPcs
<1>6. CASE Retrieved \/ Answered
  <2>1. /\ ask'.sse = ask.sse /\ ask'.warning = ask.warning
        /\ \/ ask'.pc = "context" /\ ask.pc = "query"
           \/ ask'.pc = "idle"
    BY <1>6, AskFields DEF Retrieved, Answered, AskStep, AskAt, QaTypes, Asks
  <2> QED
    BY <1>4, <1>6, <2>1, AskingLeaves DEF Asking, EarlyPcs, StreamPcs
<1>7. CASE BeginStream
  <2>1. ask.sse = <<>> /\ ask.pc = "context"
    BY <1>7 DEF BeginStream, AskAt, StreamSoFar, EarlyPcs
  <2>2. PICK b \in {FALSE, served # NoIndex},
             first \in {<<>>, <<Event("warning")>>} :
            ask' = [[ask EXCEPT !.sse = ask.sse \o first] EXCEPT !.pc = "paper", !.ready = b]
    BY <1>7 DEF BeginStream, Sse
  <2>3. ask'.pc = "paper" /\ ask'.sse = ask.sse \o first /\ ask'.warning = ask.warning
    BY <2>2, AskFields DEF QaTypes, Asks
  <2>4. ask'.sse = first
    BY <2>1, <2>2, <2>3, EventFacts
  <2>5. \A i \in 1..Len(ask'.sse) : ask'.sse[i] = Event("warning")
    BY <2>2, <2>4
  <2> QED
    BY <2>3, <2>5 DEF StreamSoFar, OneLastEvent, Truthful, AskAt, EarlyPcs, StreamPcs, Event
<1>8. ASSUME NEW c \in Chunks, NEW st \in CiteStates, NEW failed \in BOOLEAN,
             ask' = Cite(c, st, failed), ask.pc \in StreamPcs, UNCHANGED <<paperVars, calm>>,
             Truthful(CiteEvent(c, st, failed))
      PROVE  StreamSoFar' /\ OneLastEvent'
  <2> DEFINE e == CiteEvent(c, st, failed)
  <2>1. /\ ask'.pc = "stream" /\ ask'.sse = ask.sse \o <<e>>
        /\ ask'.warning = ask.warning
    BY <1>8, CiteFacts
  <2>2. e \in Events /\ e.sse = "citation"
    BY EventFacts DEF CiteEvent
  <2> HIDE DEF e
  <2>3. /\ Len(ask'.sse) = Len(ask.sse) + 1 /\ ask'.sse[Len(ask.sse) + 1] = e
        /\ Len(ask.sse) \in Nat
        /\ \A i \in 1..Len(ask.sse) : ask'.sse[i] = ask.sse[i]
    BY <2>1, <2>2, Appends, AskFields
  <2>4. \A f : Truthful(f) => Truthful(f)'
    BY <1>8, <2>1 DEF Truthful, paperVars
  <2>5. \A i \in 1..Len(ask'.sse) : ask'.sse[i].sse \notin {"error", "done"}
    <3>1. \A i \in 1..Len(ask'.sse) : i \in 1..Len(ask.sse) \/ i = Len(ask.sse) + 1
      BY <2>3
    <3>2. \A i \in 1..Len(ask.sse) : ask.sse[i].sse \notin {"error", "done"}
      BY <1>8 DEF StreamSoFar
    <3> QED
      BY <2>2, <2>3, <3>1, <3>2
  <2>6. \A i \in 1..Len(ask'.sse) : Truthful(ask'.sse[i])
    BY <1>8, <2>3 DEF StreamSoFar, e
  <2>7. (\A i \in 1..Len(ask.sse) : Truthful(ask.sse[i]))'
    BY <2>4, <2>6 DEF Truthful
  <2> QED
    BY <2>1, <2>5, <2>7 DEF StreamSoFar, OneLastEvent, AskAt, EarlyPcs, StreamPcs
<1>9. ASSUME NEW last \in {<<Event("done")>>, <<Event("error"), Event("done")>>}, Ends(last),
             ask.pc \in StreamPcs, UNCHANGED <<paperVars, calm>>
      PROVE  StreamSoFar' /\ OneLastEvent'
  <2>1. ask'.pc = "end" /\ ask'.sse = ask.sse \o last /\ ask'.warning = ask.warning
    BY <1>9, AskFields DEF Ends, Sse, QaTypes, Asks
  <2>2. /\ Len(last) \in {1, 2} /\ last[Len(last)] = Event("done")
        /\ Len(last) = 2 => last[1] = Event("error")
        /\ last \in Seq(Events)
    <3>1. CASE last = <<Event("done")>>
      BY <3>1, EventFacts
    <3>2. CASE last = <<Event("error"), Event("done")>>
      BY <3>2, EventFacts
    <3> QED
      BY <1>9, <3>1, <3>2
  <2> DEFINE n == Len(ask.sse)
  <2> DEFINE m == Len(ask'.sse)
  <2>3. /\ m = n + Len(last) /\ n \in Nat /\ m \in Nat
        /\ ask'.sse \in Seq(Events)
        /\ \A i \in 1..Len(ask.sse) : ask'.sse[i] = ask.sse[i]
        /\ \A i \in 1..Len(last) : ask'.sse[Len(ask.sse) + i] = last[i]
    BY <2>1, <2>2, Concats, AskFields
  <2>8. \/ m = n + 1 /\ ask'.sse[m] = Event("done")
        \/ m = n + 2 /\ ask'.sse[m] = Event("done") /\ ask'.sse[m - 1] = Event("error")
    <3>1. CASE Len(last) = 1
      BY <2>2, <2>3, <3>1
    <3>2. CASE Len(last) = 2
      <4>1. ask'.sse[n + 1] = last[1] /\ ask'.sse[n + 2] = last[2] /\ m = n + 2
        BY <2>3, <3>2
      <4> QED
        BY <2>2, <2>3, <3>2, <4>1
    <3> QED
      BY <2>2, <3>1, <3>2
  <2> HIDE DEF n, m
  <2>4. \A i \in 1..m :
           \/ i \in 1..n /\ ask'.sse[i] = ask.sse[i]
           \/ i = m /\ ask'.sse[i] = Event("done")
           \/ i = m - 1 /\ ask'.sse[i] = Event("error")
    <3> SUFFICES ASSUME NEW i \in 1..m, i \notin 1..n
                 PROVE  \/ i = m /\ ask'.sse[i] = Event("done")
                        \/ i = m - 1 /\ ask'.sse[i] = Event("error")
      BY <2>3 DEF n
    <3>1. i = m \/ (m = n + 2 /\ i = m - 1)
      BY <2>3, <2>8
    <3> QED
      BY <2>3, <2>8, <3>1
  <2>5. Event("done").sse = "done" /\ Event("error").sse = "error"
    BY DEF Event
  <2>6. (\A i \in 1..Len(ask.sse) : Truthful(ask.sse[i]))'
    <3>1. \A f : Truthful(f) => Truthful(f)'
      BY <1>9, <2>1 DEF Truthful, paperVars
    <3>2. \A i \in 1..Len(ask'.sse) : Truthful(ask'.sse[i])
      BY <2>4, <2>5 DEF Truthful, StreamSoFar, n, m
    <3> QED
      BY <3>1, <3>2 DEF Truthful
  <2>7. OneLastEvent'
    <3>1. ask'.sse # <<>> /\ ask'.sse[m].sse = "done"
      <4>1. m # 0
        BY <2>3, <2>8
      <4> QED
        BY <2>5, <2>8, <4>1 DEF m
    <3>2. \A i \in 1..(m - 1) :
             ask'.sse[i].sse # "done" /\ (ask'.sse[i].sse = "error" => i = m - 1)
      <4> SUFFICES ASSUME NEW i \in 1..(m - 1)
                   PROVE  ask'.sse[i].sse # "done" /\ (ask'.sse[i].sse = "error" => i = m - 1)
        OBVIOUS
      <4>1. i \in 1..m /\ i # m
        BY <2>3
      <4> QED
        BY <1>9, <2>4, <2>5, <4>1 DEF StreamSoFar, n
    <3> QED
      BY <3>1, <3>2 DEF OneLastEvent, m
  <2> QED
    BY <2>1, <2>6, <2>7 DEF StreamSoFar, EarlyPcs, StreamPcs
<1>10. CASE ReadPaper \/ LoadGraph \/ EndStream
  <2>1. ask.pc \in StreamPcs /\ UNCHANGED <<paperVars, calm>>
    BY <1>10, AskingLeaves DEF Asking, ReadPaper, LoadGraph, EndStream, AskAt, StreamPcs
  <2>2. \/ \E last \in {<<Event("done")>>, <<Event("error"), Event("done")>>} : Ends(last)
        \/ /\ ask'.sse = ask.sse /\ ask'.warning = ask.warning
           /\ ask'.pc \in {"graph", "stream"}
    BY <1>10, AskFields
    DEF ReadPaper, LoadGraph, EndStream, Closing, AskStep, QaTypes, Asks
  <2> QED
    BY <1>4, <1>9, <2>1, <2>2 DEF EarlyPcs, StreamPcs
<1>11. CASE LookUp
  <2>1. PICK found \in BOOLEAN, st \in CiteStates, failed \in BOOLEAN :
           /\ ask' = Cite(ask.look[1], st, failed)
           /\ st = "ready" => found
           /\ st = "hallucinated_id" => st = Miss /\ (found => failed)
           /\ \/ \E e \in lru : e = <<ask.look[2], ask.look[1], found>>
              \/ found = (ask.look[1] = "real" /\ <<ask.look[2], "chunks">> \in rows)
    BY <1>11, LookedUp
  <2>2. ask.pc = "look" /\ UNCHANGED <<paperVars, calm>> /\ ask.look[1] \in Chunks
    BY <1>11, AskingLeaves, AskFields DEF Asking, LookUp, AskAt
  <2>3. found => ask.look[1] = "real"
    BY <2>1, LookTells
  <2>4. calm /\ ~torn /\ ask.look[1] = "real" => found
    BY <2>1, <2>2, LookTells DEF Undisturbed
  <2>5. Truthful(CiteEvent(ask.look[1], st, failed))
    BY <2>1, <2>2, <2>3, <2>4 DEF Truthful, CiteEvent, Miss, Chunks
  <2> QED
    BY <1>8, <2>1, <2>2, <2>5 DEF StreamPcs
<1>12. ASSUME NEW c \in Chunks, CiteChunk(c)
       PROVE  StreamSoFar' /\ OneLastEvent'
  <2>1. ask.pc = "stream" /\ UNCHANGED <<paperVars, calm>>
    BY <1>12, AskingLeaves DEF CiteChunk, AskAt
  <2>2. CASE c = "real" /\ ask' = Cite(c, "ready", FALSE)
    BY <1>8, <2>1, <2>2, MissFacts DEF Truthful, CiteEvent, StreamPcs
  <2>3. CASE served = NoIndex /\ ask' = Cite(c, Miss, FALSE)
    <3>1. Truthful(CiteEvent(c, Miss, FALSE))
      BY <2>1, <2>3, MissFacts DEF Truthful, CiteEvent, Miss, Undisturbed
    <3> QED
      BY <1>8, <2>1, <2>3, <3>1, MissFacts DEF StreamPcs
  <2>4. CASE ask' = [ask EXCEPT !.pc = "look", !.look = <<c, served>>]
    <3>1. ask'.pc = "look" /\ ask'.sse = ask.sse /\ ask'.warning = ask.warning
      BY <2>4 DEF QaTypes, Asks
    <3> QED
      BY <1>4, <2>1, <3>1 DEF EarlyPcs, StreamPcs
  <2> QED
    BY <1>12, <2>2, <2>3, <2>4 DEF CiteChunk
<1> QED
  BY <1>1, <1>2, <1>3, <1>5, <1>6, <1>7, <1>10, <1>11, <1>12 DEF QaNext, Asking

\* Evidence, previews and the end of the stream, beside a reextract, for any
\* number of questions and citations.
THEOREM QaTellsTruth ==
    QaSpec => []EvidenceTold
<1> DEFINE Inv == QaTypes /\ StoreInOrder /\ EvidenceSeen /\ Undisturbed /\ StreamSoFar
                  /\ OneLastEvent
<1>1. QaInit => Inv
  <2> SUFFICES ASSUME QaInit PROVE Inv
    OBVIOUS
  <2>1. Idle \in Asks
    BY DEF Idle, NoAnswer, Asks, Answers, QaPcs, Scales, ServedRuns, Warnings, Chunks
  <2>2. QaTypes
    BY <2>1 DEF QaInit, QaTypes, BeforeServe, ServedRuns, IndexRuns
  <2> QED
    BY <2>2, QaRetrievalAssumption
    DEF QaInit, Idle, NoAnswer, StoreInOrder, EvidenceSeen, Undisturbed, StreamSoFar,
        OneLastEvent, AskAt, EarlyPcs, StreamPcs
<1>2. Inv /\ [QaNext]_qaVars => Inv'
  BY QaTypesStep, StoreStep, SeenStep, UndisturbedStep, StreamStep, QaRetrievalAssumption
<1>3. Inv => EvidenceTold
  <2> SUFFICES ASSUME Inv PROVE NoGhostEvidence /\ NoSilentDegradation /\ PreviewsTellTruth
    BY DEF EvidenceTold
  <2>1. NoGhostEvidence
    BY DEF EvidenceSeen, NoGhostEvidence
  <2>2. NoSilentDegradation
    BY DEF Undisturbed, NoSilentDegradation, AllFound, AskAt
  <2>3. PreviewsTellTruth
    BY DEF StreamSoFar, Truthful, PreviewsTellTruth, Citations
  <2> QED
    BY <2>1, <2>2, <2>3
<1> QED
  BY <1>1, <1>2, <1>3, PTL DEF QaSpec

-----------------------------------------------------------------------------
(* Patrol requests beside a reextract.                                     *)

PatrolPcs == {"rest", "version", "run", "lookup", "load", "analyse", "probe", "query",
              "report", "answered", "refused"}
Reasons == {"none", "QUERY_FAILED", "INDEX_NOT_READY", "UNAVAILABLE"}
Numbers == [Papers -> Nat]
Tours ==
    [pc : PatrolPcs, mode : Modes, version : Numbers, run : Numbers, graph : Numbers,
     got : Numbers, todo : SUBSET Papers, ready : SUBSET Papers,
     missing : SUBSET Papers, blamed : SUBSET Papers, reason : Reasons, hit : BOOLEAN]

PatrolTypes ==
    /\ version \in Numbers /\ graph \in Numbers /\ run \in Numbers
    /\ purged \subseteq Nat
    /\ tour \in [Clients -> Tours]
    /\ \A e \in cache : e[2] \in Tours /\ e[1] = Key(e[2])

\* A graph and an index are of the current version or missing; a version whose
\* evidence is gone, or that is no longer current, is being or has been wiped.
ReextractInOrder ==
    /\ \A p \in Papers : /\ version[p] >= 1
                         /\ graph[p] \in {Nothing, version[p]}
                         /\ run[p] \in {Nothing, version[p]}
    /\ stage \in {"unlinked", "bumped"} => graph["moving"] = Nothing
    /\ stage # "serving" => run["moving"] = Nothing
    /\ run["still"] # Nothing /\ <<"still", run["still"]>> \in evidence
    /\ \/ run["moving"] = Nothing
       \/ <<"moving", run["moving"]>> \in evidence
       \/ version["moving"] \in purged
    /\ stage \in {"unset", "unlinked"} => version["moving"] \in purged
    /\ 1..(version["moving"] - 1) \subseteq purged

\* The version that a report names is wiped.
Gone(t, p) == p = "moving" /\ t.version[p] \in purged

\* The versions that a request has read, and graphs that are not older.
Dated(t) == \A p \in Papers : 1 <= t.version[p] /\ t.version[p] <= version[p]
Young(t) == \A p \in Papers : t.graph[p] >= t.version[p]

\* A report that lacks evidence says so.
Honest(t) ==
    /\ t.reason = "none" <=> t.blamed = {}
    /\ t.reason = "none" /\ t.ready \cup t.missing # {} => t.ready = Papers
    /\ t.missing # {} => t.reason \in {"INDEX_NOT_READY", "UNAVAILABLE"}

\* What was asked about these papers was found, or a wipe took it away, or the
\* report says that it is missing.
Answering(t, papers) ==
    t.reason = "none" => \A p \in papers : t.got[p] # Nothing \/ Gone(t, p)

\* A finished report.
Sound(t) == Dated(t) /\ Young(t) /\ Honest(t) /\ Answering(t, t.ready)

\* A request that has not asked for evidence.
Blank(t) == t.ready = {} /\ t.missing = {} /\ t.blamed = {} /\ t.reason = "none"

\* A request on its way, by how far it has come.
Fingerprinting(t) ==
    /\ Blank(t) /\ t.graph = Unread
    /\ \A p \in Papers : t.version[p] <= version[p]
    /\ t.pc = "run" => \A p \in t.todo : t.version[p] >= 1
    /\ t.pc = "lookup" => Dated(t)

Loading(t) ==
    /\ Blank(t) /\ Dated(t)
    /\ \A p \in Papers :
          t.graph[p] >= t.version[p] \/ (t.pc = "load" /\ p \in t.todo)

\* A query about a paper that was ready finds something, or a wipe has begun.
Backed(t) ==
    \A p \in t.ready :
        (run[p] # Nothing /\ <<p, run[p]>> \in evidence) \/ Gone(t, p)

Probing(t) ==
    /\ Dated(t) /\ Young(t) /\ Backed(t)
    /\ t.blamed = {} /\ t.reason \in {"none", "UNAVAILABLE"}
    /\ t.reason # "none" => t.missing # {}
    /\ t.ready \cup t.missing \cup t.todo = Papers

Querying(t) ==
    /\ Dated(t) /\ Young(t) /\ Honest(t) /\ Backed(t)
    /\ t.todo \subseteq t.ready /\ Answering(t, t.ready \ t.todo)

OnCourse(t) ==
    /\ t.pc \in {"version", "run", "lookup"} => Fingerprinting(t)
    /\ t.pc \in {"load", "analyse"} => Loading(t)
    /\ t.pc = "probe" => Probing(t)
    /\ t.pc = "query" => Querying(t)
    /\ t.pc \in {"report", "answered"} => Sound(t)
    /\ t.hit => t.pc = "answered" /\ t.reason = "none"

ReportsSound ==
    /\ \A c \in Clients : OnCourse(tour[c])
    /\ \A e \in cache : Sound(e[2]) /\ e[2].reason = "none"


\* The pieces of a request.
LEMMA TourFacts ==
    ASSUME PatrolTypes, NEW c \in Clients
    PROVE  tour[c] \in Tours
BY DEF PatrolTypes

LEMMA NumbersExcept ==
    ASSUME NEW f \in Numbers, NEW p \in Papers
    PROVE  f[p] \in Nat /\ \A x \in Nat : [f EXCEPT ![p] = x] \in Numbers
BY DEF Numbers

\* A request whose fields change one at a time stays a request.
LEMMA TourExcept ==
    ASSUME NEW t \in Tours
    PROVE  /\ \A x \in PatrolPcs : [t EXCEPT !.pc = x] \in Tours
           /\ \A f \in Numbers : [t EXCEPT !.version = f] \in Tours
           /\ \A f \in Numbers : [t EXCEPT !.run = f] \in Tours
           /\ \A f \in Numbers : [t EXCEPT !.graph = f] \in Tours
           /\ \A f \in Numbers : [t EXCEPT !.got = f] \in Tours
           /\ \A S \in SUBSET Papers : [t EXCEPT !.todo = S] \in Tours
           /\ \A S \in SUBSET Papers : [t EXCEPT !.ready = S] \in Tours
           /\ \A S \in SUBSET Papers : [t EXCEPT !.missing = S] \in Tours
           /\ \A S \in SUBSET Papers : [t EXCEPT !.blamed = S] \in Tours
           /\ \A r \in Reasons : [t EXCEPT !.reason = r] \in Tours
           /\ \A b \in BOOLEAN : [t EXCEPT !.hit = b] \in Tours
BY DEF Tours

LEMMA TourPcs ==
    /\ "rest" \in PatrolPcs /\ "version" \in PatrolPcs /\ "run" \in PatrolPcs
    /\ "lookup" \in PatrolPcs /\ "load" \in PatrolPcs /\ "analyse" \in PatrolPcs
    /\ "probe" \in PatrolPcs /\ "query" \in PatrolPcs /\ "report" \in PatrolPcs
    /\ "answered" \in PatrolPcs /\ "refused" \in PatrolPcs
BY DEF PatrolPcs

Reextract == Purge \/ Unset \/ Unlink \/ Bump \/ Save \/ Index

\* The types hold under every step.
LEMMA PatrolTypesStep ==
    ASSUME PatrolAssumption, PatrolTypes, [PatrolNext]_patrolVars
    PROVE  PatrolTypes'
<1>1. CASE Reextract
  <2>1. "moving" \in Papers /\ 0 \in Nat
    BY DEF Papers
  <2>2. \A n \in Nat : n + 1 \in Nat
    OBVIOUS
  <2> QED
    BY <1>1, <2>1, <2>2, NumbersExcept
    DEF Nothing, Reextract, Purge, Unset, Unlink, Bump, Save, Index, Wipe, PatrolTypes
<1>2. ASSUME NEW c \in Clients, NEW t \in Tours, Reading(c, t)
      PROVE  PatrolTypes'
  BY <1>2 DEF Reading, Goes, rowVars, PatrolTypes
<1>3. Resting \in Tours /\ Unread \in Numbers
  BY DEF Numbers, Papers, Modes, Nothing, Resting, Unread, Tours, PatrolPcs, Reasons
<1>4. ASSUME NEW c \in Clients, NEW m \in Modes, Request(c, m)
      PROVE  PatrolTypes'
  BY <1>2, <1>3, <1>4 DEF Request, Tours, PatrolPcs
<1>5. ASSUME NEW c \in Clients, NEW p \in Papers,
             ReadVersion(c, p) \/ ReadRun(c, p) \/ LoadPaper(c, p)
      PROVE  PatrolTypes'
  <2>1. CASE ReadVersion(c, p)
    <3>1. [tour[c].version EXCEPT ![p] = version[p]] \in Numbers
      BY TourFacts, NumbersExcept DEF Tours, PatrolTypes
    <3>2. [tour[c] EXCEPT !.pc = "run", !.version[p] = version[p], !.todo = {p}] \in Tours
      <4> DEFINE t == [tour[c] EXCEPT !.pc = "run"]
      <4>1. t \in Tours
        BY TourFacts, TourExcept, TourPcs
      <4>2. t.version = tour[c].version
        BY TourFacts DEF Tours
      <4> HIDE DEF t
      <4>3. [t EXCEPT !.version[p] = version[p]] \in Tours /\ {p} \in SUBSET Papers
        BY <3>1, <4>1, <4>2, TourExcept
      <4>4. [t EXCEPT !.version[p] = version[p], !.todo = {p}] \in Tours
        BY <4>3, TourExcept
      <4> QED
        BY <4>4 DEF t
    <3> QED
      BY <1>2, <2>1, <3>2 DEF ReadVersion
  <2>2. CASE ReadRun(c, p)
    <3> DEFINE read == [tour[c].version EXCEPT ![p] = 1]
    <3> DEFINE rest == {q \in Papers : read[q] = Nothing}
    <3>1. [tour[c].run EXCEPT ![p] = run[p]] \in Numbers
      BY TourFacts, NumbersExcept DEF Tours, PatrolTypes
    <3>2. [tour[c] EXCEPT !.run[p] = run[p], !.todo = rest,
                  !.pc = IF rest = {} THEN "lookup" ELSE "version"] \in Tours
      <4>1. rest \in SUBSET Papers /\ (IF rest = {} THEN "lookup" ELSE "version") \in PatrolPcs
        BY TourPcs
      <4>2. [tour[c] EXCEPT !.run[p] = run[p]] \in Tours
        BY <3>1, TourFacts, TourExcept
      <4> HIDE DEF rest
      <4>3. [tour[c] EXCEPT !.run[p] = run[p], !.todo = rest] \in Tours
        BY <4>1, <4>2, TourExcept
      <4> QED
        BY <4>1, <4>3, TourExcept
    <3> QED
      BY <1>2, <2>2, <3>2 DEF ReadRun
  <2>3. CASE LoadPaper(c, p)
    <3> DEFINE rest == tour[c].todo \ {p}
    <3>1. [tour[c].graph EXCEPT ![p] = graph[p]] \in Numbers /\ rest \in SUBSET Papers
      BY TourFacts, NumbersExcept DEF Tours, PatrolTypes
    <3>2. [tour[c] EXCEPT !.graph[p] = graph[p], !.todo = rest,
                          !.pc = IF rest = {} THEN "analyse" ELSE "load"] \in Tours
      BY <3>1, TourFacts, TourExcept, TourPcs
    <3>3. [tour[c] EXCEPT !.pc = "refused"] \in Tours
      BY TourFacts, TourExcept, TourPcs
    <3> QED
      BY <1>2, <2>3, <3>2, <3>3 DEF LoadPaper
  <2> QED
    BY <1>5, <2>1, <2>2, <2>3
<1>6. ASSUME NEW c \in Clients, Lookup(c) \/ Analyse(c) \/ Leaves(c)
      PROVE  PatrolTypes'
  <2>1. CASE Lookup(c)
    <3>1. ASSUME NEW e \in cache
          PROVE  [e[2] EXCEPT !.pc = "answered", !.hit = TRUE,
                      !.version = tour[c].version, !.run = tour[c].run] \in Tours
      <4>1. e[2] \in Tours
        BY <3>1 DEF PatrolTypes
      <4>2. tour[c].version \in Numbers /\ tour[c].run \in Numbers
        BY TourFacts DEF Tours
      <4> QED
        BY <4>1, <4>2, TourExcept, TourPcs
    <3>2. [tour[c] EXCEPT !.pc = "load", !.todo = Papers] \in Tours
      BY TourFacts, TourExcept, TourPcs
    <3>3. Entry(tour[c]) # {} => (CHOOSE e \in Entry(tour[c]) : TRUE) \in cache
      BY DEF Entry
    <3> QED
      BY <1>2, <2>1, <3>1, <3>2, <3>3 DEF Lookup
  <2>2. CASE Analyse(c)
    BY <1>2, <2>2, TourFacts, TourExcept, TourPcs DEF Analyse
  <2> QED
    BY <1>2, <1>3, <1>6, <2>1, <2>2 DEF Leaves
<1>7. ASSUME NEW c \in Clients, NEW p \in Papers, NEW o \in {"ok", "down", "error"},
             Probe(c, p, o)
      PROVE  PatrolTypes'
  <2> DEFINE found == o = "ok" /\ run[p] # Nothing
  <2>1. [tour[c] EXCEPT !.todo = @ \ {p},
                !.ready = IF found THEN @ \cup {p} ELSE @,
                !.missing = IF found THEN @ ELSE @ \cup {p},
                !.reason = IF o = "down" THEN "UNAVAILABLE" ELSE @] \in Tours
    <3>1. /\ tour[c].todo \ {p} \in SUBSET Papers
          /\ (IF found THEN tour[c].ready \cup {p} ELSE tour[c].ready) \in SUBSET Papers
          /\ (IF found THEN tour[c].missing ELSE tour[c].missing \cup {p}) \in SUBSET Papers
          /\ (IF o = "down" THEN "UNAVAILABLE" ELSE tour[c].reason) \in Reasons
      BY TourFacts DEF Tours, Reasons
    <3> QED
      BY <3>1, TourFacts, TourExcept
  <2> QED
    BY <1>2, <1>7, <2>1 DEF Probe
<1>8. ASSUME NEW c \in Clients, Probed(c)
      PROVE  PatrolTypes'
  <2> DEFINE reason == IF tour[c].reason = "UNAVAILABLE" \/ tour[c].missing = {}
                       THEN tour[c].reason ELSE "INDEX_NOT_READY"
  <2> DEFINE sought == IF tour[c].reason = "UNAVAILABLE" THEN {} ELSE tour[c].ready
  <2>1. /\ reason \in Reasons /\ sought \in SUBSET Papers
        /\ tour[c].missing \in SUBSET Papers
    BY TourFacts DEF Tours, Reasons
  <2>2. [tour[c] EXCEPT !.reason = reason, !.blamed = tour[c].missing, !.todo = sought,
                        !.pc = IF sought = {} THEN "report" ELSE "query"] \in Tours
    <3> HIDE DEF reason, sought
    <3> QED
      BY <2>1, TourFacts, TourExcept, TourPcs
  <2> QED
    BY <1>2, <1>8, <2>2 DEF Probed
<1>9. ASSUME NEW c \in Clients, NEW p \in Papers, QueryChunks(c, p)
      PROVE  PatrolTypes'
  <2> DEFINE t == [tour[c] EXCEPT !.todo = @ \ {p},
                      !.pc = IF tour[c].todo = {p} THEN "report" ELSE "query"]
  <2>1. t \in Tours
    <3>1. tour[c].todo \ {p} \in SUBSET Papers
      BY TourFacts DEF Tours
    <3> QED
      BY <3>1, TourFacts, TourExcept, TourPcs
  <2> HIDE DEF t
  <2>2. [t EXCEPT !.got[p] = run[p]] \in Tours /\ [t EXCEPT !.got[p] = Nothing] \in Tours
    <3>1. run[p] \in Nat /\ 0 \in Nat /\ t.got \in Numbers
      BY <2>1, NumbersExcept DEF Tours, PatrolTypes
    <3>2. [t.got EXCEPT ![p] = run[p]] \in Numbers /\ [t.got EXCEPT ![p] = 0] \in Numbers
      BY <3>1, NumbersExcept
    <3> QED
      BY <2>1, <3>2, TourExcept DEF Nothing
  <2>3. \A r \in {"QUERY_FAILED", "UNAVAILABLE"} : Blame(t, p, r) \in Tours
    <3>1. /\ t.blamed \cup {p} \in SUBSET Papers
          /\ \A r \in {"QUERY_FAILED", "UNAVAILABLE"} : Merge(t.reason, r) \in Reasons
      BY <2>1 DEF Tours, Merge, Reasons
    <3> QED
      BY <2>1, <3>1, TourExcept DEF Blame
  <2> USE DEF t
  <2> QED
    BY <1>2, <1>9, <2>2, <2>3 DEF QueryChunks
<1>10. ASSUME NEW c \in Clients, Answer(c)
       PROVE  PatrolTypes'
  <2>1. /\ [tour[c] EXCEPT !.pc = "answered"] \in Tours
        /\ [tour[c] EXCEPT !.pc = "rest"] \in Tours
        /\ Key([tour[c] EXCEPT !.pc = "rest"]) = Key(tour[c])
    <3>1. /\ [tour[c] EXCEPT !.pc = "answered"] \in Tours
          /\ [tour[c] EXCEPT !.pc = "rest"] \in Tours
      BY TourFacts, TourExcept, TourPcs
    <3>2. Key([tour[c] EXCEPT !.pc = "rest"]) = Key(tour[c])
      BY TourFacts DEF Tours, Key
    <3> QED
      BY <3>1, <3>2
  <2> QED
    BY <1>10, <2>1 DEF Answer, Goes, rowVars, PatrolTypes
<1>11. CASE UNCHANGED patrolVars \/ \E e \in cache : Forget(e)
  BY <1>11 DEF patrolVars, Forget, rowVars, PatrolTypes
<1> QED
  BY <1>1, <1>4, <1>5, <1>6, <1>7, <1>8, <1>9, <1>10, <1>11 DEF PatrolNext, Reextract

\* A reextract step keeps the order, wipes only the moving paper, and a version
\* never falls.
LEMMA ReextractStep ==
    ASSUME PatrolAssumption, PatrolTypes, ReextractInOrder, Reextract
    PROVE  /\ ReextractInOrder'
           /\ UNCHANGED <<tour, cache>> /\ purged \subseteq purged'
           /\ \A p \in Papers : /\ version[p] <= version'[p]
                                /\ p = "still" => run'[p] = run[p]
           /\ \A e \in evidence : e \in evidence' \/ e[1] = "moving"
<1> USE DEF Papers, Nothing, Numbers
<1>1. CASE Purge
  BY <1>1 DEF Purge, Wipe, ReextractInOrder, PatrolTypes
<1>2. CASE Unset
  BY <1>2 DEF Unset, Wipe, ReextractInOrder, PatrolTypes
<1>3. CASE Unlink \/ Save
  BY <1>3 DEF Unlink, Save, Wipe, ReextractInOrder, PatrolTypes
<1>4. CASE Bump
  BY <1>4 DEF Bump, Wipe, ReextractInOrder, PatrolTypes
<1>5. CASE Index
  BY <1>5 DEF Index, Wipe, ReextractInOrder, PatrolTypes
<1> QED
  BY <1>1, <1>2, <1>3, <1>4, <1>5 DEF Reextract

\* What a reextract does under its feet leaves a request on course.
LEMMA CourseKept ==
    ASSUME PatrolAssumption, PatrolTypes, ReextractInOrder, Reextract,
           NEW t \in Tours, OnCourse(t)
    PROVE  OnCourse(t)'
<1>1. /\ ReextractInOrder' /\ purged \subseteq purged' /\ version' \in Numbers
      /\ \A p \in Papers : version[p] <= version'[p]
  BY ReextractStep, PatrolTypesStep DEF PatrolNext, Reextract, PatrolTypes
<1>2. Dated(t) => Dated(t)'
  BY <1>1 DEF Dated, Tours, PatrolTypes, Numbers
<1>3. \A p \in Papers : Gone(t, p) => Gone(t, p)'
  BY <1>1 DEF Gone
<1>4. Backed(t) /\ Dated(t) => Backed(t)'
  <2> SUFFICES ASSUME Backed(t), Dated(t), NEW p \in t.ready,
                      ~(run'[p] # Nothing /\ <<p, run'[p]>> \in evidence')
               PROVE  Gone(t, p)'
    BY DEF Backed
  <2>1. p \in Papers
    BY DEF Tours
  <2>2. p = "moving"
    BY <1>1, <2>1 DEF ReextractInOrder, Papers
  <2>3. version'["moving"] \in purged' \/ Gone(t, p)
    BY <2>1, <2>2
    DEF Backed, Reextract, Purge, Unset, Unlink, Bump, Save, Index, Wipe, ReextractInOrder,
        Papers, Numbers, Nothing, PatrolTypes
  <2>4. t.version["moving"] \in 1..version'["moving"]
    BY <1>1, <2>1, <2>2 DEF Dated, Tours, Numbers, PatrolTypes
  <2>5. 1..(version'["moving"] - 1) \subseteq purged' /\ version'["moving"] \in Nat
    BY <1>1, <2>1, <2>2 DEF ReextractInOrder, Numbers
  <2> QED
    BY <1>3, <2>1, <2>2, <2>3, <2>4, <2>5 DEF Gone
<1>5. \A s \in SUBSET Papers : Answering(t, s) => Answering(t, s)'
  BY <1>3 DEF Answering
<1>6. Fingerprinting(t) => Fingerprinting(t)'
  BY <1>1, <1>2 DEF Fingerprinting, Blank, Tours, PatrolTypes, Numbers
<1>7. Loading(t) => Loading(t)'
  BY <1>2 DEF Loading, Blank
<1>8. (Probing(t) => Probing(t)') /\ (Querying(t) => Querying(t)') /\ (Sound(t) => Sound(t)')
  BY <1>2, <1>4, <1>5 DEF Probing, Querying, Sound, Young, Honest, Tours
<1> QED
  BY <1>6, <1>7, <1>8 DEF OnCourse

\* A step of a client: whoever keeps the course keeps the invariant.
LEMMA ClientStep ==
    ASSUME PatrolTypes, ReextractInOrder, ReportsSound, UNCHANGED rowVars,
           NEW c \in Clients, NEW t, OnCourse(t), Goes(c, t),
           \A e \in cache' : e \in cache \/ (Sound(e[2]) /\ e[2].reason = "none")
    PROVE  ReextractInOrder' /\ ReportsSound'
<1>1. \A d \in Clients : OnCourse(tour'[d])
  BY DEF Goes, PatrolTypes, ReportsSound
<1>2. \A u : (OnCourse(u) => OnCourse(u)') /\ (Sound(u) => Sound(u)')
  BY DEF rowVars, OnCourse, Fingerprinting, Loading, Probing, Querying, Sound, Dated, Young,
         Honest, Answering, Backed, Gone, Blank
<1>3. ReextractInOrder'
  BY DEF rowVars, ReextractInOrder
<1> QED
  BY <1>1, <1>2, <1>3 DEF ReportsSound

LEMMA ReadingStep ==
    ASSUME PatrolTypes, ReextractInOrder, ReportsSound,
           NEW c \in Clients, NEW t, OnCourse(t), Reading(c, t)
    PROVE  ReextractInOrder' /\ ReportsSound'
BY ClientStep DEF Reading

\* The fingerprint is read paper by paper, the version before the run.
LEMMA FingerprintStep ==
    ASSUME PatrolTypes, ReextractInOrder, ReportsSound, NEW c \in Clients,
           \/ \E m \in Modes : Request(c, m)
           \/ \E p \in Papers : ReadVersion(c, p) \/ ReadRun(c, p)
    PROVE  ReextractInOrder' /\ ReportsSound'
<1>1. tour[c] \in Tours /\ OnCourse(tour[c])
  BY TourFacts DEF ReportsSound
<1>2. ASSUME NEW m \in Modes, Request(c, m)
      PROVE  OnCourse([Resting EXCEPT !.pc = "version", !.mode = m, !.todo = Papers])
  BY DEF OnCourse, Resting, Fingerprinting, Blank, Unread, Nothing, ReextractInOrder,
         PatrolTypes, Numbers
<1>3. ASSUME NEW p \in Papers, ReadVersion(c, p)
      PROVE  OnCourse([tour[c] EXCEPT !.pc = "run", !.version[p] = version[p], !.todo = {p}])
  <2>1. Fingerprinting(tour[c]) /\ ~tour[c].hit
    BY <1>1, <1>3 DEF ReadVersion, At, OnCourse
  <2>2. 1 <= version[p] /\ version[p] \in Nat /\ tour[c].version \in Numbers
    BY <1>1 DEF ReextractInOrder, PatrolTypes, Numbers, Tours
  <2>3. [tour[c].version EXCEPT ![p] = version[p]][p] = version[p]
    BY <2>2 DEF Numbers
  <2>4. \A q \in Papers :
           [tour[c].version EXCEPT ![p] = version[p]][q] <= version[q]
    BY <2>1, <2>2 DEF Fingerprinting, Numbers
  <2> QED
    <3> DEFINE t == [tour[c] EXCEPT !.pc = "run", !.version[p] = version[p], !.todo = {p}]
    <3>1. /\ t.pc = "run" /\ t.todo = {p} /\ ~t.hit /\ Blank(t) /\ t.graph = Unread
          /\ t.version = [tour[c].version EXCEPT ![p] = version[p]]
      BY <1>1, <2>1 DEF Fingerprinting, Blank, Tours
    <3> HIDE DEF t
    <3>2. OnCourse(t)
      BY <2>2, <2>3, <2>4, <3>1 DEF OnCourse, Fingerprinting
    <3> QED
      BY <3>2 DEF t
<1>4. ASSUME NEW p \in Papers, NEW rest \in SUBSET Papers, At(c, "run"), p \in tour[c].todo,
             rest = {q \in Papers : [tour[c].version EXCEPT ![p] = 1][q] = Nothing}
      PROVE  OnCourse([tour[c] EXCEPT !.run[p] = run[p], !.todo = rest,
                        !.pc = IF rest = {} THEN "lookup" ELSE "version"])
  <2>1. rest = {} => Dated(tour[c])
    BY <1>1, <1>4 DEF At, OnCourse, Fingerprinting, Dated, Tours, Numbers, Nothing
  <2> QED
    BY <1>1, <1>4, <2>1 DEF At, OnCourse, Fingerprinting, Blank, Dated, Tours, Numbers
<1> QED
  BY <1>2, <1>3, <1>4, ReadingStep DEF Request, ReadVersion, ReadRun

\* A report comes from the cache, or the graphs are loaded and analysed.
LEMMA AnalysisStep ==
    ASSUME PatrolTypes, ReextractInOrder, ReportsSound, NEW c \in Clients,
           Lookup(c) \/ Analyse(c) \/ Leaves(c) \/ \E p \in Papers : LoadPaper(c, p)
    PROVE  ReextractInOrder' /\ ReportsSound'
<1>1. tour[c] \in Tours /\ OnCourse(tour[c])
  BY TourFacts DEF ReportsSound
<1>2. CASE Lookup(c)
  <2>1. ASSUME NEW e \in Entry(tour[c])
        PROVE  OnCourse([e[2] EXCEPT !.pc = "answered", !.hit = TRUE,
                           !.version = tour[c].version, !.run = tour[c].run])
    <3>1. e[2] \in Tours /\ Key(e[2]) = Key(tour[c]) /\ Sound(e[2]) /\ e[2].reason = "none"
      BY DEF Entry, PatrolTypes, ReportsSound
    <3>2. e[2].version = tour[c].version
      BY <3>1 DEF Key
    <3> QED
      BY <3>1, <3>2 DEF OnCourse, Sound, Dated, Young, Honest, Answering, Gone, Tours
  <2>2. At(c, "lookup") => OnCourse([tour[c] EXCEPT !.pc = "load", !.todo = Papers])
    BY <1>1 DEF At, OnCourse, Fingerprinting, Loading, Blank, Dated, Tours
  <2>3. Entry(tour[c]) # {} => (CHOOSE e \in Entry(tour[c]) : TRUE) \in Entry(tour[c])
    OBVIOUS
  <2> QED
    BY <1>2, <2>1, <2>2, <2>3, ReadingStep DEF Lookup
<1>3. CASE Analyse(c)
  <2>1. Young(tour[c]) /\ Dated(tour[c]) /\ Blank(tour[c]) /\ ~tour[c].hit
    <3>1. tour[c].pc = "analyse"
      BY <1>3 DEF Analyse, At
    <3> QED
      BY <1>1, <3>1 DEF OnCourse, Loading, Young
  <2>2. /\ OnCourse([tour[c] EXCEPT !.pc = "report", !.ready = {}])
        /\ OnCourse([tour[c] EXCEPT !.pc = "probe", !.todo = Papers])
        /\ OnCourse([tour[c] EXCEPT !.pc = "refused"])
    BY <1>1, <2>1
    DEF OnCourse, Sound, Dated, Young, Honest, Answering, Gone, Blank, Probing, Backed, Tours
  <2> QED
    BY <1>3, <2>2, ReadingStep DEF Analyse
<1>4. CASE Leaves(c)
  <2>1. OnCourse(Resting)
    BY DEF OnCourse, Resting
  <2> QED
    BY <1>4, <2>1, ReadingStep DEF Leaves
<1>5. ASSUME NEW p \in Papers, LoadPaper(c, p)
      PROVE  ReextractInOrder' /\ ReportsSound'
  <2> DEFINE rest == tour[c].todo \ {p}
  <2>1. Blank(tour[c]) /\ Dated(tour[c]) /\ ~tour[c].hit /\ tour[c].pc = "load"
    BY <1>1, <1>5 DEF LoadPaper, At, OnCourse, Loading
  <2>2. OnCourse([tour[c] EXCEPT !.pc = "refused"])
    BY <1>1, <2>1 DEF OnCourse, Tours
  <2>3. graph[p] # Nothing => graph[p] >= tour[c].version[p]
    BY <1>1, <2>1 DEF Dated, ReextractInOrder, Tours, Numbers, PatrolTypes
  <2>4. ASSUME graph[p] # Nothing
        PROVE  OnCourse([tour[c] EXCEPT !.graph[p] = graph[p], !.todo = rest,
                             !.pc = IF rest = {} THEN "analyse" ELSE "load"])
    BY <1>1, <2>1, <2>3, <2>4 DEF OnCourse, Loading, Blank, Dated, Tours, Numbers
  <2> QED
    BY <1>5, <2>2, <2>4, ReadingStep DEF LoadPaper
<1> QED
  BY <1>2, <1>3, <1>4, <1>5

\* The worse of two reasons is named.
LEMMA MergeFacts ==
    ASSUME NEW old \in Reasons, NEW r \in {"QUERY_FAILED", "UNAVAILABLE"}
    PROVE  /\ Merge(old, r) # "none"
           /\ old \in {"INDEX_NOT_READY", "UNAVAILABLE"} =>
                 Merge(old, r) \in {"INDEX_NOT_READY", "UNAVAILABLE"}
<1>1. CASE old = "none" \/ old = "QUERY_FAILED"
  BY <1>1 DEF Merge, Priority
<1>2. CASE old = "INDEX_NOT_READY"
  BY <1>2 DEF Merge, Priority
<1>3. CASE old = "UNAVAILABLE"
  BY <1>3 DEF Merge, Priority
<1> QED
  BY <1>1, <1>2, <1>3 DEF Reasons

\* The evidence is asked for, paper by paper, once every paper has been probed.
LEMMA EvidenceStep ==
    ASSUME PatrolTypes, ReextractInOrder, ReportsSound, NEW c \in Clients,
           \/ \E p \in Papers, o \in {"ok", "down", "error"} : Probe(c, p, o)
           \/ Probed(c)
           \/ \E p \in Papers : QueryChunks(c, p)
    PROVE  ReextractInOrder' /\ ReportsSound'
<1>1. tour[c] \in Tours /\ OnCourse(tour[c])
  BY TourFacts DEF ReportsSound
<1>2. ASSUME NEW p \in Papers, NEW o \in {"ok", "down", "error"}, Probe(c, p, o)
      PROVE  ReextractInOrder' /\ ReportsSound'
  <2> DEFINE found == o = "ok" /\ run[p] # Nothing
  <2> DEFINE t == [tour[c] EXCEPT !.todo = @ \ {p},
                      !.ready = IF found THEN @ \cup {p} ELSE @,
                      !.missing = IF found THEN @ ELSE @ \cup {p},
                      !.reason = IF o = "down" THEN "UNAVAILABLE" ELSE @]
  <2>1. Probing(tour[c]) /\ ~tour[c].hit /\ tour[c].pc = "probe"
    BY <1>1, <1>2 DEF Probe, At, OnCourse
  <2>2. found => (run[p] # Nothing /\ <<p, run[p]>> \in evidence) \/ Gone(tour[c], p)
    <3>1. p = "still" \/ p = "moving"
      BY DEF Papers
    <3>2. Dated(tour[c]) /\ version["moving"] \in Nat /\ tour[c].version["moving"] \in Nat
      BY <1>1, <2>1 DEF Probing, Tours, Numbers, Papers, PatrolTypes
    <3> QED
      BY <3>1, <3>2 DEF ReextractInOrder, Gone, Dated, Papers
  <2>3. Probing(t)
    BY <1>1, <2>1, <2>2 DEF Probing, Dated, Young, Backed, Gone, Tours
  <2>4. OnCourse(t) /\ Reading(c, t)
    BY <1>1, <1>2, <2>1, <2>3 DEF OnCourse, Tours, Probe
  <2> QED
    BY <2>4, ReadingStep
<1>3. CASE Probed(c)
  <2> DEFINE down == tour[c].reason = "UNAVAILABLE"
  <2> DEFINE reason == IF down \/ tour[c].missing = {} THEN tour[c].reason
                       ELSE "INDEX_NOT_READY"
  <2> DEFINE asks == IF down THEN {} ELSE tour[c].ready
  <2> DEFINE t == [tour[c] EXCEPT !.reason = reason, !.blamed = tour[c].missing, !.todo = asks,
                      !.pc = IF asks = {} THEN "report" ELSE "query"]
  <2>1. Probing(tour[c]) /\ ~tour[c].hit /\ tour[c].todo = {}
    BY <1>1, <1>3 DEF Probed, At, OnCourse
  <2>2. Dated(t) /\ Young(t) /\ Backed(t)
    BY <1>1, <2>1 DEF Probing, Dated, Young, Backed, Gone, Tours
  <2>3. Honest(t)
    BY <1>1, <2>1 DEF Probing, Honest, Tours
  <2>4. Answering(t, {}) /\ (asks = {} /\ reason = "none" => t.ready = {})
    BY <1>1, <2>1 DEF Probing, Answering, Tours
  <2>5. OnCourse(t) /\ Reading(c, t)
    BY <1>1, <1>3, <2>1, <2>2, <2>3, <2>4
    DEF OnCourse, Querying, Sound, Answering, Tours, Probed
  <2> QED
    BY <2>5, ReadingStep
<1>4. ASSUME NEW p \in Papers, QueryChunks(c, p)
      PROVE  ReextractInOrder' /\ ReportsSound'
  <2> DEFINE t == [tour[c] EXCEPT !.todo = @ \ {p},
                      !.pc = IF tour[c].todo = {p} THEN "report" ELSE "query"]
  <2> DEFINE hits == run[p] # Nothing /\ <<p, run[p]>> \in evidence
  <2> DEFINE found == IF hits THEN run[p] ELSE Nothing
  <2>1. Querying(tour[c]) /\ ~tour[c].hit /\ p \in tour[c].todo
    BY <1>1, <1>4 DEF QueryChunks, At, OnCourse
  <2>2. /\ t \in [pc : {"report", "query"}, todo : SUBSET Papers, ready : SUBSET Papers,
                  missing : SUBSET Papers, blamed : SUBSET Papers, reason : Reasons,
                  version : Numbers, graph : Numbers, got : Numbers, run : Numbers,
                  mode : Modes, hit : BOOLEAN]
        /\ Dated(t) /\ Young(t) /\ Honest(t) /\ Backed(t) /\ ~t.hit
        /\ t.todo \subseteq t.ready /\ (t.pc = "report" => t.todo = {})
        /\ Answering(t, t.ready \ (t.todo \cup {p}))
    BY <1>1, <2>1
    DEF Querying, Dated, Young, Honest, Backed, Gone, Answering, Tours
  <2>3. p \in t.ready /\ (found # Nothing \/ Gone(t, p))
    BY <1>1, <2>1, <2>2 DEF Querying, Backed, Tours
  <2> HIDE DEF t
  <2>4. OnCourse([t EXCEPT !.got[p] = found])
    <3>1. Answering([t EXCEPT !.got[p] = found], t.ready \ t.todo)
      BY <2>2, <2>3 DEF Answering, Gone, Numbers
    <3>2. LET u == [t EXCEPT !.got[p] = found]
          IN Dated(u) /\ Young(u) /\ Honest(u) /\ Backed(u)
      BY <2>2 DEF Dated, Young, Honest, Backed, Gone
    <3> QED
      BY <2>2, <3>1, <3>2 DEF OnCourse, Querying, Sound
  <2>5. ASSUME NEW r \in {"QUERY_FAILED", "UNAVAILABLE"}
        PROVE  OnCourse(Blame(t, p, r))
    <3>1. /\ Merge(t.reason, r) # "none"
          /\ t.missing # {} => Merge(t.reason, r) \in {"INDEX_NOT_READY", "UNAVAILABLE"}
      BY <2>2, MergeFacts DEF Honest
    <3>2. Honest(Blame(t, p, r)) /\ \A s : Answering(Blame(t, p, r), s)
      BY <2>2, <3>1 DEF Honest, Answering, Blame
    <3> QED
      BY <2>2, <3>1, <3>2
      DEF OnCourse, Querying, Sound, Dated, Young, Backed, Gone, Blame
  <2>6. \/ Reading(c, [t EXCEPT !.got[p] = found])
        \/ \E r \in {"QUERY_FAILED", "UNAVAILABLE"} : Reading(c, Blame(t, p, r))
    BY <1>4 DEF QueryChunks, t
  <2> QED
    BY <2>4, <2>5, <2>6, ReadingStep
<1> QED
  BY <1>2, <1>3, <1>4

\* Only a report that lacks nothing it asked for is kept.
LEMMA CacheStep ==
    ASSUME PatrolTypes, ReextractInOrder, ReportsSound,
           (\E c \in Clients : Answer(c)) \/ (\E e \in cache : Forget(e))
    PROVE  ReextractInOrder' /\ ReportsSound'
<1>1. ASSUME NEW c \in Clients, Answer(c)
      PROVE  ReextractInOrder' /\ ReportsSound'
  <2>1. tour[c] \in Tours /\ Sound(tour[c]) /\ ~tour[c].hit
    BY <1>1, TourFacts DEF Answer, At, ReportsSound, OnCourse
  <2>2. Sound([tour[c] EXCEPT !.pc = "rest"]) /\ Sound([tour[c] EXCEPT !.pc = "answered"])
    BY <2>1 DEF Sound, Dated, Young, Honest, Answering, Gone, Tours
  <2>3. OnCourse([tour[c] EXCEPT !.pc = "answered"])
    BY <2>1, <2>2 DEF OnCourse, Tours
  <2>4. \A e \in cache' : e \in cache \/ (Sound(e[2]) /\ e[2].reason = "none")
    BY <1>1, <2>1, <2>2 DEF Answer, Cacheable, Tours
  <2> QED
    BY <1>1, <2>3, <2>4, ClientStep DEF Answer
<1>2. ASSUME NEW e \in cache, Forget(e)
      PROVE  ReextractInOrder' /\ ReportsSound'
  BY <1>2
  DEF Forget, rowVars, ReextractInOrder, ReportsSound, OnCourse, Fingerprinting, Loading,
      Probing, Querying, Sound, Dated, Young, Honest, Answering, Backed, Gone, Blank
<1> QED
  BY <1>1, <1>2

\* A report from the cache is not older than the versions its reader has seen,
\* and one that lacks evidence says so and is not served again, unless a wipe of
\* the version it names has begun; for any number of clients and reextracts.
THEOREM PatrolServesCurrent ==
    PatrolSpec => []ServedIsCurrent /\ []ThinReportsTold
<1> DEFINE Inv == PatrolTypes /\ ReextractInOrder /\ ReportsSound
<1>1. PatrolInit => Inv
  <2> SUFFICES ASSUME PatrolInit PROVE Inv
    OBVIOUS
  <2>1. Resting \in Tours /\ OnCourse(Resting)
    BY DEF Numbers, Papers, Modes, Nothing, Resting, Unread, Tours, PatrolPcs, Reasons, OnCourse
  <2>2. PatrolTypes /\ ReportsSound
    BY <2>1 DEF PatrolInit, PatrolTypes, ReportsSound, Numbers
  <2>3. ReextractInOrder
    BY DEF PatrolInit, ReextractInOrder, Papers, Nothing
  <2> QED
    BY <2>2, <2>3
<1>2. Inv /\ [PatrolNext]_patrolVars => Inv'
  <2> SUFFICES ASSUME Inv, [PatrolNext]_patrolVars PROVE ReextractInOrder' /\ ReportsSound'
    BY PatrolTypesStep, PatrolAssumption
  <2>1. CASE Reextract
    <3>1. \A t \in Tours : OnCourse(t) => OnCourse(t)'
      BY <2>1, CourseKept, PatrolAssumption
    <3>2. \A t \in Tours : Sound(t) => Sound(t)'
      <4> SUFFICES ASSUME NEW t \in Tours, Sound(t) PROVE Sound(t)'
        OBVIOUS
      <4>1. Dated(t)' /\ (\A p \in Papers : Gone(t, p) => Gone(t, p)')
        BY <2>1, ReextractStep, PatrolTypesStep, PatrolAssumption
        DEF Sound, Dated, Gone, Tours, PatrolTypes, Numbers
      <4> QED
        BY <4>1 DEF Sound, Young, Honest, Answering, Tours
    <3> QED
      BY <2>1, <3>1, <3>2, ReextractStep, TourFacts, PatrolAssumption
      DEF ReportsSound, PatrolTypes
  <2>2. CASE UNCHANGED patrolVars
    BY <2>2
    DEF patrolVars, ReextractInOrder, ReportsSound, OnCourse, Fingerprinting, Loading,
        Probing, Querying, Sound, Dated, Young, Honest, Answering, Backed, Gone, Blank
  <2> QED
    BY <2>1, <2>2, FingerprintStep, AnalysisStep, EvidenceStep, CacheStep
    DEF PatrolNext, Reextract
<1>3. Inv => ServedIsCurrent /\ ThinReportsTold
  <2> SUFFICES ASSUME Inv, NEW c \in Clients, At(c, "answered")
               PROVE  /\ \A p \in Papers : tour[c].graph[p] >= tour[c].version[p]
                      /\ Honest(tour[c])
                      /\ tour[c].hit => tour[c].reason = "none"
                      /\ Answering(tour[c], tour[c].ready)
    BY DEF ServedIsCurrent, ThinReportsTold, NoThinReportServed, ThinReportsSaySo, Honest,
           Answering, Gone, Papers
  <2> QED
    BY TourFacts DEF ReportsSound, OnCourse, Sound, Young, At
<1> QED
  BY <1>1, <1>2, <1>3, PTL DEF PatrolSpec

=============================================================================
