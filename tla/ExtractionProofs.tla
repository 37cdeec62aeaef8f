-------------------------- MODULE ExtractionProofs --------------------------
(***************************************************************************)
(* Proofs about Extraction and HeadRefine.  For every number of chunks,    *)
(* attempts, permits and repairs, the extraction of a paper ends, its      *)
(* repairs are counted, and what the graph of a long paper lacks is among  *)
(* its warnings.  The invariant follows the two routes that have a state   *)
(* of their own: the tasks of the chunks, of which none ends without a     *)
(* result or a warning, and the loop of the sub-graph, whose node calls    *)
(* are its repairs.  For every number of refinements and reextracts, no    *)
(* refinement of a head outlives the text it read.                         *)
(***************************************************************************)
EXTENDS Extraction, HeadRefine, FiniteSetTheorems, WellFoundedInduction, TLAPS

Steps == {"mvp", "nodes", "edges", "fallback", "finalize", "nodes_node", "edges_node",
          "validate", "exhausted", "primary", "second", "done", "failed"}
Places == {"limit", "gate", "call", "pause", "end"}
Calls == 0..(MaxRepairs + 1)

ExtractionTypes ==
    /\ route \in Routes /\ step \in Steps
    /\ task \in [Parts -> Places] /\ tries \in [Parts -> Nat]
    /\ found \subseteq Parts /\ edges \in [Parts -> Edges]
    /\ tokens \in 0..Rpm
    /\ repairs \in Nat /\ calls \in Nat /\ error \in {"none", "nodes"}

\* Which route leads to a step, and where a graph put together from chunks is found.
OnRoute ==
    /\ step \in {"mvp", "nodes", "edges"} => route = "background"
    /\ step \in {"nodes_node", "edges_node", "validate", "exhausted"} => route = "short"
    /\ drawn.from = "chunks" => step \in {"finalize", "done"}
    /\ step \in {"finalize", "done"} => drawn.from # "nothing"
    /\ step = "failed" => ~HeuristicFallback

\* A task that has ended has brought its nodes or left a warning.
ChunksTold ==
    /\ step = "mvp" => \A c \in Parts : task[c] # "end"
    /\ step = "nodes" =>
          \A c \in Parts : task[c] = "end" => c \in found \/ <<"nodes", c>> \in lost
    /\ step = "edges" =>
          found # {} /\ \A c \in Parts : c \in found \/ <<"nodes", c>> \in lost

\* What the graph lacks has been written down when it was put together.
GraphTold ==
    drawn.from = "chunks" =>
        /\ \A c \in Parts : c \in found \/ <<"nodes", c>> \in record
        /\ drawn.nodes # found => <<"zero_degree">> \in record
        /\ \A c \in Parts : Ghost \in edges[c] => <<"dangling">> \in record
        /\ found # {}

\* One node call for the extraction and one for each repair.
CallsCounted ==
    /\ step = "nodes_node" => calls = repairs /\ repairs <= MaxRepairs
    /\ step \in {"edges_node", "validate"} => calls = repairs + 1 /\ repairs <= MaxRepairs
    /\ error = "none" => repairs = 0
    /\ RepairsEnd

Honest == ExtractionTypes /\ OnRoute /\ ChunksTold /\ GraphTold /\ CallsCounted

-----------------------------------------------------------------------------
\* A set of numbers that is not empty has a least one.
LEMMA Least ==
    ASSUME NEW T, T \subseteq Nat, T # {}
    PROVE  \E m \in T : \A k \in T : ~(k < m)
<1> DEFINE R == OpToRel(<, Nat)
<1>1. IsWellFoundedOn(R, Nat)
  BY NatLessThanWellFounded
<1>2. \A x, y \in Nat : x < y => <<x, y>> \in R
  BY DEF OpToRel
<1> HIDE DEF R
<1>3. PICK m \in T : \A k \in T : ~(<<k, m>> \in R)
  BY <1>1, WFMin
<1> QED
  BY <1>2, <1>3

\* The number of permits is a number.
LEMMA Constants ==
    /\ ChunkCount \in Nat /\ Attempts \in Nat /\ Concurrency \in Nat /\ Rpm \in Nat
    /\ Concurrency >= 1 /\ Rpm >= 1 /\ MaxRepairs \in Nat
BY ExtractionAssumption

\* No task, no bucket and no gather keeps the extraction waiting: among tasks
\* that all wait, the first is served.
LEMMA NobodyWaits ==
    ASSUME Honest
    PROVE  ExtractionAnswers
<1> SUFFICES ASSUME ~GoesOn PROVE step = "done" \/ step = "failed"
  BY DEF Honest, OnRoute, ExtractionAnswers
<1> USE Constants
<1>1. CASE InChunks
  <2>1. tokens = Rpm /\ \A c \in Parts : task[c] \in {"limit", "gate", "end"}
    BY <1>1 DEF GoesOn, TaskAt, Honest, ExtractionTypes, Places
  <2>2. Holding = {}
    BY <2>1 DEF Holding
  <2>3. Cardinality(Holding) = 0
    BY <2>2, FS_EmptySet
  <2>4. \A c \in Parts : task[c] \in {"limit", "end"}
    BY <1>1, <2>1, <2>3 DEF GoesOn, MayEnter, TaskAt
  <2> DEFINE waiting == {c \in Parts : task[c] = "limit"}
  <2>5. waiting = {}
    <3> SUFFICES ASSUME waiting # {} PROVE FALSE
      OBVIOUS
    <3>1. waiting \subseteq Nat
      BY DEF Parts
    <3>2. PICK m \in waiting : \A k \in waiting : ~(k < m)
      <4> HIDE DEF waiting
      <4> QED
        BY <3>1, Least
    <3>3. \A d \in 1..(m - 1) : task[d] # "limit"
      BY <3>2 DEF Parts
    <3> QED
      BY <1>1, <2>1, <3>2, <3>3 DEF GoesOn, MayAcquire, TaskAt
  <2>6. task = All("end")
    BY <2>4, <2>5 DEF All, Honest, ExtractionTypes
  <2> QED
    BY <1>1, <2>6 DEF GoesOn
<1>2. CASE ~InChunks
  BY <1>2 DEF GoesOn, InChunks, Honest, ExtractionTypes, Steps
<1> QED
  BY <1>1, <1>2

-----------------------------------------------------------------------------
LEMMA HonestInit ==
    ExtractionInit => Honest
<1> SUFFICES ASSUME ExtractionInit PROVE Honest
  OBVIOUS
<1> USE Constants DEF ExtractionInit
<1>1. step \in {"mvp", "nodes_node", "primary", "fallback"} /\ route \in Routes
  BY DEF Routes
<1>2. (step = "nodes_node" => route = "short") /\ (step = "mvp" => route = "background")
  BY DEF Routes
<1>3. ExtractionTypes
  BY <1>1 DEF ExtractionTypes, Steps, Places, All, Edges
<1>4. OnRoute /\ ChunksTold /\ GraphTold
  BY <1>1, <1>2 DEF OnRoute, ChunksTold, GraphTold, NoGraph, All
<1>5. CallsCounted
  BY <1>1 DEF CallsCounted, RepairsEnd
<1> QED
  BY <1>3, <1>4, <1>5 DEF Honest

ChunkStep ==
    \/ Replenish \/ NodesGathered \/ EdgesGathered
    \/ \E c \in Parts :
          Acquire(c) \/ Enters(c) \/ NodesArrive(c) \/ EdgesArrive(c) \/ CallFails(c) \/ Resumes(c)

\* The tasks of the chunks.
LEMMA ChunksStep ==
    ASSUME Honest, ChunkStep
    PROVE  Honest'
<1> USE Constants
<1>0. ExtractionTypes /\ OnRoute /\ ChunksTold /\ GraphTold /\ CallsCounted
  BY DEF Honest
<1>1. UNCHANGED <<route, repairs, error, calls, verdict>> /\ step \in {"nodes", "edges"}
  BY DEF ChunkStep, Replenish, NodesGathered, EdgesGathered, Acquire, Enters, NodesArrive,
         EdgesArrive, CallFails, Resumes, MayAcquire, MayEnter, TaskAt, InChunks, Moves, Keeps,
         loopVars
<1>2. drawn.from # "chunks"
  BY <1>0, <1>1 DEF OnRoute
<1>3. CASE Replenish
  <2>1. UNCHANGED <<step, task, tries, found, edges, lost, drawn, record>> /\ tokens' \in 0..Rpm
    BY <1>0, <1>3 DEF Replenish, Keeps, ExtractionTypes
  <2> QED
    BY <1>0, <1>1, <2>1 DEF Honest, ExtractionTypes, OnRoute, ChunksTold, GraphTold,
                            CallsCounted, RepairsEnd
<1>4. ASSUME NEW c \in Parts, Acquire(c) \/ Enters(c) \/ Resumes(c)
      PROVE  Honest'
  <2>1. PICK to \in {"gate", "call"} : task' = [task EXCEPT ![c] = to]
    BY <1>4 DEF Acquire, Enters, Resumes, TaskTo
  <2>2. UNCHANGED <<step, tries, found, edges, lost, drawn, record>> /\ tokens' \in 0..Rpm
    BY <1>0, <1>4 DEF Acquire, Enters, Resumes, MayAcquire, Keeps, ExtractionTypes
  <2>3. task' \in [Parts -> Places] /\ \A d \in Parts : task'[d] = "end" => task[d] = "end"
    BY <1>0, <2>1 DEF ExtractionTypes, Places
  <2> QED
    BY <1>0, <1>1, <2>2, <2>3 DEF Honest, ExtractionTypes, OnRoute, ChunksTold, GraphTold,
                                  CallsCounted, RepairsEnd
<1>5. ASSUME NEW c \in Parts, NodesArrive(c)
      PROVE  Honest'
  <2>1. /\ task' = [task EXCEPT ![c] = "end"] /\ found' = found \cup {c} /\ step = "nodes"
        /\ UNCHANGED <<step, tries, edges, lost, tokens, drawn, record>>
    BY <1>5 DEF NodesArrive, TaskTo, Keeps
  <2>2. task' \in [Parts -> Places] /\ \A d \in Parts : d = c \/ task'[d] = task[d]
    BY <1>0, <2>1 DEF ExtractionTypes, Places
  <2> QED
    BY <1>0, <1>1, <1>2, <2>1, <2>2 DEF Honest, ExtractionTypes, OnRoute, ChunksTold, GraphTold,
                                        CallsCounted, RepairsEnd
<1>6. ASSUME NEW c \in Parts, EdgesArrive(c)
      PROVE  Honest'
  <2>1. /\ task' = [task EXCEPT ![c] = "end"] /\ step = "edges"
        /\ UNCHANGED <<step, tries, found, lost, tokens, drawn, record>>
    BY <1>6 DEF EdgesArrive, TaskTo, Keeps
  <2>2. PICK e \in Edges : edges' = [edges EXCEPT ![c] = e]
    BY <1>6 DEF EdgesArrive
  <2>3. task' \in [Parts -> Places] /\ edges' \in [Parts -> Edges]
    BY <1>0, <2>1, <2>2 DEF ExtractionTypes, Places
  <2> QED
    BY <1>0, <1>1, <1>2, <2>1, <2>3 DEF Honest, ExtractionTypes, OnRoute, ChunksTold, GraphTold,
                                        CallsCounted, RepairsEnd
<1>7. ASSUME NEW c \in Parts, CallFails(c)
      PROVE  Honest'
  <2>1. UNCHANGED <<step, found, edges, tokens, drawn, record>>
    BY <1>7 DEF CallFails, Keeps
  <2>2. CASE tries[c] + 1 < Attempts
    <3>1. /\ task' = [task EXCEPT ![c] = "pause"] /\ tries' = [tries EXCEPT ![c] = @ + 1]
          /\ lost' = lost
      BY <1>7, <2>2 DEF CallFails, TaskTo
    <3>2. /\ task' \in [Parts -> Places] /\ tries' \in [Parts -> Nat]
          /\ \A d \in Parts : task'[d] = "end" => task[d] = "end"
      BY <1>0, <3>1 DEF ExtractionTypes, Places
    <3> QED
      BY <1>0, <1>1, <2>1, <3>1, <3>2 DEF Honest, ExtractionTypes, OnRoute, ChunksTold, GraphTold,
                                          CallsCounted, RepairsEnd
  <2>3. CASE ~(tries[c] + 1 < Attempts)
    <3>1. task' = [task EXCEPT ![c] = "end"] /\ tries' = tries /\ lost' = lost \cup {<<step, c>>}
      BY <1>7, <2>3 DEF CallFails, TaskTo, GivesUp
    <3>2. task' \in [Parts -> Places] /\ \A d \in Parts : d = c \/ task'[d] = task[d]
      BY <1>0, <3>1 DEF ExtractionTypes, Places
    <3>3. ExtractionTypes' /\ OnRoute' /\ GraphTold' /\ CallsCounted'
      BY <1>0, <1>1, <1>2, <2>1, <3>1, <3>2 DEF ExtractionTypes, OnRoute, GraphTold,
                                                CallsCounted, RepairsEnd
    <3>4. ChunksTold'
      <4>1. CASE step = "nodes"
        BY <1>0, <2>1, <3>1, <3>2, <4>1 DEF ChunksTold
      <4>2. CASE step = "edges"
        BY <1>0, <2>1, <3>1, <4>2 DEF ChunksTold
      <4> QED
        BY <1>1, <4>1, <4>2
    <3> QED
      BY <3>3, <3>4 DEF Honest
  <2> QED
    BY <2>2, <2>3
<1>8. CASE NodesGathered
  <2>1. /\ step = "nodes" /\ task = All("end")
        /\ step' = IF found = {} THEN "fallback" ELSE "edges"
        /\ task' = All("limit") /\ tries' = All(0)
        /\ UNCHANGED <<found, edges, lost, tokens, drawn, record>>
    BY <1>8 DEF NodesGathered, Keeps
  <2>2. ExtractionTypes'
    BY <1>0, <1>1, <2>1 DEF ExtractionTypes, Steps, Places, All
  <2>3. ChunksTold'
    BY <1>0, <2>1 DEF ChunksTold, All
  <2>4. OnRoute' /\ GraphTold' /\ CallsCounted'
    BY <1>0, <1>1, <1>2, <2>1 DEF OnRoute, GraphTold, CallsCounted, RepairsEnd
  <2> QED
    BY <2>2, <2>3, <2>4 DEF Honest
<1>9. CASE EdgesGathered
  <2>1. /\ step = "edges" /\ step' = "finalize"
        /\ drawn' = [from |-> "chunks", nodes |-> Survivors]
        /\ record' = record \cup lost \cup Pruned
        /\ UNCHANGED chunkVars
    BY <1>9 DEF EdgesGathered, Moves
  <2>2. ExtractionTypes' /\ OnRoute' /\ ChunksTold' /\ CallsCounted'
    BY <1>0, <1>1, <2>1 DEF ExtractionTypes, OnRoute, ChunksTold, CallsCounted, RepairsEnd,
                            chunkVars, Steps
  <2>3. /\ found # Survivors => <<"zero_degree">> \in Pruned
        /\ (\E c \in Parts : Ghost \in edges[c]) => <<"dangling">> \in Pruned
    BY DEF Pruned
  <2>4. GraphTold'
    BY <1>0, <2>1, <2>3 DEF GraphTold, ChunksTold, chunkVars
  <2> QED
    BY <2>2, <2>4 DEF Honest
<1> QED
  BY <1>3, <1>4, <1>5, <1>6, <1>7, <1>8, <1>9 DEF ChunkStep

\* The sub-graph, the single call, the fallback and the end.
LEMMA OtherStep ==
    ASSUME Honest, [ExtractionNext]_extractionVars, ~ChunkStep
    PROVE  Honest'
<1> USE Constants
<1>0. ExtractionTypes /\ OnRoute /\ ChunksTold /\ GraphTold /\ CallsCounted
  BY DEF Honest
<1>1. CASE Mvp
  <2>1. /\ step = "mvp" /\ step' = "nodes" /\ record \subseteq record'
        /\ UNCHANGED <<route, drawn, verdict, chunkVars, loopVars>>
    BY <1>1 DEF Mvp, Moves
  <2> QED
    BY <1>0, <2>1 DEF Honest, ExtractionTypes, OnRoute, ChunksTold, GraphTold, CallsCounted,
                      RepairsEnd, chunkVars, loopVars, Steps
<1>2. CASE ExtractNodesNode
  <2>1. /\ step = "nodes_node" /\ calls' = calls + 1
        /\ step' \in {"edges_node", "fallback"}
        /\ UNCHANGED <<route, drawn, record, verdict, chunkVars, error>>
    BY <1>2 DEF ExtractNodesNode, Keeps
  <2>2. repairs' = repairs
    BY <1>0, <1>2 DEF ExtractNodesNode, Count, CallsCounted, ExtractionTypes
  <2> QED
    BY <1>0, <2>1, <2>2 DEF Honest, ExtractionTypes, OnRoute, ChunksTold, GraphTold, CallsCounted,
                            RepairsEnd, chunkVars, Steps
<1>3. CASE BuildEdgesNode
  <2>1. /\ step = "edges_node" /\ step' \in {"validate", "fallback"}
        /\ UNCHANGED <<route, drawn, record, verdict, chunkVars, loopVars>>
    BY <1>3 DEF BuildEdgesNode, Keeps
  <2> QED
    BY <1>0, <2>1 DEF Honest, ExtractionTypes, OnRoute, ChunksTold, GraphTold, CallsCounted,
                      RepairsEnd, chunkVars, loopVars, Steps
<1>4. CASE ValidateNode
  <2>1. step = "validate" /\ UNCHANGED <<route, record, verdict, chunkVars, calls>>
    BY <1>4 DEF ValidateNode
  <2>2. CASE step' = "finalize"
    <3>1. drawn' = [from |-> "subgraph", nodes |-> Parts] /\ UNCHANGED <<repairs, error>>
      BY <1>4, <2>2 DEF ValidateNode, RouteAfterValidate
    <3> QED
      BY <1>0, <2>1, <2>2, <3>1
      DEF Honest, ExtractionTypes, OnRoute, ChunksTold, GraphTold, CallsCounted, RepairsEnd,
          chunkVars, Steps
  <2>3. CASE step' # "finalize"
    <3>1. /\ step' = RouteAfterValidate /\ repairs' = repairs + 1 /\ error' = "nodes"
          /\ UNCHANGED drawn
      BY <1>4, <2>3 DEF ValidateNode
    <3>2. step' \in {"exhausted", "nodes_node"} /\ (step' = "nodes_node" => repairs' <= MaxRepairs)
      BY <1>0, <3>1 DEF RouteAfterValidate, ExtractionTypes
    <3> QED
      BY <1>0, <2>1, <3>1, <3>2
      DEF Honest, ExtractionTypes, OnRoute, ChunksTold, GraphTold, CallsCounted, RepairsEnd,
          chunkVars, Steps
  <2> QED
    BY <2>2, <2>3
<1>5. CASE FallbackToHeuristicNode \/ FallBack
  <2>1. /\ step \in {"exhausted", "fallback"} /\ record \subseteq record'
        /\ UNCHANGED <<route, verdict, chunkVars, loopVars>>
        /\ \/ step' = "finalize" /\ drawn' = Heuristic
           \/ step' = "failed" /\ UNCHANGED drawn /\ ~HeuristicFallback
    BY <1>5 DEF FallbackToHeuristicNode, FallBack, Moves
  <2> QED
    BY <1>0, <2>1 DEF Honest, ExtractionTypes, OnRoute, ChunksTold, GraphTold, CallsCounted,
                      RepairsEnd, chunkVars, loopVars, Steps, Heuristic
<1>6. CASE CallModel("primary", "second") \/ CallModel("second", "fallback")
  <2>1. /\ step \in {"primary", "second"}
        /\ UNCHANGED <<route, record, verdict, chunkVars, loopVars>>
        /\ \/ step' = "finalize" /\ drawn' = [from |-> "single", nodes |-> Parts]
           \/ step' \in {"second", "fallback"} /\ UNCHANGED drawn
    BY <1>6 DEF CallModel
  <2> QED
    BY <1>0, <2>1 DEF Honest, ExtractionTypes, OnRoute, ChunksTold, GraphTold, CallsCounted,
                      RepairsEnd, chunkVars, loopVars, Steps
<1>7. CASE Finalize
  <2>1. /\ step = "finalize" /\ step' = "done" /\ record \subseteq record'
        /\ UNCHANGED <<route, drawn, chunkVars, loopVars>>
    BY <1>7 DEF Finalize, Moves
  <2> QED
    BY <1>0, <2>1 DEF Honest, ExtractionTypes, OnRoute, ChunksTold, GraphTold, CallsCounted,
                      RepairsEnd, chunkVars, loopVars, Steps
<1>8. CASE UNCHANGED extractionVars
  BY <1>0, <1>8 DEF Honest, ExtractionTypes, OnRoute, ChunksTold, GraphTold, CallsCounted,
                    RepairsEnd, extractionVars
<1> QED
  BY <1>1, <1>2, <1>3, <1>4, <1>5, <1>6, <1>7, <1>8 DEF ExtractionNext, ChunkStep

\* What the invariant says of a finished graph.
LEMMA GraphLosses ==
    ASSUME Honest
    PROVE  LossesReported
<1> SUFFICES ASSUME step = "done", drawn.from = "chunks"
             PROVE  /\ \A c \in Parts \ found : <<"nodes", c>> \in record
                    /\ drawn.nodes # found => <<"zero_degree">> \in record
                    /\ \A c \in Parts : (edges[c] \cap {Ghost}) # {} => <<"dangling">> \in record
                    /\ drawn.nodes = {} => \E w \in record : w # <<"mvp">>
  BY DEF LossesReported
<1>1. <<"zero_degree">> # <<"mvp">>
  OBVIOUS
<1> QED
  BY <1>1 DEF Honest, GraphTold

\* The extraction of a paper ends in a graph, or in an error where the fallback
\* is switched off; the sub-graph repairs as often as it may; what a graph put
\* together from chunks lacks is among the warnings of the paper.
THEOREM ExtractionIsHonest == ExtractionSpec => []ExtractionEndsHonestly
<1>1. ExtractionInit => Honest
  BY HonestInit
<1>2. Honest /\ [ExtractionNext]_extractionVars => Honest'
  BY ChunksStep, OtherStep
<1>3. Honest => ExtractionEndsHonestly
  BY GraphLosses, NobodyWaits DEF ExtractionEndsHonestly, Honest, CallsCounted
<1> QED
  BY <1>1, <1>2, <1>3, PTL DEF ExtractionSpec

-----------------------------------------------------------------------------
\* The refinement of the head that runs beside the extraction.  None outlives a
\* reextract or a delete: a refinement that is at work is the registered one (Tracked),
\* so the abort finds it; the abort waits for it, so none is at work when the record
\* is removed (Quiet); and what is at work or stored is of the current epoch (Current).

Live(r) == refiner[r].state \in {"working", "cancelled"}

\* The registry holds the task that is at work, and no other.
Tracked ==
    /\ \A r \in Refiners : Live(r) => registered = r
    /\ registered # 0 => Live(registered)

\* During an abort the only task left is the one it waits for; after it, none is.
Quiet ==
    /\ wiper.step = "abort" => \A r \in Refiners : Live(r) => refiner[r].state = "cancelled" /\ wiper.awaits = r
    /\ wiper.step \in {"purge", "end"} => \A r \in Refiners : ~Live(r)
    /\ wiper.step # "idle" => waiter = "over"
    /\ wiper.kind = "reextract" => epoch <= MaxReextracts

\* Tasks at work and the record are of the current epoch.
Current ==
    /\ \A r \in Refiners : Live(r) => refiner[r].gen = epoch
    /\ stored.text => stored.gen = epoch
    /\ read # "old"

Gone == ~rowLeft => wiper.step = "end" /\ stored = NoRecord

HeadInv == HeadTypeOK /\ Tracked /\ Quiet /\ Current /\ Gone /\ FallbackTold

\* Scheduling either leaves the task at work alone or starts one that never was.
LEMMA EnsuredCases ==
    ASSUME HeadTypeOK, Tracked, registered = 0 => Unborn # {}, NEW gen
    PROVE  LET e == Ensured(refiner, registered, gen)
           IN \/ e.tasks = refiner /\ e.reg = registered /\ registered # 0
              \/ /\ registered = 0
                 /\ \E n \in Refiners :
                       /\ refiner[n].state = "unborn"
                       /\ e.tasks = [refiner EXCEPT ![n] = [state |-> "working", gen |-> gen]]
                       /\ e.reg = n
<1>1. CASE registered # 0
  BY <1>1 DEF Ensured, Tracked, Live
<1>2. CASE registered = 0
  <2>1. Fresh1 \in Unborn
    BY <1>2 DEF Fresh1
  <2>2. Fresh1 \in Refiners /\ refiner[Fresh1].state = "unborn"
    BY <2>1 DEF Unborn
  <2>3. Ensured(refiner, registered, gen)
          = [tasks |-> [refiner EXCEPT ![Fresh1] = [state |-> "working", gen |-> gen]], reg |-> Fresh1]
    BY <1>2 DEF Ensured
  <2>4. /\ Ensured(refiner, registered, gen).tasks
             = [refiner EXCEPT ![Fresh1] = [state |-> "working", gen |-> gen]]
        /\ Ensured(refiner, registered, gen).reg = Fresh1
    BY <2>3
  <2>5. \E n \in Refiners :
           /\ refiner[n].state = "unborn"
           /\ Ensured(refiner, registered, gen).tasks = [refiner EXCEPT ![n] = [state |-> "working", gen |-> gen]]
           /\ Ensured(refiner, registered, gen).reg = n
    BY <2>2, <2>4, Zenon
  <2> QED BY <1>2, <2>5, Zenon
<1> QED BY <1>1, <1>2

\* A step that ends one task, whether it failed or was cancelled.
LEMMA TaskEnds ==
    ASSUME HeadInv, NEW r \in Refiners, Live(r),
           refiner' = [refiner EXCEPT ![r].state = "done"], Unregisters(r)
    PROVE  /\ refiner' \in [Refiners -> [state : {"unborn", "working", "cancelled", "done"}, gen : 0..(MaxReextracts + 1)]]
           /\ registered' = 0
           /\ \A q \in Refiners : ~Live(q)'
<1>1. registered = r
  BY DEF HeadInv, Tracked
<1>2. registered' = 0
  BY <1>1 DEF Unregisters
<1>3. \A q \in Refiners : q # r => ~Live(q)
  BY <1>1 DEF HeadInv, Tracked
<1>4. refiner' \in [Refiners -> [state : {"unborn", "working", "cancelled", "done"}, gen : 0..(MaxReextracts + 1)]]
  BY DEF HeadInv, HeadTypeOK
<1>5. \A q \in Refiners : ~Live(q)'
  <2> TAKE q \in Refiners
  <2>1. CASE q = r
    BY <2>1 DEF Live, HeadInv, HeadTypeOK
  <2>2. CASE q # r
    BY <2>2, <1>3 DEF Live, HeadInv, HeadTypeOK
  <2> QED BY <2>1, <2>2
<1> QED BY <1>2, <1>4, <1>5

LEMMA HeadInitHolds == HeadInit => HeadInv
<1> SUFFICES ASSUME HeadInit PROVE HeadInv
  OBVIOUS
<1> USE BoundsAreNat
<1>1. HeadTypeOK
  BY DEF HeadInit, HeadTypeOK, Refiners, NoTask, Records, NoRecord, HeadCodes
<1>2. Tracked /\ Quiet /\ Current
  BY DEF HeadInit, Tracked, Quiet, Current, Live, Refiners, NoTask, NoRecord
<1>3. Gone /\ FallbackTold
  BY DEF HeadInit, Gone, FallbackTold
<1> QED BY <1>1, <1>2, <1>3 DEF HeadInv

\* The steps that end a task: all of HeadInv but the record, which only Apply writes.
LEMMA TaskSteps ==
    ASSUME HeadInv, NEW r \in Refiners, Apply(r) \/ RefineFails(r) \/ Cancelled(r)
    PROVE  HeadInv'
<1> USE BoundsAreNat
<1>1. Live(r) /\ refiner' = [refiner EXCEPT ![r].state = "done"] /\ Unregisters(r)
  BY DEF Apply, RefineFails, Cancelled, Live
<1>2. /\ refiner' \in [Refiners -> [state : {"unborn", "working", "cancelled", "done"}, gen : 0..(MaxReextracts + 1)]]
      /\ registered' = 0
      /\ \A q \in Refiners : ~Live(q)'
  BY <1>1, TaskEnds
<1>3. UNCHANGED <<waiter, read, wiper, epoch, rowLeft>>
  BY DEF Apply, RefineFails, Cancelled
<1>4. /\ stored' \in Records /\ warned' \subseteq {"grobid_unavailable", "head_refine_timeout"}
      /\ warned \subseteq warned'
      /\ stored'.text => stored'.gen = epoch
      /\ ~rowLeft => stored' = stored
  <2>1. CASE Apply(r)
    <3>1. PICK text \in BOOLEAN, codes \in HeadCodes :
            /\ refiner[r].state = "working"
            /\ IF codes # {} /\ ~rowLeft THEN UNCHANGED <<stored, warned>>
               ELSE /\ warned' = IF rowLeft THEN warned \cup codes ELSE warned
                    /\ stored' = [by |-> r, gen |-> refiner[r].gen, text |-> text, codes |-> codes]
      BY <2>1 DEF Apply
    <3>2. refiner[r].gen = epoch /\ epoch \in 1..(MaxReextracts + 1)
      BY <1>1 DEF HeadInv, Current, HeadTypeOK
    <3>3. rowLeft
      BY <1>1 DEF HeadInv, Gone, Quiet
    <3>4. /\ warned' = warned \cup codes
          /\ stored' = [by |-> r, gen |-> epoch, text |-> text, codes |-> codes]
      BY <3>1, <3>2, <3>3
    <3>5. stored' \in Records
      BY <3>2, <3>4 DEF Records
    <3>6. warned' \subseteq {"grobid_unavailable", "head_refine_timeout"}
      BY <3>4 DEF HeadCodes, HeadInv, HeadTypeOK
    <3> QED BY <3>3, <3>4, <3>5, <3>6
  <2>2. CASE RefineFails(r) \/ Cancelled(r)
    BY <2>2 DEF RefineFails, Cancelled, HeadInv, HeadTypeOK, Current
  <2> QED BY <2>1, <2>2
<1>5. HeadTypeOK'
  BY <1>2, <1>3, <1>4 DEF HeadInv, HeadTypeOK
<1>6. Tracked' /\ Quiet' /\ Current'
  BY <1>2, <1>3, <1>4 DEF HeadInv, Tracked, Quiet, Current
<1>7. Gone' /\ FallbackTold'
  BY <1>3, <1>4 DEF HeadInv, Gone, FallbackTold
<1> QED BY <1>5, <1>6, <1>7 DEF HeadInv

\* What a scheduling does to the registry; used by the node and by the reextract.
LEMMA ScheduleTracks ==
    ASSUME HeadInv, registered = 0 => Unborn # {}, NEW gen \in 1..(MaxReextracts + 1),
           refiner' = Ensured(refiner, registered, gen).tasks,
           registered' = Ensured(refiner, registered, gen).reg
    PROVE  /\ refiner' \in [Refiners -> [state : {"unborn", "working", "cancelled", "done"}, gen : 0..(MaxReextracts + 1)]]
           /\ registered' \in Refiners
           /\ Tracked'
           /\ \A r \in Refiners : Live(r)' => (Live(r) /\ refiner'[r] = refiner[r]) \/ (refiner'[r].gen = gen /\ registered = 0)
<1> USE BoundsAreNat
<1>1. \/ refiner' = refiner /\ registered' = registered /\ registered # 0
      \/ /\ registered = 0
         /\ \E n \in Refiners :
               /\ refiner[n].state = "unborn"
               /\ refiner' = [refiner EXCEPT ![n] = [state |-> "working", gen |-> gen]]
               /\ registered' = n
  BY EnsuredCases, Zenon DEF HeadInv
<1>2. CASE refiner' = refiner /\ registered' = registered /\ registered # 0
  <2>1. registered' \in Refiners /\ Tracked'
    BY <1>2 DEF HeadInv, HeadTypeOK, Tracked, Live
  <2>2. \A r \in Refiners : Live(r)' => Live(r) /\ refiner'[r] = refiner[r]
    BY <1>2 DEF Live
  <2>3. refiner' \in [Refiners -> [state : {"unborn", "working", "cancelled", "done"}, gen : 0..(MaxReextracts + 1)]]
    BY <1>2 DEF HeadInv, HeadTypeOK
  <2>4. registered # 0
    BY <1>2
  <2>5. \A r \in Refiners : Live(r)' => (Live(r) /\ refiner'[r] = refiner[r]) \/ (refiner'[r].gen = gen /\ registered = 0)
    BY <2>2, <2>4, Zenon
  <2> QED BY <2>1, <2>3, <2>5
<1>3. ASSUME registered = 0, NEW n \in Refiners,
             refiner' = [refiner EXCEPT ![n] = [state |-> "working", gen |-> gen]], registered' = n
      PROVE  /\ refiner' \in [Refiners -> [state : {"unborn", "working", "cancelled", "done"}, gen : 0..(MaxReextracts + 1)]]
             /\ registered' \in Refiners
             /\ Tracked'
             /\ \A r \in Refiners : Live(r)' => (Live(r) /\ refiner'[r] = refiner[r]) \/ (refiner'[r].gen = gen /\ registered = 0)
  <2>1. refiner' \in [Refiners -> [state : {"unborn", "working", "cancelled", "done"}, gen : 0..(MaxReextracts + 1)]]
    BY <1>3 DEF HeadInv, HeadTypeOK
  <2>2. \A r \in Refiners : r # n => refiner'[r] = refiner[r]
    BY <1>3 DEF HeadInv, HeadTypeOK
  <2>3. refiner'[n] = [state |-> "working", gen |-> gen]
    BY <1>3 DEF HeadInv, HeadTypeOK
  <2>4. \A r \in Refiners : ~Live(r)
    BY <1>3 DEF HeadInv, Tracked, Refiners
  <2>5. \A r \in Refiners : r # n => ~Live(r)'
    BY <2>2, <2>4 DEF Live
  <2>6. Tracked'
    BY <1>3, <2>3, <2>5 DEF Tracked, Live
  <2> QED BY <1>3, <2>1, <2>3, <2>5, <2>6
<1> QED BY <1>1, <1>2, <1>3

LEMMA HeadStepKeepsInv == HeadInv /\ [HeadNext]_headVars => HeadInv'
<1> SUFFICES ASSUME HeadInv, [HeadNext]_headVars PROVE HeadInv'
  OBVIOUS
<1> USE BoundsAreNat
<1>1. CASE \E r \in Refiners : Apply(r) \/ RefineFails(r) \/ Cancelled(r)
  BY <1>1, TaskSteps
<1>2. CASE BeginWait
  <2>1. /\ refiner' = Ensured(refiner, registered, epoch).tasks
        /\ registered' = Ensured(refiner, registered, epoch).reg
        /\ registered = 0 => Unborn # {}
        /\ waiter = "ingest" /\ waiter' = "wait"
        /\ UNCHANGED <<stored, warned, read, wiper, epoch, rowLeft>>
    BY <1>2, Zenon DEF BeginWait
  <2>2. epoch \in 1..(MaxReextracts + 1)
    BY DEF HeadInv, HeadTypeOK
  <2>3. /\ refiner' \in [Refiners -> [state : {"unborn", "working", "cancelled", "done"}, gen : 0..(MaxReextracts + 1)]]
        /\ registered' \in Refiners
        /\ Tracked'
        /\ \A r \in Refiners : Live(r)' => (Live(r) /\ refiner'[r] = refiner[r]) \/ (refiner'[r].gen = epoch /\ registered = 0)
    BY <2>1, <2>2, ScheduleTracks
  <2>4. wiper.step = "idle"
    BY <2>1 DEF HeadInv, Quiet
  <2>5. HeadTypeOK'
    BY <2>1, <2>3 DEF HeadInv, HeadTypeOK
  <2>6. Quiet'
    BY <2>1, <2>4 DEF HeadInv, Quiet
  <2>7. Current'
    BY <2>1, <2>3 DEF HeadInv, Current
  <2>8. Gone' /\ FallbackTold'
    BY <2>1 DEF HeadInv, Gone, FallbackTold
  <2> QED BY <2>3, <2>5, <2>6, <2>7, <2>8 DEF HeadInv
<1>3. CASE PollFinds \/ WaitEnds \/ WaiterEnds
  <2>1. UNCHANGED <<refiner, registered, stored, wiper, epoch, rowLeft>>
    BY <1>3 DEF PollFinds, WaitEnds, WaiterEnds
  <2>2. /\ waiter' \in {"classify", "over"}
        /\ waiter \in {"ingest", "wait", "classify"}
        /\ read' \in {"own", "fallback", read}
        /\ warned \subseteq warned' /\ warned' \subseteq warned \cup TimeoutCodes
        /\ read' = "fallback" => read = "fallback" \/ TimeoutCodes \subseteq warned'
    BY <1>3 DEF PollFinds, WaitEnds, WaiterEnds, HeadInv, Current
  <2>3. wiper.step = "idle"
    BY <2>2 DEF HeadInv, Quiet, HeadTypeOK
  <2>4. HeadTypeOK'
    BY <2>1, <2>2 DEF HeadInv, HeadTypeOK, TimeoutCodes
  <2>5. Tracked' /\ Quiet' /\ Current'
    BY <2>1, <2>2, <2>3 DEF HeadInv, Tracked, Quiet, Current, Live
  <2>6. Gone' /\ FallbackTold'
    BY <2>1, <2>2 DEF HeadInv, Gone, FallbackTold, TimeoutCodes
  <2> QED BY <2>4, <2>5, <2>6 DEF HeadInv
<1>4. CASE WipeBegins
  <2>1. PICK kind \in {"reextract", "delete"} :
          /\ wiper.step = "idle"
          /\ rowLeft
          /\ kind = "reextract" => epoch <= MaxReextracts
          /\ wiper' = [step |-> "abort", kind |-> kind, awaits |-> Cancels]
          /\ waiter' = "over"
          /\ refiner' = [r \in Refiners |-> IF r = Cancels THEN [refiner[r] EXCEPT !.state = "cancelled"] ELSE refiner[r]]
          /\ UNCHANGED <<registered, stored, warned, read, epoch, rowLeft>>
    BY <1>4 DEF WipeBegins
  <2>2. /\ Cancels \in Refiners \cup {0}
        /\ \A r \in Refiners : Live(r) => Cancels = r
        /\ Cancels # 0 => Live(Cancels) /\ Cancels = registered
    BY DEF Cancels, HeadInv, HeadTypeOK, Tracked, Live, Refiners
  <2>3. /\ refiner' \in [Refiners -> [state : {"unborn", "working", "cancelled", "done"}, gen : 0..(MaxReextracts + 1)]]
        /\ \A r \in Refiners : refiner'[r].gen = refiner[r].gen
        /\ \A r \in Refiners : r # Cancels => refiner'[r] = refiner[r]
        /\ \A r \in Refiners : r = Cancels => refiner'[r].state = "cancelled"
    BY <2>1 DEF HeadInv, HeadTypeOK
  <2>4. \A r \in Refiners : Live(r)' => Live(r) /\ r = Cancels /\ refiner'[r].state = "cancelled"
    <3> TAKE r \in Refiners
    <3>1. CASE r = Cancels
      BY <3>1, <2>2, <2>3 DEF Refiners
    <3>2. CASE r # Cancels
      BY <3>2, <2>2, <2>3 DEF Live
    <3> QED BY <3>1, <3>2
  <2>5. HeadTypeOK'
    BY <2>1, <2>2, <2>3 DEF HeadInv, HeadTypeOK
  <2>6. Tracked'
    BY <2>1, <2>2, <2>3, <2>4 DEF HeadInv, HeadTypeOK, Tracked, Live
  <2>7. Quiet'
    BY <2>1, <2>4 DEF HeadInv, Quiet
  <2>8. Current'
    BY <2>1, <2>3, <2>4 DEF HeadInv, Current
  <2>9. Gone' /\ FallbackTold'
    BY <2>1 DEF HeadInv, Gone, FallbackTold
  <2> QED BY <2>5, <2>6, <2>7, <2>8, <2>9 DEF HeadInv
<1>5. CASE Aborted
  <2>1. /\ wiper.step = "abort"
        /\ wiper.awaits # 0 => refiner[wiper.awaits].state = "done"
        /\ wiper' = [wiper EXCEPT !.step = "purge"]
        /\ UNCHANGED <<refiner, registered, stored, warned, waiter, read, epoch, rowLeft>>
    BY <1>5 DEF Aborted
  <2>2. \A r \in Refiners : ~Live(r)
    BY <2>1 DEF HeadInv, Quiet, Live, Refiners
  <2>3. /\ HeadTypeOK'
        /\ wiper'.step = "purge" /\ wiper'.kind = wiper.kind
    BY <2>1 DEF HeadInv, HeadTypeOK
  <2>4. Tracked' /\ Quiet' /\ Current'
    BY <2>1, <2>2, <2>3 DEF HeadInv, Tracked, Quiet, Current, Live
  <2>5. Gone' /\ FallbackTold'
    BY <2>1 DEF HeadInv, Gone, FallbackTold
  <2> QED BY <2>3, <2>4, <2>5 DEF HeadInv
<1>6. CASE PurgeFails
  <2>1. /\ wiper.step = "purge"
        /\ wiper' = [step |-> "idle", kind |-> "none", awaits |-> 0]
        /\ UNCHANGED <<refiner, registered, stored, warned, waiter, read, epoch, rowLeft>>
    BY <1>6 DEF PurgeFails
  <2>2. HeadTypeOK'
    BY <2>1 DEF HeadInv, HeadTypeOK
  <2>3. Tracked' /\ Quiet' /\ Current'
    BY <2>1 DEF HeadInv, Tracked, Quiet, Current, Live
  <2>4. Gone' /\ FallbackTold'
    BY <2>1 DEF HeadInv, Gone, FallbackTold
  <2> QED BY <2>2, <2>3, <2>4 DEF HeadInv
<1>7. CASE ReextractEnds
  <2>1. /\ wiper.step = "purge" /\ wiper.kind = "reextract"
        /\ registered = 0 => Unborn # {}
        /\ stored' = NoRecord /\ warned' = {} /\ epoch' = epoch + 1 /\ read' = "nothing"
        /\ refiner' = Ensured(refiner, registered, epoch + 1).tasks
        /\ registered' = Ensured(refiner, registered, epoch + 1).reg
        /\ waiter' = "ingest"
        /\ wiper' = [step |-> "idle", kind |-> "none", awaits |-> 0]
        /\ UNCHANGED rowLeft
    BY <1>7, Zenon DEF ReextractEnds, Start, ClearedHead
  <2>2. epoch + 1 \in 1..(MaxReextracts + 1)
    BY <2>1 DEF HeadInv, Quiet, HeadTypeOK
  <2>3. \A r \in Refiners : ~Live(r)
    BY <2>1 DEF HeadInv, Quiet
  <2>4. /\ refiner' \in [Refiners -> [state : {"unborn", "working", "cancelled", "done"}, gen : 0..(MaxReextracts + 1)]]
        /\ registered' \in Refiners
        /\ Tracked'
        /\ \A r \in Refiners : Live(r)' => (Live(r) /\ refiner'[r] = refiner[r]) \/ (refiner'[r].gen = epoch + 1 /\ registered = 0)
    BY <2>1, <2>2, ScheduleTracks
  <2>5. HeadTypeOK'
    BY <2>1, <2>2, <2>4 DEF HeadInv, HeadTypeOK, Records, NoRecord
  <2>6. Quiet' /\ Current'
    BY <2>1, <2>3, <2>4 DEF Quiet, Current, NoRecord
  <2>7. Gone' /\ FallbackTold'
    BY <2>1 DEF HeadInv, Gone, FallbackTold
  <2> QED BY <2>4, <2>5, <2>6, <2>7 DEF HeadInv
<1>8. CASE DeleteEnds
  <2>1. /\ wiper.step = "purge"
        /\ stored' = NoRecord /\ rowLeft' = FALSE
        /\ wiper' = [wiper EXCEPT !.step = "end"]
        /\ UNCHANGED <<refiner, registered, warned, waiter, read, epoch>>
    BY <1>8 DEF DeleteEnds, ClearedHead
  <2>2. /\ HeadTypeOK'
        /\ wiper'.step = "end" /\ wiper'.kind = wiper.kind
    BY <2>1 DEF HeadInv, HeadTypeOK, Records
  <2>3. Tracked' /\ Quiet' /\ Current'
    BY <2>1, <2>2 DEF HeadInv, Tracked, Quiet, Current, Live, NoRecord
  <2>4. Gone' /\ FallbackTold'
    BY <2>1, <2>2 DEF HeadInv, Gone, FallbackTold
  <2> QED BY <2>2, <2>3, <2>4 DEF HeadInv
<1>9. CASE UNCHANGED headVars
  BY <1>9 DEF headVars, HeadInv, HeadTypeOK, Tracked, Quiet, Current, Gone, FallbackTold, Live
<1> QED BY <1>1, <1>2, <1>3, <1>4, <1>5, <1>6, <1>7, <1>8, <1>9 DEF HeadNext

\* The refinement, the pipeline and the requests stay within their vocabulary.
THEOREM HeadTypeCorrect == HeadSpec => []HeadTypeOK
<1>1. HeadInv => HeadTypeOK
  BY DEF HeadInv
<1> QED BY <1>1, HeadInitHolds, HeadStepKeepsInv, PTL DEF HeadSpec

\* However many refinements run and however late they end, a classifier never reads
\* the head of an earlier text, and a deleted paper has none.
THEOREM HeadNeverLeftOver == HeadSpec => []HeadOfThisText
<1>1. HeadInv => HeadOfThisText
  BY DEF HeadInv, Current, Gone, NoStaleHead, NoHeadOfDeleted, HeadOfThisText
<1> QED BY <1>1, HeadInitHolds, HeadStepKeepsInv, PTL DEF HeadSpec

\* A classification by raw snippets stays marked as long as it is the current one.
THEOREM HeadFallbackTold == HeadSpec => []FallbackTold
<1>1. HeadInv => FallbackTold
  BY DEF HeadInv
<1> QED BY <1>1, HeadInitHolds, HeadStepKeepsInv, PTL DEF HeadSpec
=============================================================================
