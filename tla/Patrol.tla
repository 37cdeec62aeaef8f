------------------------------- MODULE Patrol -------------------------------
(***************************************************************************)
(* Patrol requests and the cache of their reports, while one of the papers *)
(* is reextracted.  A report is reduced to what it was made from: for each *)
(* paper the extraction its graph and its evidence stem from.  A version   *)
(* number stands for graph_version, for the graph extracted under it and   *)
(* for the index run built from that text.                                 *)
(***************************************************************************)
EXTENDS Naturals, FiniteSets

CONSTANTS
    Clients,       \* requests under way at once
    MaxVersion     \* bound: reextractions

ASSUME PatrolAssumption == MaxVersion \in Nat

Papers == {"moving", "still"}
Modes == {"lens_clash", "rag"}
Nothing == 0       \* no file, no active run, no evidence

VARIABLES
    version,       \* papers.graph_version
    graph,         \* the file of the graph store
    run,           \* active_rag_run_id
    evidence,      \* what the vector store holds: pairs of paper and run
    stage,         \* how far the reextract of the moving paper has come
    cache,         \* entries: pairs of key and report
    tour,          \* the request of each client
    purged         \* versions of the moving paper whose wipe has begun (auxiliary)

rowVars == <<version, graph, run, evidence, stage, purged>>
patrolVars == <<version, graph, run, evidence, stage, cache, tour, purged>>

Unread == [p \in Papers |-> Nothing]
Resting == [pc |-> "rest", mode |-> "lens_clash", version |-> Unread, run |-> Unread,
            graph |-> Unread, got |-> Unread, todo |-> {}, ready |-> {},
            missing |-> {}, blamed |-> {}, reason |-> "none", hit |-> FALSE]

PatrolInit ==
    /\ version = [p \in Papers |-> 1] /\ graph = version
    /\ run = version /\ evidence = {<<p, 1>> : p \in Papers}
    /\ stage = "serving" /\ cache = {} /\ purged = {}
    /\ tour = [c \in Clients |-> Resting]

-----------------------------------------------------------------------------
\* ---- The reextract -----------------------------------------------------
Wipe(from, to) == stage = from /\ stage' = to /\ UNCHANGED <<cache, tour>>

\* delete_by_paper: the collections; an outage may stop it here ...
Purge ==
    /\ Wipe("serving", "serving") /\ version["moving"] < MaxVersion
    /\ evidence' = {e \in evidence : e[1] # "moving"} /\ evidence' # evidence
    /\ purged' = purged \cup {version["moving"]}
    /\ UNCHANGED <<version, graph, run>>

\* ... then the pointer, the file ...
Unset ==
    /\ Wipe("serving", "unset") /\ <<"moving", run["moving"]>> \notin evidence
    /\ version["moving"] < MaxVersion
    /\ run' = [run EXCEPT !["moving"] = Nothing]
    /\ purged' = purged \cup {version["moving"]}
    /\ UNCHANGED <<version, graph, evidence>>

Unlink ==
    /\ Wipe("unset", "unlinked") /\ graph' = [graph EXCEPT !["moving"] = Nothing]
    /\ UNCHANGED <<version, run, evidence, purged>>

\* ... and the row: reset_for_reextract bumps the version.
Bump ==
    /\ Wipe("unlinked", "bumped") /\ version' = [version EXCEPT !["moving"] = @ + 1]
    /\ UNCHANGED <<graph, run, evidence, purged>>

\* The new pipeline saves its graph, and the handler its index, or fails to.
Save ==
    /\ Wipe("bumped", "saved")
    /\ graph' = [graph EXCEPT !["moving"] = version["moving"]]
    /\ UNCHANGED <<version, run, evidence, purged>>

Index ==
    /\ Wipe("saved", "serving")
    /\ \/ /\ run' = [run EXCEPT !["moving"] = version["moving"]]
          /\ evidence' = evidence \cup {<<"moving", version["moving"]>>}
       \/ UNCHANGED <<run, evidence>>
    /\ UNCHANGED <<version, graph, purged>>

-----------------------------------------------------------------------------
\* ---- PatrolService.run_patrol ------------------------------------------
At(c, pc) == tour[c].pc = pc
Goes(c, t) == tour' = [tour EXCEPT ![c] = t]
Reading(c, t) == Goes(c, t) /\ UNCHANGED <<rowVars, cache>>

Request(c, mode) ==
    /\ At(c, "rest")
    /\ Reading(c, [Resting EXCEPT !.pc = "version", !.mode = mode, !.todo = Papers])

\* collect_patrol_paper_fingerprint: two reads for each paper
ReadVersion(c, p) ==
    /\ At(c, "version") /\ p \in tour[c].todo
    /\ Reading(c, [tour[c] EXCEPT !.pc = "run", !.version[p] = version[p], !.todo = {p}])

ReadRun(c, p) ==
    LET seen == [tour[c].version EXCEPT ![p] = 1]
        rest == {q \in Papers : seen[q] = Nothing}
    IN /\ At(c, "run") /\ p \in tour[c].todo
       /\ Reading(c, [tour[c] EXCEPT !.run[p] = run[p], !.todo = rest,
                        !.pc = IF rest = {} THEN "lookup" ELSE "version"])

\* Mutant: the key has the runs and not the versions.
KeyByRun(t) == <<t.mode, t.run>>

\* build_patrol_cache_key
Key(t) == <<t.mode, t.version, t.run>>

Entry(t) == {e \in cache : e[1] = Key(t)}

Lookup(c) ==
    /\ At(c, "lookup")
    /\ LET t == tour[c]
       IN IF Entry(t) # {}
          THEN Reading(c, [(CHOOSE e \in Entry(t) : TRUE)[2] EXCEPT
                             !.pc = "answered", !.hit = TRUE, !.version = t.version, !.run = t.run])
          ELSE Reading(c, [t EXCEPT !.pc = "load", !.todo = Papers])

-----------------------------------------------------------------------------
\* ---- run_patrol and the analysers --------------------------------------
LoadPaper(c, p) ==
    LET rest == tour[c].todo \ {p}
    IN /\ At(c, "load") /\ p \in tour[c].todo
       /\ Reading(c, IF graph[p] = Nothing THEN [tour[c] EXCEPT !.pc = "refused"]
                     ELSE [tour[c] EXCEPT !.graph[p] = graph[p], !.todo = rest,
                             !.pc = IF rest = {} THEN "analyse" ELSE "load"])

\* The analyser ends early for want of nodes, needs no evidence, asks for it,
\* or fails in the backfill of claims, which nothing catches.
Analyse(c) ==
    /\ At(c, "analyse")
    /\ \/ Reading(c, [tour[c] EXCEPT !.pc = "report", !.ready = {}])
       \/ /\ tour[c].mode = "rag"
          /\ Reading(c, [tour[c] EXCEPT !.pc = "probe", !.todo = Papers])
       \/ tour[c].mode = "rag" /\ Reading(c, [tour[c] EXCEPT !.pc = "refused"])

\* merge_degradation_profiles
Priority == [none |-> 0, QUERY_FAILED |-> 1, INDEX_NOT_READY |-> 2, UNAVAILABLE |-> 3]
Merge(old, new) == IF Priority[new] > Priority[old] THEN new ELSE old

\* _probe_index_readiness: exists() of each paper; it may find the store down,
\* or fail otherwise, which counts as a missing index.
Probe(c, p, outcome) ==
    LET found == outcome = "ok" /\ run[p] # Nothing
        t == [tour[c] EXCEPT !.todo = @ \ {p},
                !.ready = IF found THEN @ \cup {p} ELSE @,
                !.missing = IF found THEN @ ELSE @ \cup {p},
                !.reason = IF outcome = "down" THEN "UNAVAILABLE" ELSE @]
    IN /\ At(c, "probe") /\ p \in tour[c].todo /\ Reading(c, t)

\* What the probes say: nothing is asked when the store is down.
Probed(c) ==
    LET t == tour[c]
        down == t.reason = "UNAVAILABLE"
        reason == IF down \/ t.missing = {} THEN t.reason ELSE "INDEX_NOT_READY"
        ask == IF down THEN {} ELSE t.ready
    IN /\ At(c, "probe") /\ t.todo = {}
       /\ Reading(c, [t EXCEPT !.reason = reason, !.blamed = t.missing, !.todo = ask,
                        !.pc = IF ask = {} THEN "report" ELSE "query"])

\* A query that fails adds its paper to the profile.
Blame(t, p, reason) == [t EXCEPT !.reason = Merge(@, reason), !.blamed = @ \cup {p}]

QueryChunks(c, p) ==
    LET t == [tour[c] EXCEPT !.todo = @ \ {p},
                !.pc = IF tour[c].todo = {p} THEN "report" ELSE "query"]
        hits == run[p] # Nothing /\ <<p, run[p]>> \in evidence
    IN /\ At(c, "query") /\ p \in tour[c].todo
       /\ \/ Reading(c, [t EXCEPT !.got[p] = IF hits THEN run[p] ELSE Nothing])
          \/ Reading(c, Blame(t, p, "QUERY_FAILED"))
          \/ Reading(c, Blame(t, p, "UNAVAILABLE"))

-----------------------------------------------------------------------------
\* ---- The cache ---------------------------------------------------------
\* Mutant: every report is kept.
CacheableAlways(t) == TRUE

\* report_has_rag_degradation
Cacheable(t) == t.reason = "none"

Answer(c) ==
    /\ At(c, "report")
    /\ Goes(c, [tour[c] EXCEPT !.pc = "answered"])
    /\ cache' = IF Cacheable(tour[c])
                THEN (cache \ Entry(tour[c])) \cup {<<Key(tour[c]), [tour[c] EXCEPT !.pc = "rest"]>>}
                ELSE cache
    /\ UNCHANGED rowVars

\* The lifetime of an entry is over.
Forget(e) ==
    /\ e \in cache /\ cache' = cache \ {e} /\ UNCHANGED <<rowVars, tour>>

Leaves(c) ==
    /\ tour[c].pc \in {"answered", "refused"} /\ Reading(c, Resting)

PatrolNext ==
    \/ Purge \/ Unset \/ Unlink \/ Bump \/ Save \/ Index
    \/ \E c \in Clients, m \in Modes : Request(c, m)
    \/ \E c \in Clients, p \in Papers :
          \/ ReadVersion(c, p) \/ ReadRun(c, p) \/ LoadPaper(c, p) \/ QueryChunks(c, p)
          \/ \E o \in {"ok", "down", "error"} : Probe(c, p, o)
    \/ \E c \in Clients :
          Lookup(c) \/ Analyse(c) \/ Probed(c) \/ Answer(c) \/ Leaves(c)
    \/ \E e \in cache : Forget(e)

PatrolSpec == PatrolInit /\ [][PatrolNext]_patrolVars

-----------------------------------------------------------------------------
\* A report from the cache is about the extraction that was current when the
\* request came, or a later one: a reextract makes it unreachable.
ServedIsCurrent ==
    \A c \in Clients : At(c, "answered") /\ tour[c].hit =>
        \A p \in Papers : tour[c].graph[p] >= tour[c].version[p]

\* A report from the cache whose analyser asked for evidence has it for both
\* papers, unless a reextract has begun to wipe the version that it names.
NoThinReportServed ==
    \A c \in Clients : At(c, "answered") /\ tour[c].hit /\ tour[c].ready # {} =>
        /\ tour[c].got["still"] # Nothing
        /\ tour[c].got["moving"] # Nothing \/ tour[c].version["moving"] \in purged

\* A report that does not say it is thin had an answer about every paper it
\* asked for, and one that says so names the worst reason.
ThinReportsSaySo ==
    \A c \in Clients : At(c, "answered") /\ (tour[c].ready \cup tour[c].missing) # {} =>
        /\ tour[c].reason = "none" <=> tour[c].blamed = {}
        /\ tour[c].reason = "none" => tour[c].ready = Papers
        /\ tour[c].missing # {} => tour[c].reason \in {"INDEX_NOT_READY", "UNAVAILABLE"}

\* A patrol that lacks the evidence of a paper says so, and is not served again.
ThinReportsTold == NoThinReportServed /\ ThinReportsSaySo
=============================================================================
