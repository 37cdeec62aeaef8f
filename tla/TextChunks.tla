----------------------------- MODULE TextChunks -----------------------------
(***************************************************************************)
(* How the text of a paper is cut: into overlapping slices for the index   *)
(* (rag/chunking.py) and into anchored pieces for the extraction of a long *)
(* paper (ingest/chunking.py).                                             *)
(*                                                                         *)
(* For the index a text is a sequence of symbols: "a" a letter, "." the    *)
(* end of a sentence, " " a blank, "/" the blank line between paragraphs,  *)
(* "M" and "R" a heading, "R" that of the references.  Positions count     *)
(* from 1 and a slice ends before its end.                                 *)
(*                                                                         *)
(* For the extraction a text is a sequence of sections, a section one of   *)
(* paragraphs, a paragraph one of lengths of sentences; what separates     *)
(* them has no length.                                                     *)
(***************************************************************************)
EXTENDS Naturals, Integers, Sequences, FiniteSets, SequencesExt, FiniteSetsExt

Least(a, b) == IF a < b THEN a ELSE b
Most(a, b) == IF a > b THEN a ELSE b

Blank == {" ", "/"}
Headings == {"M", "R"}

-----------------------------------------------------------------------------
\* ---- The index: opt is [size, overlap, window, min, refs] ---------------
Slice(section, start, end) == [section |-> section, start |-> start, end |-> end]
Solid(t, s) == {i \in s.start..(s.end - 1) : t[i] \notin Blank}

\* _trim_bounds; an empty slice is left out by the callers.
Trim(t, s) ==
    IF Solid(t, s) = {} THEN Slice(s.section, s.start, s.start)
    ELSE Slice(s.section, Min(Solid(t, s)), Max(Solid(t, s)) + 1)

NotEmpty(slices) == SelectSeq(slices, LAMBDA s : s.start < s.end)

\* _section_slices: what stands before the first heading has no section.
SectionSlices(t) ==
    LET heads == SetToSortSeq({i \in DOMAIN t : t[i] \in Headings}, <)
        Until(k) == IF k < Len(heads) THEN heads[k + 1] ELSE Len(t) + 1
    IN IF heads = <<>> THEN NotEmpty(<<Trim(t, Slice("none", 1, Len(t) + 1))>>)
       ELSE NotEmpty(<<Trim(t, Slice("none", 1, heads[1]))>>
               \o [k \in DOMAIN heads |-> Trim(t, Slice(t[heads[k]], heads[k] + 1, Until(k)))])

\* Mutant: any boundary in the window will do.
MinEndAtStart(start, target, opt) == start

\* A boundary is looked for in the second half of the window.
MinEnd(start, target, opt) ==
    Least(start + Most(opt.window, (target - start) \div 2), target)

\* _find_soft_boundary: the last blank line, else the last end of a sentence.
SoftBoundary(t, start, target, hard, opt) ==
    LET Found(m) == {i \in MinEnd(start, target, opt)..(target - 1) : t[i] = m}
    IN IF target >= hard THEN hard
       ELSE IF Found("/") # {} THEN Max(Found("/")) + 1
       ELSE IF Found(".") # {} THEN Max(Found(".")) + 1
       ELSE target

\* _split_slice: the next slice starts an overlap before the end of the last, but
\* never less than a step after its start.
SplitSlice(t, s, opt) ==
    LET step == Most(1, opt.size - opt.overlap)
        Cut[start \in 1..(s.end + opt.size)] ==
            IF start >= s.end THEN <<>>
            ELSE LET end == SoftBoundary(t, start, Least(start + opt.size, s.end), s.end, opt)
                 IN NotEmpty(<<Trim(t, Slice(s.section, start, end))>>)
                      \o IF end >= s.end THEN <<>>
                         ELSE Cut[Most(end - opt.overlap, start + step)]
    IN IF s.end - s.start <= opt.size THEN <<s>> ELSE Cut[s.start]

\* _join_slices: with everything that lies between the two.
Join(t, a, b) == Trim(t, Slice(IF a.section # "none" THEN a.section ELSE b.section, a.start, b.end))

\* One step of _merge_tiny_slices; pending holds at most one slice.
MergeOne(t, opt, st, s) ==
    LET active == IF st.pending = <<>> THEN s ELSE Join(t, st.pending[1], s)
        n == Len(st.merged)
    IN IF active.end - active.start >= opt.min
       THEN [merged |-> Append(st.merged, active), pending |-> <<>>]
       ELSE IF n > 0
       THEN [merged |-> [st.merged EXCEPT ![n] = Join(t, @, active)], pending |-> <<>>]
       ELSE [merged |-> <<>>, pending |-> <<active>>]

MergeTiny(t, slices, opt) ==
    LET st == FoldLeft(LAMBDA a, s : MergeOne(t, opt, a, s), [merged |-> <<>>, pending |-> <<>>], slices)
    IN IF Len(slices) <= 1 \/ opt.min = 0 THEN slices ELSE st.merged \o st.pending

\* The references are left out.
KeptSections(t, opt) ==
    SelectSeq(SectionSlices(t), LAMBDA s : opt.refs \/ s.section # "R")

\* chunk_text
IndexChunks(t, opt) ==
    MergeTiny(t, FlattenSeq([k \in DOMAIN KeptSections(t, opt) |->
                               SplitSlice(t, KeptSections(t, opt)[k], opt)]), opt)

\* _build_page_resolver: breaks lists the first position of every page but the first.
PageOf(breaks, i) ==
    LET later == {p \in DOMAIN breaks : i < breaks[p]}
    IN IF later = {} THEN Len(breaks) + 1 ELSE Min(later)

-----------------------------------------------------------------------------
\* ---- The extraction: opt is [max, overlap, least, min] ------------------
Total(lengths) == FoldLeft(LAMBDA n, l : n + l, 0, lengths)

\* What a piece may hold before the tail of the piece before it is put in front.
Budget(opt) == IF opt.max - opt.overlap < opt.least THEN opt.max ELSE opt.max - opt.overlap
Echo(opt) == IF opt.max - opt.overlap < opt.least THEN 0 ELSE opt.overlap

Empty == [chunks |-> <<>>, body |-> <<>>, len |-> 0]

Flush(st) ==
    IF st.body = <<>> THEN st
    ELSE [chunks |-> Append(st.chunks, [body |-> st.body, len |-> st.len]), body |-> <<>>, len |-> 0]

\* Sentences that stay together: they go to the open piece, or open the next.
AddSentences(opt, st, ids, n) ==
    LET open == IF st.len + n > Budget(opt) THEN Flush(st) ELSE st
    IN [open EXCEPT !.body = @ \o ids, !.len = @ + n]

\* A paragraph that is too long is taken sentence by sentence.
AddParagraph(opt, st, where, p) ==
    LET ids == [k \in DOMAIN p |-> <<where[1], where[2], k>>]
    IN IF Total(p) > Budget(opt)
       THEN FoldLeft(LAMBDA a, k : AddSentences(opt, a, <<ids[k]>>, p[k]), Flush(st), [k \in DOMAIN p |-> k])
       ELSE AddSentences(opt, st, ids, Total(p))

\* _split_oversized: the pieces of a section, then the overlaps.
SplitOversized(opt, s, section) ==
    LET whole == Total([k \in DOMAIN section |-> Total(section[k])])
        cut == Flush(FoldLeft(LAMBDA a, k : AddParagraph(opt, a, <<s, k>>, section[k]), Empty,
                              [k \in DOMAIN section |-> k])).chunks
        Tail1(k) == IF k = 1 THEN 0 ELSE Least(Echo(opt), cut[k - 1].len)
    IN IF whole <= opt.max
       THEN <<[body |-> FlattenSeq([k \in DOMAIN section |-> [j \in DOMAIN section[k] |-> <<s, k, j>>]]), len |-> whole]>>
       ELSE [k \in DOMAIN cut |-> [cut[k] EXCEPT !.len = @ + Tail1(k)]]

Glue(a, b) == [body |-> a.body \o b.body, len |-> a.len + b.len]

\* _merge_small_chunks: into the piece before, the first into the second.
MergeSmall(opt, chunks) ==
    LET back == FoldLeft(LAMBDA m, c : IF c.len < opt.min /\ m # <<>>
                                       THEN Append(Front(m), Glue(Last(m), c)) ELSE Append(m, c),
                         <<>>, chunks)
    IN IF Len(back) >= 2 /\ back[1].len < opt.min
       THEN <<Glue(back[1], back[2])>> \o SubSeq(back, 3, Len(back))
       ELSE back

\* chunk_text of ingest; sections without text are no sections.
ExtractChunks(sections, opt) ==
    MergeSmall(opt, FlattenSeq([s \in DOMAIN sections |-> SplitOversized(opt, s, sections[s])]))

-----------------------------------------------------------------------------
\* What the slices of an index hold.
Held(slices) == UNION {s.start..(s.end - 1) : s \in Range(slices)}
Wanted(t, opt) == UNION {Solid(t, s) : s \in Range(KeptSections(t, opt))}

Covers(t, opt, slices) == Wanted(t, opt) \subseteq Held(slices)

\* Slices come in the order of the text and start and end
\* with text, on pages in order; unless tiny ones are joined, each is of one
\* section, which is not the references, and no longer than a window.
SlicesWellFormed(t, opt, slices, breaks) ==
    /\ \A k \in DOMAIN slices :
          /\ slices[k] = Trim(t, slices[k]) /\ slices[k].start < slices[k].end
          /\ PageOf(breaks, slices[k].start) <= PageOf(breaks, slices[k].end - 1)
    /\ \A k \in 2..Len(slices) :
          slices[k - 1].start < slices[k].start /\ slices[k - 1].end <= slices[k].end
    /\ opt.min = 0 =>
          \A s \in Range(slices) :
             /\ s.end - s.start <= opt.size
             /\ \A i \in s.start..(s.end - 1) : t[i] \notin Headings
             /\ s.section = "R" => opt.refs

AllIds(sections) ==
    FlattenSeq([s \in DOMAIN sections |-> FlattenSeq([k \in DOMAIN sections[s] |->
        [j \in DOMAIN sections[s][k] |-> <<s, k, j>>]])])

\* Every sentence is the own text of one piece, in the order of the paper.
ReadsAllOnce(sections, chunks) ==
    FlattenSeq([k \in DOMAIN chunks |-> chunks[k].body]) = AllIds(sections)

\* Only a sentence that is too long makes a piece too long.
PiecesFit(opt, chunks) ==
    \A c \in Range(chunks) : opt.min = 0 /\ c.len > opt.max => Len(c.body) = 1
=============================================================================
