----------------------------- MODULE QaStream -----------------------------
(***************************************************************************)
(* The answer stream of one question: the model's text arrives in deltas,  *)
(* citation markers are cut out of it, the rest passes a sanitizer that    *)
(* removes Markdown, and the assembled answer is sanitized once more.      *)
(*                                                                         *)
(* A text is a sequence of characters.  "C" stands for the letters CITE:   *)
(* (with the kind of the citation), so that a marker is [C value ]; "x" is *)
(* any letter, "." any Chinese punctuation mark, "NL" a line break.        *)
(***************************************************************************)
EXTENDS Naturals, Sequences, FiniteSets, SequencesExt

CONSTANTS
    Answers,       \* texts the model may write
    MaxDelta       \* bound: longest delta

ASSUME QaStreamAssumption == MaxDelta \in Nat \ {0}

VARIABLES
    rest,          \* what the model has not sent yet
    buffer,        \* received and not emitted
    san,           \* the state of QaTextSanitizer
    parts,         \* answer_parts, joined
    cites,         \* values of the citation events
    whole,         \* the text the model writes (auxiliary)
    phase          \* "stream", "done", "error"

streamVars == <<rest, buffer, san, parts, cites, whole, phase>>

Blank == {" ", "NL"}
From(s, i) == SubSeq(s, i, Len(s))
Upto(s, i) == SubSeq(s, 1, i)

-----------------------------------------------------------------------------
\* ---- Citation markers --------------------------------------------------
OpensAt(s, i) == i + 1 <= Len(s) /\ s[i] = "[" /\ s[i + 1] = "C"

\* _CITE_RE: the value is not empty and has no white space; where it ends.
CiteEnds(s, i) ==
    {j \in (i + 3)..Len(s) :
        /\ s[j] = "]" /\ \A k \in (i + 3)..(j - 1) : s[k] # "]"
        /\ \A k \in (i + 2)..(j - 1) : s[k] \notin Blank}

CiteStarts(s) == {i \in 1..Len(s) : OpensAt(s, i) /\ CiteEnds(s, i) # {}}
HasCite(s) == CiteStarts(s) # {}
FirstCite(s) == CHOOSE i \in CiteStarts(s) : \A k \in CiteStarts(s) : i <= k
EndOf(s, i) == CHOOSE j \in CiteEnds(s, i) : TRUE

\* _unwrap_cite_backticks
WrapEnds(s, i) ==
    {j \in (i + 4)..(Len(s) - 1) :
        s[j] = "]" /\ s[j + 1] = "tick" /\ \A k \in (i + 3)..(j - 1) : s[k] # "]"}
Wraps(s) == {i \in 1..Len(s) : s[i] = "tick" /\ OpensAt(s, i + 1) /\ WrapEnds(s, i) # {}}

RECURSIVE Unwrap(_)
Unwrap(s) ==
    IF Wraps(s) = {} THEN s
    ELSE LET i == CHOOSE w \in Wraps(s) : \A v \in Wraps(s) : w <= v
             j == CHOOSE e \in WrapEnds(s, i) : TRUE
         IN Upto(s, i - 1) \o SubSeq(s, i + 1, j) \o Unwrap(From(s, j + 2))

\* Mutant: a marker of which only the bracket has arrived is not held back.
HeldFromMarker(s) ==
    LET opens == {i \in 1..Len(s) : OpensAt(s, i)}
    IN IF opens # {} THEN CHOOSE i \in opens : \A k \in opens : k <= i
       ELSE Len(s) + 1

\* _split_incomplete_cite, for a buffer without a complete marker: where the
\* part that is held back begins.
HeldFrom(s) ==
    LET opens == {i \in 1..Len(s) : OpensAt(s, i)}
    IN IF opens # {} THEN CHOOSE i \in opens : \A k \in opens : k <= i
       ELSE IF s # <<>> /\ s[Len(s)] = "[" THEN Len(s)
       ELSE Len(s) + 1

-----------------------------------------------------------------------------
\* ---- QaTextSanitizer ---------------------------------------------------
Fresh == [held |-> <<>>, tick |-> FALSE, bold |-> FALSE, star |-> FALSE,
          line |-> TRUE, space |-> <<>>]

EndsLine(s, otherwise) == IF s = <<>> THEN otherwise ELSE s[Len(s)] = "NL"

\* Blanks before punctuation go.
RECURSIVE Tight(_)
Tight(s) ==
    IF s = <<>> THEN <<>>
    ELSE LET n == Cardinality({i \in 1..Len(s) : \A k \in 1..i : s[k] = " "})
         IN IF n > 0 /\ n < Len(s) /\ s[n + 1] = "." THEN Tight(From(s, n + 1))
            ELSE <<Head(s)>> \o Tight(Tail(s))

\* A run of blanks becomes one.
Single(s) ==
    FoldLeft(LAMBDA t, c : IF c = " " /\ t # <<>> /\ t[Len(t)] = " " THEN t
                           ELSE Append(t, c), <<>>, s)

\* _polish_stream_release
Polish(z, s, flush) ==
    LET joined == IF s = <<>> THEN (IF flush THEN z.space ELSE <<>>)
                  ELSE IF s[1] = "." THEN s ELSE z.space \o s
        kept == IF s = <<>> /\ ~flush THEN z.space ELSE <<>>
        tight == Tight(joined)
        n == Cardinality({i \in 1..Len(tight) :
                            \A k \in i..Len(tight) : tight[k] = " "})
    IN IF flush \/ joined = <<>> THEN <<[z EXCEPT !.space = kept], tight>>
       ELSE <<[z EXCEPT !.space = From(tight, Len(tight) - n + 1)],
              Upto(tight, Len(tight) - n)>>

Release(z, out) ==
    <<[z EXCEPT !.held = <<>>, !.tick = FALSE, !.bold = FALSE,
                !.line = EndsLine(z.held, @)], out \o z.held>>

\* The loop of feed over the characters of one delta.
RECURSIVE Walk(_, _, _)
Walk(z, d, out) ==
    IF d = <<>> THEN <<z, out>>
    ELSE LET c == Head(d)
             two == c = "star" /\ Len(d) > 1 /\ d[2] = "star"
             hold == [z EXCEPT !.held = Append(@, c)]
             marks == Cardinality({i \in 1..Len(d) : \A k \in 1..i : d[k] \in {"#", " "}})
             rel == Release(z, out)
         IN CASE z.tick /\ c = "tick" -> Walk(rel[1], Tail(d), rel[2])
              [] z.tick /\ c # "tick" -> Walk(hold, Tail(d), out)
              [] ~z.tick /\ c = "star" /\ Len(d) = 1 -> <<[z EXCEPT !.star = TRUE], out>>
              [] ~z.tick /\ z.bold /\ two -> Walk(rel[1], From(d, 3), rel[2])
              [] ~z.tick /\ z.bold /\ ~two /\ ~(c = "star" /\ Len(d) = 1) ->
                    Walk(hold, Tail(d), out)
              [] ~z.tick /\ ~z.bold /\ c = "tick" -> Walk([z EXCEPT !.tick = TRUE], Tail(d), out)
              [] ~z.tick /\ ~z.bold /\ two -> Walk([z EXCEPT !.bold = TRUE], From(d, 3), out)
              [] ~z.tick /\ ~z.bold /\ c = "star" /\ ~two /\ Len(d) > 1 -> Walk(z, Tail(d), out)
              [] ~z.tick /\ ~z.bold /\ c = "#" /\ z.line ->
                    Walk([z EXCEPT !.line = FALSE], From(d, marks + 1), out)
              [] OTHER -> Walk([z EXCEPT !.line = c = "NL"], Tail(d), Append(out, c))

\* feed, with _consume_pending_star
Feed(z, d) ==
    LET off == [z EXCEPT !.star = FALSE]
        starred == z.star /\ d[1] = "star"
        rel == Release(off, <<>>)
        w == IF ~starred THEN Walk(off, d, <<>>)
             ELSE IF z.bold THEN Walk(rel[1], Tail(d), rel[2])
             ELSE Walk([off EXCEPT !.bold = TRUE], Tail(d), <<>>)
    IN IF d = <<>> THEN <<z, <<>>>> ELSE Polish(w[1], w[2], FALSE)

Flush(z) == Polish([Fresh EXCEPT !.line = z.line, !.space = z.space], Single(z.held), TRUE)

\* sanitize_qa_answer_final
Final(s) ==
    LET fed == Feed(Fresh, s)
        clean == fed[2] \o Flush(fed[1])[2]
        Plain(c) == c \notin {"tick", "star"}
    IN Tight(Single(SelectSeq(clean, Plain)))

-----------------------------------------------------------------------------
\* ---- _stream_llm -------------------------------------------------------
\* w is what is known while a buffer is worked off: the buffer, the sanitizer,
\* the parts and the citations.
Emit(w, s) ==
    LET fed == Feed(w.san, s)
    IN [w EXCEPT !.san = fed[1], !.parts = @ \o fed[2]]

\* One complete marker, with the text before it.
Cut(w) ==
    LET i == FirstCite(w.buffer)
        j == EndOf(w.buffer, i)
    IN [Emit(w, Upto(w.buffer, i - 1)) EXCEPT
            !.buffer = From(w.buffer, j + 1),
            !.cites = Append(@, SubSeq(w.buffer, i + 2, j - 1))]

RECURSIVE CutAll(_)
CutAll(w) == IF HasCite(w.buffer) THEN CutAll(Cut(w)) ELSE w

\* The loop over one delta.
Receive(w) ==
    LET c == CutAll(w)
        h == HeldFrom(c.buffer)
    IN [Emit(c, Upto(c.buffer, h - 1)) EXCEPT !.buffer = From(c.buffer, h)]

\* The end of the stream: complete markers, what is left unless it is blank,
\* and what the sanitizer holds.
Drain(w) ==
    LET c == CutAll(w)
        e == IF \E i \in 1..Len(c.buffer) : c.buffer[i] \notin Blank
             THEN Emit(c, c.buffer) ELSE c
    IN [e EXCEPT !.buffer = <<>>, !.parts = @ \o Flush(e.san)[2]]

Now(b) == [buffer |-> Unwrap(b), san |-> san, parts |-> parts, cites |-> cites]

StreamInit ==
    /\ whole \in Answers /\ rest = whole
    /\ buffer = <<>> /\ san = Fresh /\ parts = <<>> /\ cites = <<>>
    /\ phase = "stream"

Delta(n) ==
    /\ phase = "stream" /\ n <= Len(rest)
    /\ LET w == Receive(Now(buffer \o Upto(rest, n)))
       IN buffer' = w.buffer /\ san' = w.san /\ parts' = w.parts /\ cites' = w.cites
    /\ rest' = From(rest, n + 1)
    /\ UNCHANGED <<whole, phase>>

EndOfStream ==
    /\ phase = "stream" /\ rest = <<>>
    /\ LET w == Drain(Now(buffer))
       IN parts' = w.parts /\ cites' = w.cites
    /\ buffer' = <<>> /\ san' = Fresh /\ phase' = "done"
    /\ UNCHANGED <<rest, whole>>

\* The model breaks off: an error event, then done with what was emitted.
Breaks ==
    /\ phase = "stream" /\ phase' = "error"
    /\ UNCHANGED <<rest, buffer, san, parts, cites, whole>>

StreamNext == (\E n \in 1..MaxDelta : Delta(n)) \/ EndOfStream \/ Breaks

StreamSpec == StreamInit /\ [][StreamNext]_streamVars

-----------------------------------------------------------------------------
\* The same text in one delta.
AtOnce(s) ==
    LET w0 == [buffer |-> Unwrap(s), san |-> Fresh, parts |-> <<>>, cites |-> <<>>]
        w1 == IF s = <<>> THEN w0 ELSE Receive(w0)
    IN Drain([w1 EXCEPT !.buffer = Unwrap(@)])

Visible(s) == SelectSeq(Final(s), LAMBDA c : c \notin Blank \cup {"#"})

\* A marker that opens inside another one is cut differently when it is split.
WellMarked(s) ==
    \A i, k \in 1..Len(s) :
       i < k /\ OpensAt(s, i) /\ OpensAt(s, k) =>
          \E j \in (i + 2)..(k - 1) : s[j] \in Blank \/ (s[j] = "]" /\ j > i + 2)

\* However the model's text is split into deltas, the same citations are sent
\* in the same order.
CitationsAs(once) == phase = "done" => cites = once.cites

\* However it is split, the final answer is the same, up to white space and
\* heading marks; and after a failure it is a part of the answer from its beginning.
AnswerAs(once) ==
    LET read == Visible(parts)
        wanted == Visible(once.parts)
    IN /\ phase = "done" => read = wanted
       /\ phase = "error" => IsPrefix(read, wanted)

\* What the reader sees and which citations are looked up does not depend on where the
\* model's text happens to be cut.
StreamIndependentOfSplit ==
    phase # "stream" /\ WellMarked(whole) =>
       \A once \in {AtOnce(whole)} : CitationsAs(once) /\ AnswerAs(once)
=============================================================================
