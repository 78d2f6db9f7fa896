------------------------------- MODULE Chunking -------------------------------
(***************************************************************************)
(* How a document becomes chunks (chunking/): sections by headers, units by  *)
(* fences, paragraphs and sentences, chunks by greedy packing, and the       *)
(* hierarchy over them; fixed windows, semantic cuts, LLM cuts.              *)
(*                                                                         *)
(* A document is a sequence of marks: a header line, a fence line, a word,   *)
(* a word that ends a sentence, a blank line.  A mark other than a blank is   *)
(* one token, its place is its offset, and a text is a sequence of places.   *)
(***************************************************************************)
EXTENDS Integers, FiniteSets, SequencesExt

CONSTANTS Marks, MaxMarks,        \* the marks of a document, and how many
          PackSizes,              \* records: size, overlap, min
          MaxTokens, MaxSentences

ASSUME ChunkingAssumption ==
  /\ Marks \subseteq {"h1", "h2", "fence", "word", "stop", "blank"}
  /\ {MaxMarks, MaxTokens, MaxSentences} \subseteq Nat
  /\ \A c \in PackSizes : /\ c.size \in Nat \ {0} /\ c.overlap \in 0..(c.size - 1)
                          /\ c.min \in 1..c.size   \* 0 stands for the default

VARIABLE chunking

Range_(lo, hi) == [i \in 1..(hi - lo + 1) |-> lo + i - 1]

Headers == {"h1", "h2"}
Level(mark) == IF mark = "h1" THEN 1 ELSE 2

\* The numbers of S in order, and what s has at the places of I.
Ascending(S) ==
  [i \in 1..Cardinality(S) |-> CHOOSE x \in S : Cardinality({y \in S : y < x}) = i - 1]
Kept(s, I) ==
  LET at == Ascending(I) IN [n \in DOMAIN at |-> s[at[n]]]

Solid(doc, s) == {i \in DOMAIN s : doc[s[i]] # "blank"}
Stripped(doc, s) == Kept(s, Solid(doc, s))
NonEmpty(ss) == Kept(ss, {n \in DOMAIN ss : ss[n] # <<>>})

\* str.strip() on a run of places.
Strip(doc, s) ==
  LET at == Ascending(Solid(doc, s))
  IN IF at = <<>> THEN <<>> ELSE SubSeq(s, at[1], at[Len(at)])

\* A run of places split before those at the indices of cuts.
SplitBefore(s, cuts) ==
  LET at == Ascending({i \in DOMAIN s : i = 1 \/ i \in cuts})
      end(n) == IF n = Len(at) THEN Len(s) ELSE at[n + 1] - 1
  IN [n \in DOMAIN at |-> SubSeq(s, at[n], end(n))]

-----------------------------------------------------------------------------
(* Sections (split_into_sections).                                         *)

Pops(doc, g, h) == Level(doc[g]) >= Level(doc[h])

\* The header path: deeper or equal headers are popped before one is pushed.
Pushed(doc, path, h) ==
  Append(Kept(path, {i \in DOMAIN path : ~ Pops(doc, path[i], h)}), h)

Breadcrumb(doc, headers) ==
  LET stack[i \in 0..Len(headers)] ==
        IF i = 0 THEN <<>> ELSE Pushed(doc, stack[i - 1], headers[i])
  IN stack[Len(headers)]

Sections(doc) ==
  LET headers == Ascending({p \in DOMAIN doc : doc[p] \in Headers})
      pre == Strip(doc, Range_(1, headers[1] - 1))
      next(i) == IF i = Len(headers) THEN Len(doc) + 1 ELSE headers[i + 1]
      scope(i) ==
        [path |-> Breadcrumb(doc, SubSeq(headers, 1, i)),
         start |-> headers[i], end |-> next(i) - 1,
         body |-> Strip(doc, Range_(headers[i] + 1, next(i) - 1))]
      whole == [path |-> <<>>, start |-> 1, end |-> Len(doc),
                body |-> Strip(doc, Range_(1, Len(doc)))]
      lead == [path |-> <<>>, start |-> 1, end |-> headers[1] - 1, body |-> pre]
  IN IF headers = <<>> THEN <<whole>>
     ELSE (IF pre = <<>> THEN <<>> ELSE <<lead>>)
            \o [i \in DOMAIN headers |-> scope(i)]

-----------------------------------------------------------------------------
(* Units (split_around_code_blocks, units_for_section, degrade_paragraph).   *)

Fences(doc, body, i) == {j \in 1..i : doc[body[j]] = "fence"}
Opens(doc, body, i) ==
  doc[body[i]] = "fence" /\ Cardinality(Fences(doc, body, i)) % 2 = 1

\* Runs of code and of prose; a fence never closed runs to the end.
Pieces(doc, body) ==
  SplitBefore(body, {i \in 2..Len(body) :
    \/ Opens(doc, body, i)
    \/ doc[body[i - 1]] = "fence" /\ ~ Opens(doc, body, i - 1)})

Paragraphs(doc, piece) ==
  LET parts == SplitBefore(piece, {i \in DOMAIN piece : doc[piece[i]] = "blank"})
  IN NonEmpty([n \in DOMAIN parts |-> Strip(doc, parts[n])])

Sentences(doc, run) ==
  LET parts == SplitBefore(run, {i \in 2..Len(run) : doc[run[i - 1]] = "stop"})
  IN NonEmpty([n \in DOMAIN parts |-> Strip(doc, parts[n])])

\* A sentence that is too long is cut into packs of words.
Degrade(doc, para, size) ==
  LET packs(s) == IF Len(s) <= size THEN <<s>>
                  ELSE SplitBefore(s, {i \in DOMAIN s : (i - 1) % size = 0})
      sentences == Sentences(doc, para)
  IN FlattenSeq([n \in DOMAIN sentences |-> packs(sentences[n])])

UnitsOf(doc, body, size) ==
  LET pieces == Pieces(doc, body)
      ofProse(para) == IF Len(para) <= size THEN <<para>>
                       ELSE Degrade(doc, para, size)
      paras(p) == Paragraphs(doc, p)
      units(p) == IF doc[p[1]] = "fence" THEN <<Strip(doc, p)>>
                  ELSE FlattenSeq([n \in DOMAIN paras(p) |->
                                     ofProse(paras(p)[n])])
  IN FlattenSeq([n \in DOMAIN pieces |-> units(pieces[n])])

-----------------------------------------------------------------------------
(* Packing (pack_units).  A unit has its own places and the header places    *)
(* put before them; a chunk has its text, the places of its own units, its  *)
(* section, and the packed chunks that were merged in it.                    *)

LastOf(s, n) == SubSeq(s, IF Len(s) > n THEN Len(s) - n + 1 ELSE 1, Len(s))
TextOf(units) ==
  FlattenSeq([i \in DOMAIN units |-> units[i].head \o units[i].own])
OwnOf(units) == FlattenSeq([i \in DOMAIN units |-> units[i].own])

Count(doc, s) == Cardinality(Solid(doc, s))
Render(s) == s.prefix \o TextOf(s.buf)
Over(doc, s, c) == Count(doc, Render(s)) > c.size

\* _flush: the next chunk starts with the end of this one.
Flush(doc, s, c, ord) ==
  LET text == Render(s)
      chunk == [text |-> text, own |-> OwnOf(s.buf), ord |-> ord,
                parts |-> <<[units |-> Len(s.buf), size |-> Count(doc, text)]>>]
  IN [out |-> IF text = <<>> THEN s.out ELSE Append(s.out, chunk),
      buf |-> <<>>,
      prefix |-> IF c.overlap = 0 THEN <<>>
                 ELSE LastOf(Stripped(doc, text), c.overlap)]

Push(s, u) == [s EXCEPT !.buf = Append(@, u)]

\* A unit that does not fit starts a chunk, and one that does not fit with
\* the overlap goes without; one that is too large even so is a chunk itself.
AddUnit(doc, s, u, c, ord) ==
  LET t == IF s.buf # <<>> /\ Over(doc, Push(s, u), c)
           THEN Push(Flush(doc, s, c, ord), u) ELSE Push(s, u)
      bare == IF Over(doc, t, c) THEN [t EXCEPT !.prefix = <<>>] ELSE t
  IN IF Over(doc, bare, c) THEN Flush(doc, bare, c, ord) ELSE bare

Pack(doc, units, c, ord) ==
  LET packing[i \in 0..Len(units)] ==
        IF i = 0 THEN [out |-> <<>>, buf |-> <<>>, prefix |-> <<>>]
        ELSE AddUnit(doc, packing[i - 1], units[i], c, ord)
  IN Flush(doc, packing[Len(units)], c, ord).out

Small(doc, chunk, c) == Count(doc, chunk.text) < c.min
Join(a, b) == [text |-> a.text \o b.text, own |-> a.own \o b.own,
               ord |-> a.ord, parts |-> a.parts \o b.parts]

\* Mutant: whatever the size.
AbsorbsAny(doc, before, chunk, c) ==
  before.ord = chunk.ord /\ Small(doc, before, c)

\* A small chunk takes the next one of its section, if both fit.
Absorbs(doc, before, chunk, c) ==
  /\ before.ord = chunk.ord /\ Small(doc, before, c)
  /\ Count(doc, Join(before, chunk).text) <= c.size

\* merge_small_chunks; a small last one goes to the one before in any case.
Absorb(doc, out, chunk, c) ==
  IF out # <<>> /\ Absorbs(doc, Last(out), chunk, c)
  THEN Append(Front(out), Join(Last(out), chunk))
  ELSE Append(out, chunk)

MergeSmall(doc, chunks, c) ==
  LET merging[i \in 0..Len(chunks)] ==
        IF i = 0 THEN <<>> ELSE Absorb(doc, merging[i - 1], chunks[i], c)
      out == merging[Len(chunks)]
      n == Len(out)
  IN IF c.min <= 1 THEN chunks
     ELSE IF n >= 2 /\ out[n].ord = out[n - 1].ord /\ Small(doc, out[n], c)
     THEN Append(SubSeq(out, 1, n - 2), Join(out[n - 1], out[n]))
     ELSE out

-----------------------------------------------------------------------------
(* The strategies.  Only recursive and llm tag a leaf with its section.      *)

NoSection == -1

WithHeader(section, runs) ==
  [i \in DOMAIN runs |-> [own |-> runs[i],
                          head |-> IF i = 1 THEN section.path ELSE <<>>]]

Leaves_(doc, strategy, c) ==
  LET sections == Sections(doc)
      ord(n) == IF strategy = "recursive" THEN n - 1 ELSE NoSection
      packed(n) ==
        IF sections[n].body = <<>> THEN <<>>
        ELSE Pack(doc, WithHeader(sections[n],
                         UnitsOf(doc, sections[n].body, c.size)), c, ord(n))
  IN MergeSmall(doc, FlattenSeq([n \in DOMAIN sections |-> packed(n)]), c)

\* build_hierarchy: the document, a row for a section with a body, the leaves.
Hierarchy(doc, leaves) ==
  LET sections == Sections(doc)
      solid == Ascending({n \in DOMAIN sections : sections[n].body # <<>>})
  IN <<[key |-> <<"document">>, parent |-> <<>>,
        text |-> Strip(doc, Range_(1, Len(doc)))]>>
       \o [i \in DOMAIN solid |->
             [key |-> <<"section", solid[i] - 1>>, parent |-> <<"document">>,
              text |-> sections[solid[i]].path \o sections[solid[i]].body]]
       \o [i \in DOMAIN leaves |->
             [key |-> <<"chunk", i - 1>>, text |-> leaves[i].text,
              parent |-> IF leaves[i].ord = NoSection THEN <<"document">>
                         ELSE <<"section", leaves[i].ord>>]]

-----------------------------------------------------------------------------
(* The other strategies.                                                   *)

\* _window_text: the ranges of n tokens.
Ranges(n, c) ==
  LET start(i) == (i - 1) * (c.size - c.overlap)
      reaching == {i \in 1..n : start(i) + c.size >= n}
      count == CHOOSE k \in reaching : \A i \in reaching : k <= i
  IN [i \in 1..count |->
        [from |-> start(i), to |-> IF i < count THEN start(i) + c.size ELSE n]]

\* The last window is absorbed when it is below min.
Windows(n, c) ==
  LET r == Ranges(n, c)
      k == Len(r)
  IN IF k >= 2 /\ r[k].to - r[k].from < c.min
     THEN Append(SubSeq(r, 1, k - 2), [from |-> r[k - 1].from, to |-> r[k].to])
     ELSE r

\* The k-th smallest of the numbers of s.
Smallest(s, k) ==
  CHOOSE v \in ToSet(s) : /\ Cardinality({i \in DOMAIN s : s[i] < v}) < k
                          /\ k <= Cardinality({i \in DOMAIN s : s[i] <= v})

\* _percentile, scaled by 100.
Percentile(distances, percentile) ==
  LET rank == percentile * (Len(distances) - 1)
      low == Smallest(distances, rank \div 100 + 1)
      high == Smallest(distances, (rank + 99) \div 100 + 1)
  IN 100 * low + (rank % 100) * (high - low)

\* _semantic_groups: after which sentences to cut.
Shifts(distances, percentile) ==
  {i \in DOMAIN distances :
     100 * distances[i] > Percentile(distances, percentile)}

\* _window_sentences: the sentences of each prompt.
AddSentence(s, sizes, i, budget) ==
  IF s.now # <<>> /\ s.used + sizes[i] > budget
  THEN [done |-> Append(s.done, s.now), now |-> <<i>>, used |-> sizes[i]]
  ELSE [s EXCEPT !.now = Append(@, i), !.used = @ + sizes[i]]

Prompts(sizes, budget) ==
  LET filling[i \in 0..Len(sizes)] ==
        IF i = 0 THEN [done |-> <<>>, now |-> <<>>, used |-> 0]
        ELSE AddSentence(filling[i - 1], sizes, i, budget)
      all == filling[Len(sizes)]
  IN IF all.now = <<>> THEN all.done ELSE Append(all.done, all.now)

\* _parse_break_indices and _groups_at: a prompt cut after the sentences the
\* answer names, those out of range ignored.
Groups_(prompt, answer) ==
  LET cuts == answer \cap 1..(Len(prompt) - 1)
  IN SplitBefore(prompt, {i \in DOMAIN prompt : i - 1 \in cuts})

-----------------------------------------------------------------------------
(* The cases.                                                              *)

TryDocument ==
  \E n \in 1..MaxMarks : \E doc \in [1..n -> Marks], c \in PackSizes,
     strategy \in {"recursive", "paragraph"} :
    /\ \E p \in 1..n : doc[p] # "blank"        \* not markdown.strip(): []
    /\ chunking' = [kind |-> "document", doc |-> doc, conf |-> c,
                    strategy |-> strategy, leaves |-> Leaves_(doc, strategy, c)]

TryWindows ==
  \E n \in 1..MaxTokens, c \in PackSizes :
    chunking' = [kind |-> "windows", tokens |-> n, conf |-> c,
                 ranges |-> Windows(n, c)]

TryShifts ==
  \E n \in 1..(MaxSentences - 1), percentile \in {20, 50, 95, 100} :
    \E distances \in [1..n -> 0..2] :
      chunking' = [kind |-> "shifts", distances |-> distances,
                   percentile |-> percentile,
                   cuts |-> Shifts(distances, percentile)]

TryPrompts ==
  \E n \in 1..MaxSentences, budget \in 1..3 :
    \E sizes \in [1..n -> 1..3], answer \in SUBSET (0..MaxSentences) :
      chunking' = [kind |-> "prompts", sizes |-> sizes, budget |-> budget,
                   prompts |-> Prompts(sizes, budget), answer |-> answer]

NothingChunked == [kind |-> "none"]

ChunkingInit == chunking = NothingChunked

ChunkingNext ==
  /\ chunking = NothingChunked
  /\ TryDocument \/ TryWindows \/ TryShifts \/ TryPrompts

-----------------------------------------------------------------------------
(* Properties.                                                             *)

IsTry(k) == chunking.kind = k

\* Nothing of a body is lost and nothing of it is in two chunks but as an
\* overlap: the chunks' own units, in order, are the bodies of the sections.
LeavesCover ==
  IsTry("document") =>
    LET doc == chunking.doc
        leaves == chunking.leaves
        bodies == FlattenSeq([n \in DOMAIN Sections(doc) |->
                                Sections(doc)[n].body])
    IN Stripped(doc, FlattenSeq([i \in DOMAIN leaves |-> leaves[i].own]))
         = Stripped(doc, bodies)

\* A chunk over chunk_size is one unit, or the last one and ends in a small
\* tail; a small chunk is left only where it does not fit with the next one of
\* its section, or has none beside it; only behind a chunk that is one unit
\* too large is there a chunk with nothing in it but the overlap.  A small chunk
\* may well fit with the one before, against docs/ingest-pipeline.md.
PackedToSize ==
  IsTry("document") =>
    LET doc == chunking.doc
        c == chunking.conf
        leaves == chunking.leaves
        tokens(i) == Count(doc, leaves[i].text)
        last(i) == i = Len(leaves)
        next(i) == i < Len(leaves) /\ leaves[i + 1].ord = leaves[i].ord
        prior(i) == i > 1 /\ leaves[i - 1].ord = leaves[i].ord
    IN \A i \in DOMAIN leaves :
         /\ tokens(i) > c.size =>
              \/ Len(leaves[i].parts) = 1 /\ leaves[i].parts[1].units = 1
              \/ last(i) /\ Last(leaves[i].parts).size < c.min
         /\ c.min > 1 /\ tokens(i) < c.min =>
              /\ next(i) => tokens(i) + tokens(i + 1) > c.size
              /\ last(i) => ~ prior(i)
         /\ leaves[i].own = <<>> =>
              /\ c.overlap > 0 /\ i > 1 /\ tokens(i - 1) > c.size
              /\ Last(leaves[i - 1].parts).units = 1

\* Every row but the document has a parent, and what a leaf has of the document
\* without header and overlap is in it; no key is used twice; and the header
\* path of a section is the headers above it that none closed.  The leaves of
\* the strategy paragraph have no section: one may hold text of two, and its
\* parent is the document, against docs/ingest-pipeline.md.
ParentsHold ==
  IsTry("document") =>
    LET doc == chunking.doc
        leaves == chunking.leaves
        rows == Hierarchy(doc, leaves)
        closes(g, k, h) == g < k /\ k <= h /\ doc[k] \in Headers
                             /\ Level(doc[k]) <= Level(doc[g])
    IN /\ \A i \in DOMAIN rows : rows[i].parent # <<>> =>
            \E j \in 1..(i - 1) :
              /\ rows[j].key = rows[i].parent
              /\ rows[i].key[1] = "chunk" =>
                   ToSet(leaves[rows[i].key[2] + 1].own) \subseteq ToSet(rows[j].text)
       /\ \A i, j \in DOMAIN rows : rows[i].key = rows[j].key => i = j
       /\ \A n \in DOMAIN Sections(doc) :
            LET s == Sections(doc)[n]
            IN s.path # <<>> =>
                 ToSet(s.path) =
                   {g \in 1..s.start : doc[g] \in Headers /\
                      \A k \in 1..Len(doc) : ~ closes(g, k, s.start)}

\* Fixed windows cover every token, each one sharing the overlap with the one
\* before; all but the last are full, and the last is not too small.
WindowsCover ==
  IsTry("windows") =>
    LET r == chunking.ranges
        c == chunking.conf
        k == Len(r)
        size(i) == r[i].to - r[i].from
    IN /\ r[1].from = 0 /\ r[k].to = chunking.tokens
       /\ \A i \in 1..(k - 1) :
            r[i + 1].from = r[i].to - c.overlap /\ size(i) = c.size
       /\ size(k) < c.size + c.min
       /\ k > 1 => size(k) >= c.min

Weight(sizes, s) ==
  LET total[i \in 0..Len(s)] == IF i = 0 THEN 0 ELSE total[i - 1] + sizes[s[i]]
  IN total[Len(s)]

\* The cuts are at the largest distances and no more of them than the
\* percentile leaves; the prompts keep the sentences, in their order, within
\* the budget, and cut after every sentence the answer rightly names.
CutsSound ==
  /\ IsTry("shifts") =>
       LET d == chunking.distances
           m == Len(d)
       IN /\ \A i \in chunking.cuts, j \in DOMAIN d \ chunking.cuts : d[i] > d[j]
          /\ Cardinality(chunking.cuts)
               <= m - 1 - (chunking.percentile * (m - 1)) \div 100
  /\ IsTry("prompts") =>
       LET p == chunking.prompts
           sum(s) == Weight(chunking.sizes, s)
           groups(n) == Groups_(p[n], chunking.answer)
       IN /\ FlattenSeq([n \in DOMAIN p |-> FlattenSeq(groups(n))])
               = Range_(1, Len(chunking.sizes))
          /\ \A n \in DOMAIN p :
               /\ sum(p[n]) <= chunking.budget \/ Len(p[n]) = 1
               /\ n < Len(p) =>
                    sum(p[n]) + chunking.sizes[p[n + 1][1]] > chunking.budget
               /\ \A g \in DOMAIN groups(n) : groups(n)[g] # <<>>

\* Every chunker keeps the text, its order and the sizes it was given.
ChunkingSound == LeavesCover /\ PackedToSize /\ ParentsHold /\ WindowsCover /\ CutsSound

=============================================================================
