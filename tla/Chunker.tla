------------------------------- MODULE Chunker -------------------------------
(***************************************************************************)
(* How a parsed document becomes chunks: RecursiveChunker                  *)
(* (src/src/ingestion/chunker/chunker.ts). A block is its length, the       *)
(* positions behind a blank or a full stop, its section and whether it is   *)
(* unlike the block before it; a piece of text is the block it is from and  *)
(* the positions it spans. Lengths count in units of MinChunk.              *)
(***************************************************************************)
EXTENDS Naturals, Sequences, FiniteSets, SequencesExt, FiniteSetsExt

CONSTANTS
    Blocks,        \* the blocks a document may have
    MaxBlocks,     \* their number (bound)
    MinChunk,      \* MIN_CHUNK_SIZE
    MaxChild,      \* MAX_CHILD_CHUNK_SIZE
    MaxChunk       \* MAX_CHUNK_SIZE

\* The most that the child of an image shows of one block.
MaxBeginning == MaxChild \div 2

\* The parsers reject a block without text. The limits are 200, 750 and 1500: three
\* beginnings of half a child and what is between them fit into a chunk.
ASSUME ChunkerAssumption ==
    /\ {MaxBlocks, MinChunk, MaxChild, MaxChunk} \subseteq Nat
    /\ 0 < MinChunk /\ MinChunk < MaxChild /\ MaxChild <= MaxChunk
    /\ 3 * MaxBeginning + 2 <= MaxChunk
    /\ \A b \in Blocks : b.len \in Nat \ {0} /\ b.cuts \subseteq 1 .. b.len

VARIABLE blocks    \* the normalised blocks of the document

chunkerVars == <<blocks>>

ChunkerTypeOK == blocks \in BoundedSeq(Blocks, MaxBlocks)

ChunkerInit == blocks \in BoundedSeq(Blocks, MaxBlocks)

Indices == DOMAIN blocks
IsImage(b) == blocks[b].kind = "image"

-----------------------------------------------------------------------------
(* Pieces of one block: splitLongText.                                       *)

\* The length up to the last safe position of the window, or 0.
SafeBoundary(b, from, window) ==
    LET ends == {e \in blocks[b].cuts : from + MinChunk < e /\ e <= from + window} IN
    IF ends = {} THEN 0 ELSE Max(ends) - from

\* The end of the piece that starts at from; from itself when the code throws.
PieceEnd(b, from) ==
    LET remaining == blocks[b].len - from
        soft == SafeBoundary(b, from, MaxChild)
        hard == SafeBoundary(b, from, MaxChunk)
    IN
    IF remaining <= MaxChild THEN blocks[b].len
    ELSE IF soft > 0 THEN from + soft
    ELSE IF hard > 0 THEN from + hard
    ELSE IF remaining <= MaxChunk THEN blocks[b].len
    ELSE from

SplitLongText(b) ==
    LET pieces[from \in 0 .. blocks[b].len] ==
            LET end == PieceEnd(b, from) IN
            IF end = from THEN << >>
            ELSE <<[block |-> b, from |-> from, to |-> end]>> \o pieces[end]
    IN pieces[0]

\* A block without a safe position where one is needed fails the document.
Splits(b) == LET pieces == SplitLongText(b) IN
    pieces # << >> /\ Last(pieces).to = blocks[b].len

-----------------------------------------------------------------------------
(* What a loop has closed and what it is still filling; a flush closes it.   *)

Nothing == [done |-> << >>, open |-> << >>]

Flush(acc) == IF acc.open = << >> THEN acc
              ELSE [done |-> Append(acc.done, acc.open), open |-> << >>]

-----------------------------------------------------------------------------
(* Children of one run of text blocks: splitBlocks.                          *)

Size(text) == FoldSeq(LAMBDA p, n : n + (p.to - p.from), 0, text)
    + Cardinality({k \in 2 .. Len(text) : text[k].block # text[k - 1].block})

\* Mutation: the new piece is not counted.
OverflowsBefore(text, piece) == Size(text) > MaxChild

Overflows(text, piece) == Size(Append(text, piece)) > MaxChild

TopicBreak(text, piece) ==
    /\ Size(text) >= MinChunk
    /\ text # << >> => Last(text).block # piece.block
    /\ blocks[piece.block].unlike

AddPiece(acc, piece) ==
    LET base == IF TopicBreak(acc.open, piece) \/ Overflows(acc.open, piece)
                THEN Flush(acc) ELSE acc
    IN [base EXCEPT !.open = Append(@, piece)]

SplitBlocks(run) ==
    LET pieces == FlattenSeq([k \in DOMAIN run |-> SplitLongText(run[k])]) IN
    Flush(FoldLeft(AddPiece, Nothing, pieces)).done

-----------------------------------------------------------------------------
(* chunkBlocks.                                                              *)

\* A block of another section begins a new group.
AddToGroup(acc, b) ==
    LET base == IF acc.open # << >> /\ blocks[acc.open[1]].path # blocks[b].path
                THEN Flush(acc) ELSE acc
    IN [base EXCEPT !.open = Append(@, b)]

Groups == Flush(FoldLeft(AddToGroup, Nothing, [b \in Indices |-> b])).done

\* An image ends a run of text.
AddToRun(acc, b) == IF IsImage(b) THEN Flush(acc) ELSE [acc EXCEPT !.open = Append(@, b)]

TextRuns(group) == Flush(FoldLeft(AddToRun, Nothing, group)).done

ChildTexts(group) ==
    LET runs == TextRuns(group) IN
    FlattenSeq([k \in DOMAIN runs |-> SplitBlocks(runs[k])])

\* A child shows the pieces of its text; the block is what it is sorted by.
TextChildren(group) ==
    LET texts == ChildTexts(group) IN
    [k \in DOMAIN texts |-> [image |-> FALSE, block |-> texts[k][1].block, text |-> texts[k]]]

\* What an image child shows of a block.
Beginning(b) == [block |-> b, from |-> 0, to |-> Min({blocks[b].len, MaxBeginning})]

TextsBefore(group, k) == {j \in 1 .. k - 1 : ~IsImage(group[j])}
TextsAfter(group, k) == {j \in k + 1 .. Len(group) : ~IsImage(group[j])}

\* Mutation: the blocks before the image are not searched from its end.
FarthestBefore(group, k) ==
    IF TextsBefore(group, k) = {} THEN << >>
    ELSE <<Beginning(group[Min(TextsBefore(group, k))])>>

PreviousText(group, k) ==
    IF TextsBefore(group, k) = {} THEN << >>
    ELSE <<Beginning(group[Max(TextsBefore(group, k))])>>

NextText(group, k) ==
    IF TextsAfter(group, k) = {} THEN << >>
    ELSE <<Beginning(group[Min(TextsAfter(group, k))])>>

NearbyText(group, k) ==
    PreviousText(group, k) \o <<Beginning(group[k])>> \o NextText(group, k)

ImageChildren(group) ==
    FlattenSeq([k \in DOMAIN group |->
        IF IsImage(group[k])
        THEN <<[image |-> TRUE, block |-> group[k], text |-> NearbyText(group, k)]>>
        ELSE << >>])

\* The sort is stable.
SortByBlock(all) ==
    LET Before(j, k) == \/ all[j].block < all[k].block
                        \/ all[j].block = all[k].block /\ j < k
        Place(k) == 1 + Cardinality({j \in DOMAIN all : Before(j, k)})
    IN [p \in DOMAIN all |-> all[CHOOSE k \in DOMAIN all : Place(k) = p]]

\* The children of a parent.
OrderedChildren(group) == SortByBlock(TextChildren(group) \o ImageChildren(group))

ChunkBlocks ==
    LET groups == Groups IN [g \in DOMAIN groups |-> OrderedChildren(groups[g])]

-----------------------------------------------------------------------------
(* A plain document: split and mergeSmall see the blocks as paragraphs.      *)

\* A paragraph longer than MaxChunk is cut there.
ParagraphEnd(b) == IF blocks[b].len > MaxChunk THEN MaxChunk ELSE blocks[b].len

Paragraph(b) == [block |-> b, from |-> 0, to |-> ParagraphEnd(b)]

PlainSize(text) == FoldSeq(LAMBDA p, n : n + p.to, 0, text)

AddParagraph(acc, b) ==
    LET base == IF PlainSize(acc.open) + blocks[b].len > MaxChunk THEN Flush(acc) ELSE acc
    IN [base EXCEPT !.open = Append(@, Paragraph(b))]

MergeSmall(merged, chunk) ==
    IF merged # << >> /\ PlainSize(Last(merged)) < MinChunk
    THEN Append(Front(merged), Last(merged) \o chunk)
    ELSE Append(merged, chunk)

SplitPlain ==
    LET chunks == Flush(FoldLeft(AddParagraph, Nothing, [b \in Indices |-> b])).done
    IN FoldLeft(MergeSmall, << >>, chunks)

-----------------------------------------------------------------------------
(* Properties.*)

\* q goes on where p ends, or starts the block after it once p has ended its own.
GoesOn(p, q, end) ==
    \/ q.block = p.block /\ q.from = p.to
    \/ q.block = p.block + 1 /\ q.from = 0 /\ p.to = end[p.block]

\* The pieces, one after the other, are the document: every block from its beginning to
\* its end, in order, without a gap, an overlap or an empty piece.
AreDocument(pieces, end) ==
    /\ pieces = << >> <=> blocks = << >>
    /\ pieces # << >> =>
        /\ pieces[1].block = 1 /\ pieces[1].from = 0
        /\ Last(pieces).block = Len(blocks) /\ Last(pieces).to = end[Len(blocks)]
    /\ \A k \in 1 .. Len(pieces) - 1 : GoesOn(pieces[k], pieces[k + 1], end)
    /\ \A k \in DOMAIN pieces : pieces[k].from < pieces[k].to

\* What a child stands for among the children: its text, or the block of its image.
WholeBlock(b) == [block |-> b, from |-> 0, to |-> blocks[b].len]
StandsFor(c) == IF c.image THEN <<WholeBlock(c.block)>> ELSE c.text

\* Only an image's child shows text of an image; the size of a child.
ChildKept(c) ==
    /\ c.image => IsImage(c.block)
    /\ ~c.image => \A i \in DOMAIN c.text : ~IsImage(c.text[i].block)
    /\ Size(c.text) > MaxChild => /\ c.image \/ Len(c.text) = 1
                                  /\ Size(c.text) <= MaxChunk

\* Whatever the lengths, sections and images, the text children hold the text of each
\* block that is no image once, whole and in order, and each image has one child, at its
\* place among them. No child is over MaxChunk; over MaxChild is only that of an image,
\* or one piece that had no earlier safe position (splitLongText, splitBlocks,
\* chunkBlocks). Plain text keeps each paragraph in order up to MaxChunk.
ChunksKeepText ==
    /\ (\A b \in Indices : IsImage(b) \/ Splits(b)) =>
        LET children == FlattenSeq(ChunkBlocks)
            stands == [k \in DOMAIN children |-> StandsFor(children[k])]
        IN
        /\ AreDocument(FlattenSeq(stands), [b \in Indices |-> blocks[b].len])
        /\ \A k \in DOMAIN children : ChildKept(children[k])
    /\ AreDocument(FlattenSeq(SplitPlain), [b \in Indices |-> Min({blocks[b].len, MaxChunk})])

\* The text around an image: no other text is nearer, and all is of one section.
Surrounds(d, b) ==
    /\ ~IsImage(d)
    /\ \A e \in Min({b, d}) .. Max({b, d}) :
        blocks[e].path = blocks[b].path /\ (IsImage(e) \/ e = d)

\* The child of an image shows the beginnings of its own text and of the text next to it
\* on either side, past other images but never of another section, in the order of the
\* document: what is searched for is what stands there (chunkBlocks, nearbyText).
ImagesShowTheirContext == \A c \in ToSet(FlattenSeq(ChunkBlocks)) : c.image =>
    /\ {p.block : p \in ToSet(c.text)} = {c.block} \cup {d \in Indices : Surrounds(d, c.block)}
    /\ \A p \in ToSet(c.text) : p.from = 0 /\ 0 < p.to
    /\ \A i \in 1 .. Len(c.text) - 1 : c.text[i].block < c.text[i + 1].block
=============================================================================
