----------------------------- MODULE ChunkText -----------------------------
(***************************************************************************)
(* What both chunkers are built from: documents as the traversal yields    *)
(* them, text counted in tokens, windows over a text that is too long,     *)
(* and tables packed row by row.                                           *)
(*                                                                         *)
(* A text is a sequence of slices <<item, first, last>>, the tokens first  *)
(* to last of an item; joining two texts costs Gap tokens.  An item is     *)
(* known by its place in the document, which is also its reference.        *)
(***************************************************************************)
EXTENDS Integers, Sequences, FiniteSets, SequencesExt, FiniteSetsExt

CONSTANTS MaxTokens,      \* max_tokens, max_chunk_tokens
          OverlapTokens,  \* overlap of the windows of a long element
          Gap,            \* what a separator costs
          IncludeCaptions \* author captions are text

ASSUME ChunkTextConstants ==
  /\ MaxTokens \in Nat \ {0} /\ OverlapTokens \in 0 .. (MaxTokens - 1)
  /\ Gap \in 0 .. 2 /\ IncludeCaptions \in BOOLEAN

Smaller(a, b) == IF a < b THEN a ELSE b
Larger(a, b)  == IF a < b THEN b ELSE a

SliceSize(s) == s[3] - s[2] + 1

Tokens(text) == FoldLeft(LAMBDA n, s : n + SliceSize(s), 0, text)
                + Gap * Larger(Len(text) - 1, 0)

(* Items: kind, parts (the sizes of its rows, lines or sentences), header  *)
(* (rows of the table's header), page (0 without provenance), container.   *)
PartEnd(parts, k) == FoldLeft(+, 0, SubSeq(parts, 1, k))
PartsOf(items, i) ==
  [k \in DOMAIN items[i].parts |->
     <<i, PartEnd(items[i].parts, k - 1) + 1, PartEnd(items[i].parts, k)>>]
WholeText(items, i) ==
  IF items[i].parts = <<>> THEN <<>>
  ELSE << <<i, 1, PartEnd(items[i].parts, Len(items[i].parts))>> >>

Heading(item) == item.kind = "heading"

(* A picture has no text, and a caption only where captions are included.  *)
WithoutText(item) ==
  item.kind = "picture" \/ (item.kind = "caption" /\ ~IncludeCaptions)

(* Windows of at most max tokens, each overlapping the one before.         *)
RECURSIVE WindowsFrom(_, _, _, _)
WindowsFrom(s, start, max, overlap) ==
  LET end == Smaller(start + max - 1, s[3])
  IN  IF end = s[3] THEN << <<s[1], start, end>> >>
      ELSE << <<s[1], start, end>> >>
           \o WindowsFrom(s, Larger(start + 1, end + 1 - overlap), max, overlap)
SplitByTokens(s, max, overlap) == WindowsFrom(s, s[2], max, overlap)

(* The windows of s that fit behind the text ahead, as wide as they can be *)
(* within a budget; empty when no budget is left.                          *)
FittingWindows(s, ahead, budget, overlap) ==
  LET within(b) == SplitByTokens(s, b, IF b > overlap THEN overlap ELSE 0)
      fits == {b \in 1 .. budget :
                 \A w \in ToSet(within(b)) : ahead + Gap + SliceSize(w) <= MaxTokens}
  IN  IF fits = {} THEN <<>> ELSE within(Max(fits))

(* Rows of a table behind its header and the headings before it.           *)
RowBudget(ahead) == MaxTokens - Tokens(ahead) - 2

Behind(ahead, windows) == [k \in DOMAIN windows |-> Append(ahead, windows[k])]

RowRoom(st, row, ahead) ==
  IF st.rows # <<>> /\ Tokens(ahead \o Append(st.rows, row)) > MaxTokens
  THEN [parts |-> Append(st.parts, ahead \o st.rows), rows |-> <<>>]
  ELSE st

AddRow(st, row, ahead) ==
  IF Tokens(Append(ahead, row)) <= MaxTokens
  THEN [st EXCEPT !.rows = Append(@, row)]
  ELSE [st EXCEPT !.parts = @ \o Behind(ahead, FittingWindows(row, Tokens(ahead),
                                                             RowBudget(ahead), 0))]

PackRow(st, row, ahead) == AddRow(RowRoom(st, row, ahead), row, ahead)

(* A table fails when its header leaves no room for its rows.              *)
TableFails(table, prefix, header) ==
  /\ Tokens(prefix \o table) > MaxTokens
  /\ RowBudget(prefix \o SubSeq(table, 1, header)) < 1

LastRows(packed, ahead) ==
  IF packed.rows = <<>> THEN packed.parts
  ELSE Append(packed.parts, ahead \o packed.rows)

PackRows(rows, ahead) ==
  LastRows(FoldLeft(LAMBDA st, row : PackRow(st, row, ahead),
                    [parts |-> <<>>, rows |-> <<>>], rows),
           ahead)

TableChunks(table, prefix, header) ==
  IF Tokens(prefix \o table) <= MaxTokens THEN << prefix \o table >>
  ELSE PackRows(SubSeq(table, header + 1, Len(table)),
                prefix \o SubSeq(table, 1, header))
=============================================================================
