-------------------------- MODULE StructuralChunks --------------------------
(***************************************************************************)
(* Structural chunks, read from the items of a document: regions between   *)
(* headings, tables and pages, packed under a token budget.  Headings wait *)
(* for the content they introduce; pictures and captions contribute no     *)
(* text but leave their reference in the chunk around them.                *)
(***************************************************************************)
EXTENDS ChunkText

CONSTANTS SoftTokens,      \* new_after_n_tokens
          MaxChunks        \* limits.max_chunks

Entry(refs, text, heading) == [refs |-> refs, text |-> text, heading |-> heading]

RefsOf(entries) == UNION {e.refs : e \in ToSet(entries)}
TextOf(entries) == FlattenSeq([k \in DOMAIN entries |-> entries[k].text])

Part(text, refs) == [text |-> text, refs |-> refs]

PendingRefs(st) == st.carried \cup RefsOf(st.current)

(* Emits the entries that are packed; without text they are carried.       *)
CloseRegionPart(st) ==
  IF TextOf(st.current) = <<>>
  THEN [st EXCEPT !.current = <<>>, !.carried = PendingRefs(st)]
  ELSE [parts   |-> Append(st.parts, Part(TextOf(st.current), PendingRefs(st))),
        current |-> <<>>, carried |-> {}]

Introduced(st) ==
  st.current # <<>> /\ \A e \in ToSet(st.current) : e.text = <<>> \/ e.heading

Windowed(parts, texts, refs, firstRefs) ==
  [parts   |-> parts \o [k \in DOMAIN texts |->
                           Part(texts[k], refs \cup IF k = 1 THEN firstRefs ELSE {})],
   current |-> <<>>, carried |-> {}]

(* A long entry behind its headings: each of its windows repeats them.     *)
RepeatHeadings(st, e, prefix) ==
  Windowed(st.parts,
           Behind(prefix, FittingWindows(e.text[1], Tokens(prefix),
                                         MaxTokens - Tokens(prefix) - 2, OverlapTokens)),
           PendingRefs(st) \cup e.refs, {})

SplitEntry(before, e) ==
  Windowed(before.parts, Behind(<<>>, SplitByTokens(e.text[1], MaxTokens, OverlapTokens)),
           e.refs, before.carried)

Full(text, e) ==
  /\ text # <<>>
  /\ Tokens(text) >= SoftTokens \/ Tokens(text \o e.text) > MaxTokens

AppendEntry(st, e) == [st EXCEPT !.current = Append(@, e)]

PackPlain(st, e) ==
  CASE e.text = <<>> -> AppendEntry(st, e)
    [] e.text # <<>> /\ Tokens(e.text) > MaxTokens -> SplitEntry(CloseRegionPart(st), e)
    [] OTHER -> IF Full(TextOf(st.current), e) THEN AppendEntry(CloseRegionPart(st), e)
                ELSE AppendEntry(st, e)

Outgrows(prefix, e) ==
  /\ e.text # <<>> /\ Tokens(prefix) + Gap + Tokens(e.text) > MaxTokens
  /\ MaxTokens - Tokens(prefix) - 2 > 0

PackEntry(st, e) ==
  IF Introduced(st) /\ Outgrows(TextOf(st.current), e)
  THEN RepeatHeadings(st, e, TextOf(st.current)) ELSE PackPlain(st, e)

(* The parts of a region and the references that no text followed.         *)
NoParts == [parts |-> <<>>, current |-> <<>>, carried |-> {}]
RegionParts(region) == CloseRegionPart(FoldLeft(PackEntry, NoParts, region))
HeadingParts(headings) == CloseRegionPart(FoldLeft(PackPlain, NoParts, headings))

-----------------------------------------------------------------------------
(* The pass over the items.                                                *)

Start == [drafts |-> <<>>, region |-> <<>>, headings |-> <<>>, page |-> 0,
          visuals |-> 0, failed |-> FALSE]

Body(e) == e.text # <<>> /\ ~e.heading

(* Headings wait for what they introduce; references that follow the last  *)
(* text of a region stay with the chunk before them.                       *)
CiteLast(drafts, refs) ==
  IF drafts = <<>> THEN drafts
  ELSE [drafts EXCEPT ![Len(drafts)].refs = @ \cup refs]

FlushParts(st, closed) ==
  [st EXCEPT !.headings = <<>>, !.region = <<>>,
             !.drafts = CiteLast(@ \o closed.parts, closed.carried)]

FlushRegion(st) ==
  IF st.region # <<>> /\ ~\E e \in ToSet(st.region) : Body(e)
  THEN [st EXCEPT !.headings = @ \o st.region, !.region = <<>>]
  ELSE FlushParts(st, RegionParts(st.headings \o st.region))

(* A table is chunks of its own, behind the headings that wait.            *)
AddTable(st, table, i, header) ==
  CASE table = <<>> -> [st EXCEPT !.visuals = @ + 1]
    [] table # <<>> /\ TableFails(table, TextOf(st.headings), header) ->
         [st EXCEPT !.failed = TRUE]
    [] OTHER -> [st EXCEPT
         !.visuals = @ + 1, !.headings = <<>>,
         !.drafts = Windowed(@, TableChunks(table, TextOf(st.headings), header),
                             RefsOf(st.headings) \cup {i}, {}).parts]

(* A page that turns and a heading or a table flush, each on its own.      *)
Turns(st, item)   == item.page # 0 /\ st.page # 0 /\ item.page # st.page
FlushesOf(st, item) ==
  {k \in 1 .. 2 : IF k = 1 THEN Turns(st, item) ELSE item.kind \in {"heading", "table"}}
Flushed(st, item) ==
  [FoldSet(LAMBDA k, at : FlushRegion(at), st, FlushesOf(st, item))
     EXCEPT !.page = IF item.page = 0 THEN @ ELSE item.page]

AddEntry(st, e) ==
  IF e.text = <<>> /\ e.heading THEN st ELSE [st EXCEPT !.region = Append(@, e)]

AddTo(st, items, i) ==
  LET item == items[i]
      text == WholeText(items, i)
  IN  CASE item.kind = "heading" -> AddEntry(st, Entry({i}, text, TRUE))
        [] item.kind = "table" -> AddTable(st, PartsOf(items, i), i, item.header)
        [] WithoutText(item) ->
             AddEntry([st EXCEPT !.visuals = @ + IF item.kind = "picture" THEN 1 ELSE 0],
                      Entry({i}, <<>>, FALSE))
        [] OTHER -> IF text = <<>> THEN st ELSE AddEntry(st, Entry({i}, text, FALSE))

AddItem(st, items, i) ==
  IF st.failed THEN st ELSE AddTo(Flushed(st, items[i]), items, i)

(* Headings that are left at the end are content of their own, and none is *)
(* repeated.                                                               *)
WithLastHeadings(st) == st.drafts \o HeadingParts(st.headings).parts

Outcome(passed, drafts) ==
  [failed |-> \/ passed.failed \/ Len(drafts) > MaxChunks
              \/ drafts = <<>> /\ passed.visuals = 0,
   drafts |-> drafts]

Finished(passed) == Outcome(passed, WithLastHeadings(FlushRegion(passed)))

Structural(items) ==
  Finished(FoldLeftDomain(LAMBDA st, i : AddItem(st, items, i), Start, items))
=============================================================================
