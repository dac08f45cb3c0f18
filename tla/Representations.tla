--------------------------- MODULE Representations ---------------------------
(***************************************************************************)
(* What a build adds to its units: the vectors of analysis, text and image *)
(* representations, and the generated questions with their vectors.  The   *)
(* providers answer a batch of texts, and a batch that they refuse is cut  *)
(* in half and asked again, so that an answer says which text a vector     *)
(* belongs to only by its place in the answer.                             *)
(*                                                                         *)
(* A vector is the sequence of the windows that were pooled into it, a     *)
(* window a triple <<what, unit, number>>.  The compare-and-set writes of  *)
(* the steps are in IndexArtifacts; here one executor runs alone.          *)
(***************************************************************************)
EXTENDS Integers, Sequences, FiniteSets, SequencesExt

CONSTANTS BuildSources,  \* the outcomes of assembly that are embedded
          TextBatch,     \* max_batch_size of the text provider
          ImageBatch,    \* max_batch_size of the cross-modal provider
          QaBatch,       \* AUTO_QA_BATCH_SIZE
          QaAttempts,    \* _AUTO_QA_RESPONSE_ATTEMPTS
          MaxQuestions   \* AUTO_QA_QUESTIONS_PER_CHUNK

(* A unit has a kind, the number of windows of its embedding text (0: it   *)
(* has none), whether its asset was extracted, and whether it has content  *)
(* of its own.  A source has the windows of its analysis units, the units  *)
(* of its chunks and the auto_qa_enabled switch.                           *)
BuildUnits == [kind : {"text", "table", "image"}, windows : Nat,
               asset : BOOLEAN, said : BOOLEAN]

ASSUME RepresentationsAssumption ==
  /\ \A s \in BuildSources : /\ s.analysis \in Seq(Nat) /\ s.units \in Seq(BuildUnits)
                             /\ s.autoQa \in BOOLEAN
  /\ {TextBatch, ImageBatch, QaBatch, QaAttempts} \subseteq Nat \ {0}
  /\ MaxQuestions \in Nat

VARIABLES built,  \* the source of this build
          work    \* how far the build is

representationVars == <<built, work>>

UnitIds == DOMAIN built.units

(* The elements of a list that pass a test, in their order.                *)
Chosen(list, Test(_)) ==
  FlattenSeq([n \in DOMAIN list |-> IF Test(list[n]) THEN <<list[n]>> ELSE <<>>])

WindowsOf(what, i, n) == [k \in 1..n |-> <<what, i, k>>]

AnalysisItems ==
  [i \in DOMAIN built.analysis |-> [unit |-> i, kind |-> "analysis", required |-> TRUE]]

TextItem(i) ==
  [unit |-> i, required |-> TRUE,
   kind |-> IF built.units[i].kind = "table" THEN "table_text" ELSE "text"]

PlannedOf(i) ==
  LET unit == built.units[i]
  IN  IF unit.kind = "image"
        THEN <<[unit |-> i, kind |-> "native_image", required |-> TRUE]>>
      ELSE IF unit.kind = "table" /\ unit.asset
        THEN <<TextItem(i), [unit |-> i, kind |-> "table_image", required |-> FALSE]>>
      ELSE <<TextItem(i)>>

PlannedRows == FlattenSeq([i \in UnitIds |-> PlannedOf(i)])

CrossModal == {"native_image", "table_image"}
TextItems  == Chosen(PlannedRows, LAMBDA item : item.kind \notin CrossModal)
ImageItems == Chosen(PlannedRows, LAMBDA item : item.kind \in CrossModal)

(* What the provider is given for an item, and so what its vector pools.   *)
InputOf(item) ==
  CASE item.kind = "analysis" -> WindowsOf("analysis", item.unit, built.analysis[item.unit])
    [] item.kind = "question" -> <<<<"question", item.unit, item.number>>>>
    [] item.kind \in CrossModal -> <<<<"image", item.unit, 1>>>>
    [] OTHER -> WindowsOf("text", item.unit, built.units[item.unit].windows)

InputsOf(items) == FlattenSeq([n \in DOMAIN items |-> InputOf(items[n])])

HasInput(item) ==
  CASE item.kind \in {"analysis", "question"} -> TRUE
    [] item.kind \in CrossModal -> built.units[item.unit].asset
    [] OTHER -> built.units[item.unit].windows > 0

(* The first size elements of a list, and what is left of it.              *)
FirstOf(list, size) == SubSeq(list, 1, IF Len(list) < size THEN Len(list) ELSE size)
RestOf(list, size)  == SubSeq(list, size + 1, Len(list))

InSlices(list, size) ==
  [n \in 1..((Len(list) + size - 1) \div size) |-> FirstOf(RestOf(list, (n - 1) * size), size)]

Middle(list) == Len(list) \div 2
LeftHalf(list)  == SubSeq(list, 1, Middle(list))
RightHalf(list) == SubSeq(list, Middle(list) + 1, Len(list))

HalvedRightFirst(todo) == <<RightHalf(Head(todo)), LeftHalf(Head(todo))>> \o Tail(todo)
Halved(todo) == <<LeftHalf(Head(todo)), RightHalf(Head(todo))>> \o Tail(todo)

(* An error leaves the build; what it has written stays.                   *)
GivesUp == work' = [work EXCEPT !.stage = "failed", !.items = <<>>, !.batch = <<>>,
                                !.todo = <<>>, !.got = <<>>]

TextStages == {"measure", "text", "questions"}
Embedding  == work.batch # <<>>

(***************************************************************************)
(* Batches of the pipeline                                                 *)
(***************************************************************************)
SizeOf(stage) == IF stage = "images" THEN ImageBatch ELSE TextBatch

StartBatch ==
  /\ work.stage \in TextStages \union {"images"}
  /\ ~Embedding /\ work.items # <<>>
  /\ LET batch  == FirstOf(work.items, SizeOf(work.stage))
         usable == Chosen(batch, HasInput)
         rest   == RestOf(work.items, SizeOf(work.stage))
     IN  IF \E n \in DOMAIN batch : batch[n].required /\ ~HasInput(batch[n])
           THEN GivesUp
           ELSE work' = [work EXCEPT !.items = rest, !.batch = usable,
                                     !.todo = InSlices(InputsOf(usable), SizeOf(work.stage))]

(* The vectors of one call arrive in the order of its texts.               *)
Embedded ==
  /\ Embedding /\ work.todo # <<>>
  /\ work' = [work EXCEPT !.got = @ \o Head(work.todo), !.todo = Tail(@)]

(* A batch of texts is refused for one of them, or answered with another   *)
(* number of vectors: both halves are asked for, the left one first.       *)
SplitBatch ==
  /\ Embedding /\ work.stage \in TextStages /\ work.todo # <<>>
  /\ Len(Head(work.todo)) > 1
  /\ work' = [work EXCEPT !.todo = Halved(@)]

(* Any other error of the provider, or an error of one text alone.  Only a *)
(* batch of optional images is left out.                                   *)
BatchFails ==
  /\ Embedding /\ work.todo # <<>>
  /\ IF \E n \in DOMAIN work.batch : work.batch[n].required
       THEN GivesUp
       ELSE work' = [work EXCEPT !.batch = <<>>, !.todo = <<>>, !.got = <<>>]

(* Every text takes the vectors of its windows out of the answers.         *)
Before(batch, n) == Len(InputsOf(SubSeq(batch, 1, n - 1)))

PooledVector(batch, got, n) ==
  SubSeq(got, Before(batch, n) + 1, Before(batch, n) + Len(InputOf(batch[n])))

Collapsed(batch, got) ==
  [n \in DOMAIN batch |-> [item |-> batch[n], vector |-> PooledVector(batch, got, n)]]

FinishBatch ==
  /\ Embedding /\ work.todo = <<>>
  /\ work' = [work EXCEPT !.batch = <<>>, !.got = <<>>,
                          !.rows = @ \o Collapsed(work.batch, work.got)]

(***************************************************************************)
(* Questions                                                               *)
(***************************************************************************)
EligibleUnits == Chosen([i \in UnitIds |-> i], LAMBDA i : built.units[i].said)

AskBatch ==
  /\ work.stage = "ask" /\ work.todo = <<>> /\ work.items # <<>>
  /\ work' = [work EXCEPT !.todo = <<FirstOf(work.items, QaBatch)>>,
                          !.items = RestOf(@, QaBatch), !.tries = 1]

Answered ==
  /\ work.stage = "ask" /\ work.todo # <<>>
  /\ \E answer \in [ToSet(Head(work.todo)) -> 0..MaxQuestions] :
       work' = [work EXCEPT !.asked = [i \in UnitIds |->
                                         IF i \in DOMAIN answer THEN answer[i] ELSE @[i]],
                            !.todo = Tail(@), !.tries = 1]

(* A response that breaks the schema is asked for again, and then both     *)
(* halves of its units are.                                                *)
Malformed ==
  /\ work.stage = "ask" /\ work.todo # <<>>
  /\ \/ /\ work.tries < QaAttempts
        /\ work' = [work EXCEPT !.tries = @ + 1]
     \/ /\ work.tries = QaAttempts /\ Len(Head(work.todo)) > 1
        /\ work' = [work EXCEPT !.todo = Halved(@), !.tries = 1]
     \/ work.tries = QaAttempts /\ Len(Head(work.todo)) = 1 /\ GivesUp

AskFails == work.stage \in {"ask", "verify"} /\ work.todo # <<>> /\ GivesUp

AskedQuestions ==
  LET of(i) == [k \in 1..work.asked[i] |-> [unit |-> i, number |-> k]]
  IN  FlattenSeq([n \in DOMAIN EligibleUnits |-> of(EligibleUnits[n])])

VerifyBatch ==
  /\ work.stage = "verify" /\ work.todo = <<>> /\ work.items # <<>>
  /\ work' = [work EXCEPT !.todo = <<FirstOf(work.items, QaBatch)>>,
                          !.items = RestOf(@, QaBatch)]

(* The verdicts come in any order and are read by their reference; what is *)
(* supported is appended to its unit in the order of the verdicts.         *)
Verified ==
  /\ work.stage = "verify" /\ work.todo # <<>>
  /\ \E supported \in SUBSET ToSet(Head(work.todo)) :
       \E verdicts \in SetToSeqs(supported) :
         work' = [work EXCEPT !.kept = @ \o verdicts, !.todo = Tail(@)]

KeptOf(i) == Chosen(work.kept, LAMBDA item : item.unit = i)

QuestionsOf(i) ==
  [k \in DOMAIN KeptOf(i) |-> [unit |-> i, number |-> KeptOf(i)[k].number,
                               kind |-> "question", required |-> TRUE]]

QuestionItems == FlattenSeq([n \in DOMAIN EligibleUnits |-> QuestionsOf(EligibleUnits[n])])

(* The rows of all questions, written at once: the ordinal counts within a *)
(* unit, the vector is the next one, the support the verdict at that place.*)
QuestionRows(vectors) ==
  LET first(n) == Len(FlattenSeq([m \in 1..(n - 1) |-> QuestionsOf(EligibleUnits[m])]))
      of(n)    == [k \in DOMAIN KeptOf(EligibleUnits[n]) |->
                     [unit |-> EligibleUnits[n], ordinal |-> k - 1,
                      number |-> KeptOf(EligibleUnits[n])[k].number,
                      support |-> KeptOf(EligibleUnits[n])[k],
                      vector |-> vectors[first(n) + k].vector]]
  IN  FlattenSeq([n \in DOMAIN EligibleUnits |-> of(n)])

(***************************************************************************)
(* Stages                                                                  *)
(***************************************************************************)
NoWork == [stage |-> "measure", items |-> AnalysisItems, batch |-> <<>>, todo |-> <<>>,
           got |-> <<>>, rows |-> <<>>, tries |-> 1, asked |-> [i \in UnitIds |-> 0],
           kept |-> <<>>, measured |-> <<>>, stored |-> <<>>, questions |-> <<>>]

Drained(stage) == work.stage = stage /\ work.items = <<>> /\ ~Embedding /\ work.todo = <<>>

(* The stages follow each other; one that has nothing to do is passed.     *)
Measured ==
  /\ Drained("measure")
  /\ work' = [work EXCEPT !.stage = "text", !.items = TextItems,
                          !.measured = work.rows, !.rows = <<>>]

TextEmbedded ==
  /\ Drained("text")
  /\ work' = [work EXCEPT !.stage = "images", !.items = ImageItems]

ImagesEmbedded ==
  /\ Drained("images")
  /\ work' = [work EXCEPT !.stage = IF built.autoQa THEN "ask" ELSE "validate",
                          !.items = IF built.autoQa THEN EligibleUnits ELSE <<>>,
                          !.stored = work.rows, !.rows = <<>>]

Asked ==
  /\ Drained("ask")
  /\ work' = [work EXCEPT !.stage = "verify", !.items = AskedQuestions]

AllVerified ==
  /\ Drained("verify")
  /\ work' = [work EXCEPT !.stage = "questions", !.items = QuestionItems]

QuestionsStored ==
  /\ Drained("questions")
  /\ work' = [work EXCEPT !.stage = "validate", !.questions = QuestionRows(work.rows)]

(* The build is completed when every required representation is there and  *)
(* every unit has its questions, numbered from zero.                       *)
RepresentationsComplete ==
  /\ \A n \in DOMAIN PlannedRows : PlannedRows[n].required =>
       \E m \in DOMAIN work.stored : work.stored[m].item = PlannedRows[n]
  /\ \A i \in UnitIds :
       {row.ordinal : row \in {r \in ToSet(work.questions) : r.unit = i}}
         = 0..(Len(KeptOf(i)) - 1)

Completes ==
  /\ Drained("validate")
  /\ IF RepresentationsComplete
       THEN work' = [work EXCEPT !.stage = "done"]
       ELSE GivesUp

RepresentationInit == built \in BuildSources /\ work = NoWork

RepresentationNext ==
  /\ UNCHANGED built
  /\ \/ StartBatch \/ Embedded \/ SplitBatch \/ BatchFails \/ FinishBatch
     \/ AskBatch \/ Answered \/ Malformed \/ AskFails \/ VerifyBatch \/ Verified
     \/ Measured \/ TextEmbedded \/ ImagesEmbedded \/ Asked \/ AllVerified
     \/ QuestionsStored \/ Completes

RepresentationSpec ==
  RepresentationInit /\ [][RepresentationNext]_representationVars

(***************************************************************************)
(* Properties                                                              *)
(***************************************************************************)
RepresentationTypeOK ==
  /\ built \in BuildSources
  /\ work.stage \in {"measure", "text", "images", "ask", "verify", "questions",
                     "validate", "done", "failed"}
  /\ work.tries \in 1..QaAttempts
  /\ DOMAIN work.asked = UnitIds

OwnVector(row) == row.vector = InputOf(row.item)

(* Whatever batches the providers refuse, and however often a batch is cut *)
(* in half, every stored vector is pooled from exactly the windows of its  *)
(* own text or image; the analysis has one vector per unit, in the order   *)
(* of the units; every question is stored under the unit that it was asked *)
(* and verified for, with its own support and its own vector; and a build  *)
(* that is completed has every required representation of every unit.      *)
VectorsAreTheirOwn ==
  /\ \A n \in DOMAIN work.rows : OwnVector(work.rows[n])
  /\ \A n \in DOMAIN work.stored : OwnVector(work.stored[n])
  /\ work.stage \notin {"measure", "failed"} =>
       /\ DOMAIN work.measured = DOMAIN built.analysis
       /\ \A i \in DOMAIN built.analysis :
            work.measured[i].vector = WindowsOf("analysis", i, built.analysis[i])
  /\ \A n \in DOMAIN work.questions :
       LET row == work.questions[n]
       IN  /\ row.vector = <<<<"question", row.unit, row.number>>>>
           /\ row.support = [unit |-> row.unit, number |-> row.number]
           /\ row.number \in 1..work.asked[row.unit]
  /\ work.stage = "done" =>
       \A i \in UnitIds :
         {row.item.kind : row \in {r \in ToSet(work.stored) : r.item.unit = i}}
           \in CASE built.units[i].kind = "image" -> {{"native_image"}}
                 [] built.units[i].kind = "table" ->
                      {{"table_text"}, {"table_text", "table_image"}}
                 [] OTHER -> {{"text"}}
=============================================================================
