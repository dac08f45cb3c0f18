----------------------------- MODULE Evaluations -----------------------------
(* The evaluation of the agent on the complex questions: one process asks  *)
(* every case of the running system, keeps the answers in a checkpoint,    *)
(* has each completed answer judged by a blind pair of calls and an        *)
(* arbiter, and writes a report.  It may stop anywhere; a later process    *)
(* asks again or rescores the checkpoint.  The checkpoint, the judgements  *)
(* kept on disk and the report survive.                                    *)
(*                                                                         *)
(* A packet, the content a judge sees, is a case with an answer: what it   *)
(* hashes to tells packets apart and no more.                              *)
EXTENDS Naturals, Sequences, FiniteSets

CONSTANTS
  Benchmark,     \* the cases in their order
  Preflight,     \* the cases of a preflight
  AspectsOf,     \* the aspects of a case in their order
  AnswersOf,     \* the answers the agent may complete a case with: the
                 \* aspects they mention and the documents they cite
  Required,      \* the documents a case must cite, and no others
  JudgeModels,   \* profile revisions that can judge
  Views,         \* what a judge may say of an aspect
  Sound,         \* the view "correct and supported"
  JudgeAttempts, \* JUDGE_TRANSIENT_ATTEMPTS
  MaxProcesses,  \* bound: processes started
  Missing        \* no file, no value

ASSUME EvaluationAssumption ==
  /\ \A s \in {Benchmark, Preflight} : s \in Seq(DOMAIN AspectsOf) /\ s # <<>>
  /\ \A c \in DOMAIN AspectsOf :
       AspectsOf[c] \in Seq({AspectsOf[c][i] : i \in DOMAIN AspectsOf[c]})
  /\ Missing \notin JudgeModels

VARIABLES
  eval,       \* the process
  checkpoint, \* the file of answers
  kept,       \* the judgements in the cache directory
  report,     \* the file of the last evaluation that ended
  started     \* processes started so far

evalVars == <<eval, checkpoint, kept, report, started>>

Span(s) == {s[i] : i \in 1..Len(s)}

NoEvaluation ==
  [step |-> "none", model |-> Missing, asked |-> <<>>, results |-> <<>>,
   judged |-> <<>>, calls |-> <<>>, tries |-> 0]

-----------------------------------------------------------------------------
(* Asking the system.                                                      *)

Result(c, status, answer) == [case |-> c, status |-> status, answer |-> answer]

StartProcess(model, asked, results, step) ==
  /\ eval.step = "none" /\ started < MaxProcesses
  /\ started' = started + 1
  /\ eval' = [NoEvaluation EXCEPT !.step = step, !.model = model,
                                  !.asked = asked, !.results = results]
  /\ UNCHANGED <<checkpoint, kept, report>>

Evaluate(model) ==
  \E asked \in {Benchmark, Preflight} : StartProcess(model, asked, <<>>, "asking")

(* A checkpoint is restored in the order of the benchmark, and only when   *)
(* it holds exactly its cases; else the process refuses to start.          *)
Restored(results) ==
  [i \in 1..Len(Benchmark) |->
     CHOOSE r \in Span(results) : r.case = Benchmark[i]]
Loadable(results) ==
  /\ results # Missing
  /\ {r.case : r \in Span(results)} = Span(Benchmark)
  /\ Len(results) = Len(Benchmark)
Rescore(model) ==
  /\ Loadable(checkpoint)
  /\ StartProcess(model, Benchmark, Restored(checkpoint), "loading")

(* A case that fails, is cancelled or outlasts the client's patience is a  *)
(* failed one.  The last kind of failure ends the asking: no later case    *)
(* can pass the provider's authentication.                                 *)
NextCase == eval.asked[Len(eval.results) + 1]
Unanswered == Result(NextCase, "failed", Missing)
Received(results) ==
  eval' = [eval EXCEPT !.results = results,
             !.step = IF Len(results) = Len(eval.asked) THEN "saving" ELSE @]
Ask ==
  /\ eval.step = "asking"
  /\ \/ \E answer \in AnswersOf[NextCase] :
          Received(Append(eval.results, Result(NextCase, "completed", answer)))
     \/ Received(Append(eval.results, Unanswered))
     \/ Received([i \in 1..Len(eval.asked) |->
                 IF i <= Len(eval.results) THEN eval.results[i]
                 ELSE IF i = Len(eval.results) + 1 THEN Unanswered
                 ELSE Result(eval.asked[i], "not_run", Missing)])
  /\ UNCHANGED <<checkpoint, kept, report, started>>

(* The file is written aside and moved into place.                         *)
SaveAnswers ==
  /\ eval.step = "saving"
  /\ checkpoint' = eval.results
  /\ eval' = [eval EXCEPT !.step = "loading"]
  /\ UNCHANGED <<kept, report, started>>

-----------------------------------------------------------------------------
(* The judge: an enabled chat model whose last validation succeeded and    *)
(* whose key can be read.  Without it the process ends with no report.     *)
Stop == eval' = NoEvaluation
LoadJudge ==
  /\ eval.step = "loading"
  /\ eval' = [eval EXCEPT !.step = "judging"]
  /\ UNCHANGED <<checkpoint, kept, report, started>>
JudgeUnavailable ==
  /\ eval.step = "loading"
  /\ Stop
  /\ UNCHANGED <<checkpoint, kept, report, started>>

-----------------------------------------------------------------------------
(* Judging.  A call shows a judge some aspects of the packet, numbered     *)
(* from one; the reply has one view for every number.                      *)

Packet(r) == <<r.case, r.answer>>
NumberOf(s, x) == CHOOSE i \in 1..Len(s) : s[i] = x

(* The entries of s at the given places, in their order.                   *)
Picked(s, places) ==
  [k \in 1..Cardinality(places) |->
     s[CHOOSE i \in places : Cardinality({j \in places : j <= i}) = k]]

Call(packet, shown, said) == [packet |-> packet, shown |-> shown, said |-> said]
ViewOf(call, aspect) == call.said[NumberOf(call.shown, aspect)]
Disputed(calls, aspects) ==
  LET Differs(i) == ViewOf(calls[1], aspects[i]) # ViewOf(calls[2], aspects[i])
  IN Picked(aspects, {i \in 1..Len(aspects) : Differs(i)})

(* The views that stand: the pair's where they agree, else the arbiter's.  *)
Settled(calls, aspects) ==
  [i \in 1..Len(aspects) |->
     IF aspects[i] \in Span(Disputed(calls, aspects))
     THEN ViewOf(calls[3], aspects[i]) ELSE ViewOf(calls[1], aspects[i])]

Judgement(packet, model, calls) ==
  [packet |-> packet, model |-> model, calls |-> calls,
   views |-> Settled(calls, AspectsOf[packet[1]]), current |-> TRUE]
NotJudged == [packet |-> Missing, model |-> Missing, calls |-> <<>>,
              views |-> <<>>, current |-> TRUE]

Case == eval.results[Len(eval.judged) + 1]
Judging(status) ==
  /\ eval.step = "judging" /\ Len(eval.judged) < Len(eval.results)
  /\ Case.status \in status

(* What a file named for its case and model alone would hold.              *)
FileByCase(packet, model) ==
  {j \in kept : j.packet[1] = packet[1] /\ j.model = model}

(* A judgement lies in a file named for its case, its packet and its       *)
(* model; it is taken when its schema is the current one.                  *)
FileOf(packet, model) == {j \in kept : j.packet = packet /\ j.model = model}
Known(packet, model) == {j \in FileOf(packet, model) : j.current}

Judge(j) ==
  eval' = [eval EXCEPT !.judged = Append(@, j), !.calls = <<>>, !.tries = 0]

SkipJudging ==
  /\ Judging({"failed", "not_run"})
  /\ Judge(NotJudged)
  /\ UNCHANGED <<checkpoint, kept, report, started>>

TakeKept ==
  /\ Judging({"completed"}) /\ eval.calls = <<>> /\ eval.tries = 0
  /\ \E j \in Known(Packet(Case), eval.model) : Judge(j)
  /\ UNCHANGED <<checkpoint, kept, report, started>>

Unknown == /\ Judging({"completed"})
           /\ \/ eval.calls # <<>> \/ eval.tries > 0
              \/ Known(Packet(Case), eval.model) = {}

(* What the next call shows: everything to the pair, what they dispute to  *)
(* the arbiter.                                                            *)
ShownNext ==
  LET aspects == AspectsOf[Case.case]
  IN IF Len(eval.calls) < 2 THEN aspects ELSE Disputed(eval.calls, aspects)
Decided == Len(eval.calls) = 3 \/ (Len(eval.calls) = 2 /\ ShownNext = <<>>)

JudgeReplies ==
  /\ Unknown /\ ~Decided
  /\ \E said \in [1..Len(ShownNext) -> Views] :
       eval' = [eval EXCEPT !.calls = Append(@, Call(Packet(Case), ShownNext, said)),
                            !.tries = 0]
  /\ UNCHANGED <<checkpoint, kept, report, started>>

(* A transient error, or a reply that is no valid result, is tried again;  *)
(* the last one, like any other error, ends the process without a report.  *)
JudgeFails ==
  /\ Unknown /\ ~Decided
  /\ IF eval.tries + 1 < JudgeAttempts
     THEN eval' = [eval EXCEPT !.tries = @ + 1] ELSE Stop
  /\ UNCHANGED <<checkpoint, kept, report, started>>

KeepJudgement ==
  /\ Unknown /\ Decided
  /\ LET j == Judgement(Packet(Case), eval.model, eval.calls)
     IN /\ kept' = (kept \ FileOf(j.packet, j.model)) \union {j}
        /\ Judge(j)
  /\ UNCHANGED <<checkpoint, report, started>>

-----------------------------------------------------------------------------
(* The report.                                                             *)

Strict(j)  == j.views # <<>> /\ Span(j.views) = {Sound}
(* What is counted without a judge: every aspect mentioned and exactly the *)
(* required documents cited.                                               *)
LegacyStrict(r) ==
  /\ r.status = "completed"
  /\ r.answer.mentioned = Span(AspectsOf[r.case])
  /\ r.answer.cited = Required[r.case]

Count(s, T(_)) == Cardinality({i \in 1..Len(s) : T(s[i])})

Summary(results, judged) ==
  [cases     |-> Len(results),
   attempted |-> Count(results, LAMBDA r : r.status # "not_run"),
   completed |-> Count(results, LAMBDA r : r.status = "completed"),
   strict    |-> Count(judged, Strict),
   legacy    |-> Count(results, LegacyStrict),
   calls     |-> {i \in 1..Len(judged) : Len(judged[i].calls) > 0}]

WriteReport ==
  /\ eval.step = "judging" /\ Len(eval.judged) = Len(eval.results)
  /\ report' = [asked |-> eval.asked, model |-> eval.model,
                results |-> eval.results, judged |-> eval.judged,
                summary |-> Summary(eval.results, eval.judged)]
  /\ eval' = NoEvaluation
  /\ UNCHANGED <<checkpoint, kept, started>>

Crash ==
  /\ eval.step # "none"
  /\ Stop
  /\ UNCHANGED <<checkpoint, kept, report, started>>

-----------------------------------------------------------------------------
(* The cache may hold what an older version of the tool left: a judgement  *)
(* of an outdated schema, or one of another model.                         *)
Leftover(model, current) ==
  [packet |-> <<Benchmark[1], CHOOSE a \in AnswersOf[Benchmark[1]] : TRUE>>,
   model |-> model, calls |-> <<>>, views |-> <<Sound>>, current |-> current]
Leftovers ==
  {Leftover(m, FALSE) : m \in JudgeModels} \union {Leftover(Missing, TRUE)}

EvaluationInit ==
  /\ eval = NoEvaluation /\ checkpoint = Missing /\ report = Missing
  /\ kept \in {{}} \union {{j} : j \in Leftovers} /\ started = 0

EvaluationNext ==
  \/ \E m \in JudgeModels : Evaluate(m) \/ Rescore(m)
  \/ Ask \/ SaveAnswers \/ LoadJudge \/ JudgeUnavailable
  \/ SkipJudging \/ TakeKept \/ JudgeReplies \/ JudgeFails \/ KeepJudgement
  \/ WriteReport \/ Crash

EvaluationSpec == EvaluationInit /\ [][EvaluationNext]_evalVars
-----------------------------------------------------------------------------
(* One result for each case, and every judgement in it on its own answer.  *)
IsFaithful(rep) ==
  /\ [i \in 1..Len(rep.results) |-> rep.results[i].case] = rep.asked
  /\ Len(rep.judged) = Len(rep.results)
  /\ \A i \in 1..Len(rep.judged) :
       LET r == rep.results[i]
           j == rep.judged[i]
           Said(n, x) == \E k \in 1..Len(j.calls[n].shown) :
                           /\ j.calls[n].shown[k] = AspectsOf[r.case][x]
                           /\ j.calls[n].said[k] = j.views[x]
       IN IF r.status # "completed" THEN j = NotJudged
          ELSE /\ j.model = rep.model
               /\ \A n \in 1..Len(j.calls) : j.calls[n].packet = Packet(r)
               /\ Len(j.views) = Len(AspectsOf[r.case])
               /\ \A x \in 1..Len(j.views) :
                    \/ Said(1, x) /\ Said(2, x)
                    \/ Len(j.calls) = 3 /\ Said(3, x)
  /\ rep.summary.strict <= rep.summary.completed
  /\ rep.summary.legacy <= rep.summary.completed
  /\ rep.summary.completed <= rep.summary.attempted

(* Whatever earlier processes left behind, a report has one result for     *)
(* every case asked, in their order; a completed case was judged on its    *)
(* own answer by the reported model, every view is one both judges hold    *)
(* or, where they differ, what the arbiter said of this very aspect; the   *)
(* others are not judged; and a case counts as strictly correct only with  *)
(* a completed run.                                                        *)
ReportIsFaithful == report # Missing => IsFaithful(report)
=============================================================================
