------------------------- MODULE ParserCheckpoints -------------------------
(* The parser of the worker: one call at a time asks a child process for   *)
(* the pages of a document, segment by segment, and keeps what it got in   *)
(* a checkpoint directory, so that a lease slice converts one segment and  *)
(* the next slice goes on from there.  The work on the directory is done   *)
(* by threads, which a cancelled call leaves running.                      *)
EXTENDS Naturals, Sequences, FiniteSets

CONSTANTS
  Docs,         \* the indexed document versions, which name the checkpoints
  Plain,        \* those that are converted in one piece, without one
  SegmentsOf,   \* how many page segments a document has
  Takes,        \* the outcomes a conversion of the same pages may have
  SizeOf,       \* the usage a take is charged with
  Budget,       \* the limit on the usage of a document
  MaxAttempts,     \* the attempts of an indexing job
  MaxMishaps    \* bound: cancellations, dead children and crashes

ASSUME ParserAssumption ==
  /\ Plain \subseteq Docs
  /\ SegmentsOf \in [Docs -> Nat \ {0}] /\ \A d \in Plain : SegmentsOf[d] = 1
  /\ SizeOf \in [Takes -> Nat]
  /\ Budget \in Nat /\ MaxAttempts \in Nat \ {0} /\ MaxMishaps \in Nat

VARIABLES
  folder,   \* per document: the checkpoint directory
  child,    \* the child process and the pipe to it
  call,     \* the call of parse the worker is in
  late,     \* threads whose call was cancelled
  job,      \* per document: attempts, continuation and outcome
  mishaps

parserVars == <<folder, child, call, late, job, mishaps>>
-----------------------------------------------------------------------------
Segments(d) == 1 .. SegmentsOf[d]

(* What a conversion gives: whose pages, which segment, which take.        *)
Pages == [doc : Docs, seg : Nat, take : Takes]

(* Segment 0 of a request is the probe of the page count.                  *)
ProbeSegment == 0
Asked(d, s) == [doc |-> d, seg |-> s]

(* A manifest marks a segment pending with the empty sequence and a        *)
(* completed one with its pages, the digest of which it records.           *)
Missing == <<>>
AllPending(d) == [s \in Segments(d) |-> Missing]
PendingOf(plan) == {s \in DOMAIN plan : plan[s] = Missing}
FirstPending(plan) ==
  CHOOSE s \in PendingOf(plan) : \A t \in PendingOf(plan) : s <= t

Usage(plan) ==
  LET sizes[s \in 0 .. Len(plan)] ==
        IF s = 0 THEN 0
        ELSE sizes[s - 1] + (IF plan[s] = Missing THEN 0
                             ELSE SizeOf[plan[s][1].take])
  IN sizes[Len(plan)]

NoPlan   == <<>>
NoFolder == [made |-> FALSE, manifest |-> NoPlan, files |-> NoPlan]
NoChild  == [up |-> FALSE, killed |-> FALSE, asked |-> <<>>, pipe |-> <<>>]
NoCall   == [doc |-> CHOOSE d \in Docs : TRUE, step |-> "none",
             plan |-> NoPlan, pages |-> Missing]

Undecided(d) == job[d].outcome = "open"

ParserInit ==
  /\ folder = [d \in Docs |-> NoFolder]
  /\ child = NoChild
  /\ call = NoCall
  /\ late = {}
  /\ job = [d \in Docs |-> [tries |-> 0, resumed |-> FALSE,
                            outcome |-> "open", text |-> <<>>]]
  /\ mishaps = 0
-----------------------------------------------------------------------------
(* How a call ends.                                                        *)

(* A claim that is no continuation counts as an attempt.                   *)
CanClaim(d) == Undecided(d) /\ (job[d].resumed \/ job[d].tries < MaxAttempts)

Begin(d) ==
  /\ call.step = "none" /\ CanClaim(d)
  /\ job' = [job EXCEPT ![d].resumed = FALSE,
                        ![d].tries = IF job[d].resumed THEN @ ELSE @ + 1]
  /\ call' = [NoCall EXCEPT !.doc = d, !.step = "start"]
  /\ UNCHANGED <<folder, child, late, mishaps>>

(* A manifest that is there already holds the probe.                       *)
Parse ==
  /\ call.step = "start"
  /\ call' = [call EXCEPT !.step =
                IF call.doc \in Plain THEN "convert"
                ELSE IF folder[call.doc].manifest # NoPlan THEN "load"
                ELSE "probe"]
  /\ UNCHANGED <<folder, child, late, job, mishaps>>

(* An error is final, or retryable while there are attempts left.          *)
Settle(d, retryable) ==
  /\ job' = [job EXCEPT ![d].outcome =
               IF retryable /\ job[d].tries < MaxAttempts THEN "open"
               ELSE "failed"]
  /\ call' = NoCall

LeftRunning == UNCHANGED child                                      \* mutant
Reset == child' = NoChild
-----------------------------------------------------------------------------
(* The child process.                                                      *)

Live == IF child.up THEN child ELSE [NoChild EXCEPT !.up = TRUE]

Wanted == Asked(call.doc,
                  CASE call.step \in {"probe", "probing"} -> ProbeSegment
                    [] call.doc \in Plain -> 1
                    [] OTHER -> FirstPending(call.plan))

Ask ==
  /\ call.step \in {"probe", "convert"}
  /\ child' = [Live EXCEPT !.asked = Append(@, Wanted)]
  /\ call' = [call EXCEPT !.step = IF @ = "probe" THEN "probing"
                                   ELSE "converting"]
  /\ UNCHANGED <<folder, late, job, mishaps>>

Waiting == call.step \in {"probing", "converting"}

(* The child answers its requests in order: with the pages, or with an     *)
(* error it survives (the conversion's) or not (its own).                  *)
Answers(request) ==
  [kind : {"ok"}, doc : {request.doc}, seg : {request.seg}, take : Takes]

ChildConverts ==
  /\ child.up /\ child.asked # <<>>
  /\ \E answer \in Answers(Head(child.asked)) :
       child' = [child EXCEPT !.asked = Tail(@), !.pipe = Append(@, answer)]
  /\ UNCHANGED <<folder, call, late, job, mishaps>>

ChildRefuses ==
  /\ child.up /\ child.asked # <<>> /\ mishaps < MaxMishaps
  /\ \E kind \in {"refused", "crashed"} :
       child' = [child EXCEPT !.asked = Tail(@), !.pipe = Append(@,
                   [kind |-> kind, doc |-> Head(child.asked).doc,
                    seg |-> Head(child.asked).seg,
                    take |-> CHOOSE t \in Takes : TRUE])]
  /\ mishaps' = mishaps + 1
  /\ UNCHANGED <<folder, call, late, job>>

(* The process ends by itself, or the kernel kills it for its memory.      *)
ChildDies ==
  /\ child.up /\ mishaps < MaxMishaps
  /\ \E killed \in BOOLEAN : child' = [NoChild EXCEPT !.killed = killed]
  /\ mishaps' = mishaps + 1
  /\ UNCHANGED <<folder, call, late, job>>

ReceiveEof ==
  /\ Waiting /\ ~child.up
  /\ Settle(call.doc, ~child.killed) /\ Reset
  /\ UNCHANGED <<folder, late, mishaps>>

ReceiveError ==
  /\ Waiting /\ child.pipe # <<>> /\ Head(child.pipe).kind # "ok"
  /\ Settle(call.doc, Head(child.pipe).kind = "crashed")
  /\ IF Head(child.pipe).kind = "crashed" THEN Reset
     ELSE child' = [child EXCEPT !.pipe = Tail(@)]
  /\ UNCHANGED <<folder, late, mishaps>>

Received(answer) ==
  [doc |-> answer.doc, seg |-> answer.seg, take |-> answer.take]

Receive ==
  /\ Waiting /\ child.pipe # <<>> /\ Head(child.pipe).kind = "ok"
  /\ child' = [child EXCEPT !.pipe = Tail(@)]
  /\ LET answer == Head(child.pipe)
     IN call' = CASE call.step = "probing" -> [call EXCEPT !.step = "load"]
                  [] call.doc \in Plain ->
                       [call EXCEPT !.step = "publish",
                                    !.plan = <<<<Received(answer)>>>>]
                  [] OTHER -> [call EXCEPT !.step = "store",
                                           !.pages = <<Received(answer)>>]
  /\ UNCHANGED <<folder, late, job, mishaps>>
-----------------------------------------------------------------------------
(* The work of the threads: t is the call, or a thread that outlived its.  *)

(* The manifest of the document is read, or a new one is laid out; it is   *)
(* written back with the probe.                                            *)
Loaded(t) ==
  [t EXCEPT !.step = "lay out",
            !.plan = IF folder[t.doc].manifest # NoPlan
                     THEN folder[t.doc].manifest ELSE AllPending(t.doc)]

Opened(d) == [folder[d] EXCEPT !.made = TRUE,
                               !.files = IF @ = NoPlan THEN AllPending(d)
                                         ELSE @]

ForgottenSegment(t) == t.plan                                       \* mutant
WithSegment(t) == [t.plan EXCEPT ![FirstPending(t.plan)] = t.pages]
WithinBudget(t) == Usage(WithSegment(t)) <= Budget

(* A step of a thread that writes: what it leaves in the directory.        *)
Written(t) ==
  CASE t.step = "lay out" -> [folder[t.doc] EXCEPT !.manifest = t.plan]
    [] t.step = "store"   ->
         [folder[t.doc] EXCEPT !.files[FirstPending(t.plan)] = t.pages]
    [] t.step = "record"  -> [folder[t.doc] EXCEPT !.manifest = WithSegment(t)]

Writes(t) == t.step \in {"lay out", "record"} \/ (t.step = "store" /\ WithinBudget(t))

Load ==
  /\ call.step = "load"
  /\ call' = Loaded(call)
  /\ folder' = [folder EXCEPT ![call.doc] = Opened(call.doc)]
  /\ UNCHANGED <<child, late, job, mishaps>>

(* After a write the call goes on: the next segment is converted, the      *)
(* whole is put together, or the slice is over and the job yields.         *)
Onward(plan) == IF PendingOf(plan) = {} THEN "assemble" ELSE "convert"

Write ==
  /\ Writes(call) /\ folder[call.doc].made
  /\ folder' = [folder EXCEPT ![call.doc] = Written(call)]
  /\ call' =
       CASE call.step = "lay out" ->
              [call EXCEPT !.step = Onward(call.plan)]
         [] call.step = "store" -> [call EXCEPT !.step = "record"]
         [] call.step = "record" ->
              [call EXCEPT !.plan = WithSegment(call), !.pages = Missing,
                 !.step = IF Onward(WithSegment(call)) = "assemble"
                          THEN "assemble" ELSE "yield"]
  /\ UNCHANGED <<child, late, job, mishaps>>

(* The limit is exceeded, or the directory is gone.                        *)
WriteFails ==
  /\ \/ call.step = "store" /\ ~WithinBudget(call) /\ Settle(call.doc, FALSE)
     \/ Writes(call) /\ ~folder[call.doc].made /\ Settle(call.doc, TRUE)
  /\ UNCHANGED <<folder, child, late, mishaps>>

(* The files are read again and must be what the manifest recorded.        *)
Readable(t) == folder[t.doc].made /\ folder[t.doc].files = t.plan

Assemble ==
  /\ call.step = "assemble"
  /\ IF Readable(call)
     THEN call' = [call EXCEPT !.step = "publish"] /\ UNCHANGED job
     ELSE Settle(call.doc, TRUE)
  /\ UNCHANGED <<folder, child, late, mishaps>>

LateStep(t) ==
  /\ IF t.step = "load"
     THEN /\ folder' = [folder EXCEPT ![t.doc] = Opened(t.doc)]
          /\ late' = (late \ {t}) \cup {Loaded(t)}
     ELSE /\ folder' = IF Writes(t) /\ folder[t.doc].made
                       THEN [folder EXCEPT ![t.doc] = Written(t)] ELSE folder
          /\ late' = IF t.step = "store" /\ Writes(t) /\ folder[t.doc].made
                     THEN (late \ {t}) \cup {[t EXCEPT !.step = "record"]}
                     ELSE late \ {t}
  /\ UNCHANGED <<child, call, job, mishaps>>
-----------------------------------------------------------------------------
(* What the pipeline does with the document.                               *)

(* The slice is over: the job is queued again, and its next claim costs no *)
(* attempt.                                                                *)
Yield ==
  /\ call.step = "yield"
  /\ job' = [job EXCEPT ![call.doc].resumed = TRUE]
  /\ call' = NoCall
  /\ UNCHANGED <<folder, child, late, mishaps>>

(* The document is indexed and promoted; then its checkpoint is dropped.   *)
Publish ==
  /\ call.step = "publish"
  /\ job' = [job EXCEPT ![call.doc].outcome = "indexed",
                        ![call.doc].text = call.plan]
  /\ call' = [call EXCEPT !.step = "discard"]
  /\ UNCHANGED <<folder, child, late, mishaps>>

DropFolder ==
  /\ call.step = "discard"
  /\ folder' = [folder EXCEPT ![call.doc] = NoFolder]
  /\ call' = NoCall
  /\ UNCHANGED <<child, late, job, mishaps>>

(* Indexing fails after the parser has done its part.                      *)
IndexingFails ==
  /\ call.step = "publish" /\ mishaps < MaxMishaps
  /\ Settle(call.doc, TRUE)
  /\ mishaps' = mishaps + 1
  /\ UNCHANGED <<folder, child, late>>

(* A write of the job is refused: it was cancelled, or its lease was lost  *)
(* and it was requeued.  Either way the checkpoint is dropped.             *)
Revoked ==
  /\ call.step \in {"start", "yield", "publish"}
  /\ mishaps < MaxMishaps
  /\ folder' = [folder EXCEPT ![call.doc] = NoFolder]
  /\ \E cancelled \in BOOLEAN :
       job' = [job EXCEPT ![call.doc].outcome =
                 IF cancelled \/ job[call.doc].tries = MaxAttempts
                 THEN "failed" ELSE "open"]
  /\ call' = NoCall
  /\ mishaps' = mishaps + 1
  /\ UNCHANGED <<child, late>>

InThread == call.step \in {"load", "lay out", "store", "record"}

(* The worker stops or loses its lease while the call waits: a child at    *)
(* work is stopped, a thread at work is left to itself.                    *)
Cancel ==
  /\ call.step \in {"probing", "converting", "load", "lay out", "store",
                    "record", "assemble"}
  /\ mishaps < MaxMishaps
  /\ Settle(call.doc, TRUE)
  /\ IF Waiting THEN Reset ELSE UNCHANGED child
  /\ late' = IF InThread THEN late \cup {call} ELSE late
  /\ mishaps' = mishaps + 1
  /\ UNCHANGED folder

(* The worker dies: what is on disk remains.                               *)
WorkerDies ==
  /\ mishaps < MaxMishaps /\ call.step # "none"
  /\ IF Undecided(call.doc) THEN Settle(call.doc, TRUE)
     ELSE call' = NoCall /\ UNCHANGED job
  /\ Reset
  /\ late' = {}
  /\ mishaps' = mishaps + 1
  /\ UNCHANGED folder
-----------------------------------------------------------------------------
WorkerStep ==
  \/ \E d \in Docs : Begin(d)
  \/ Parse \/ Ask \/ Receive \/ ReceiveError \/ ReceiveEof
  \/ Load \/ Write \/ WriteFails \/ Assemble
  \/ Yield \/ Publish \/ DropFolder

ParserNext ==
  \/ WorkerStep
  \/ ChildConverts \/ ChildRefuses \/ ChildDies
  \/ \E t \in late : LateStep(t)
  \/ IndexingFails \/ Revoked \/ Cancel \/ WorkerDies

ParserFairness ==
  /\ WF_parserVars(WorkerStep)
  /\ WF_parserVars(ChildConverts)

ParserSpec == ParserInit /\ [][ParserNext]_parserVars /\ ParserFairness
-----------------------------------------------------------------------------
(* A document that is indexed consists of its own pages, each segment once *)
(* and in its place, whatever was cancelled, restarted or left running,    *)
(* and its usage as a whole keeps the limit: the child is shared by all    *)
(* documents and the directory by all slices of one.                       *)
DocumentsAreWhole ==
  \A d \in Docs : job[d].outcome = "indexed" =>
    /\ DOMAIN job[d].text = Segments(d)
    /\ \A s \in Segments(d) :
         job[d].text[s] # Missing
           /\ job[d].text[s][1].doc = d /\ job[d].text[s][1].seg = s
    /\ d \notin Plain => Usage(job[d].text) <= Budget

(* Continuations cost no attempt, yet every document is decided: a slice   *)
(* always leaves one pending segment less than it found, so that a job     *)
(* cannot be handed on forever.                                            *)
ParsingIsDecided == \A d \in Docs : <>(~Undecided(d))
=============================================================================
