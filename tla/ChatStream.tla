----------------------------- MODULE ChatStream -----------------------------
(***************************************************************************)
(* The live progress of one chat run, from the attempts that execute it to *)
(* the timeline of the page: recorder and reporter (answering/activity.py, *)
(* services/chat_progress.py), the bounded queue and NOTIFY of the worker, *)
(* the LISTEN connection and bounded subscription of the API               *)
(* (pg_notify.py), the event stream that ends with the committed answer    *)
(* (chat_delivery.py, routers/chat.py) and the page's merging of what      *)
(* arrives (activityState.ts, App.tsx).                                    *)
(*                                                                         *)
(* None of it is reliable: queues overflow, connections break, an attempt  *)
(* that lost its lease goes on reporting.  Recorded events are numbered by *)
(* their attempt, so that a page can tell what it misses.                  *)
(***************************************************************************)
EXTENDS Naturals, SequencesExt

CONSTANTS MaxAttempts,
          Kept,          \* steps a record keeps (MAX_ACTIVITY_STEPS)
          SinkSize,      \* commands a worker's queue holds
          StreamSize,    \* events a subscription holds
          MaxEvents,     \* bound: events of all attempts
          MaxStages,     \* bound: progress snapshots of all attempts
          MaxLate        \* bound: events late at a time

ASSUME StreamConstants ==
  /\ MaxAttempts \in Nat \ {0} /\ Kept \in Nat \ {0}
  /\ SinkSize \in Nat \ {0} /\ StreamSize \in Nat \ {0}
  /\ MaxEvents \in Nat /\ MaxStages \in Nat /\ MaxLate \in Nat

VARIABLES
  attempts, \* attempts that have been claimed
  record,   \* per attempt: steps of its events, kept steps, stage
  sink,     \* per attempt: its worker's queue and progress snapshots sent
  wire,     \* events on their way late, the stream: open, its events
  page      \* the timeline

streamVars == <<attempts, record, sink, wire, page>>

Nth == 1 .. MaxAttempts
NoRecord == [steps |-> <<>>, last |-> 0, incomplete |-> FALSE, omitted |-> 0]

Unclaimed == [events |-> <<>>, kept |-> {}, stage |-> 0]
NoSink    == [queue |-> <<>>, sent |-> 0]
Unwired   == [late |-> {}, open |-> FALSE, events |-> <<>>]
NewPage   == [phase |-> "away", asked |-> 0, live |-> [a \in Nth |-> NoRecord],
              progress |-> [attempt |-> 0, seq |-> 0, stage |-> 0]]

StreamInit ==
  /\ attempts = 0
  /\ record = [a \in Nth |-> Unclaimed]
  /\ sink = [a \in Nth |-> NoSink]
  /\ wire = Unwired
  /\ page = NewPage

-----------------------------------------------------------------------------
(* The executor.                                                           *)

(* claim_run: first, or when the lease of the attempt before has expired.  *)
(* That attempt may not have noticed and go on; or its worker has died and *)
(* nothing more comes from it.                                             *)
Claim ==
  /\ attempts < MaxAttempts
  /\ page.phase # "settled"
  /\ attempts' = attempts + 1
  /\ UNCHANGED <<record, sink, wire, page>>

(* What is sent.  A step longer than a notification may be is shortened.   *)
StepEvent(a, s, n) == [kind |-> "step", attempt |-> a, step |-> s, seq |-> n, stage |-> 0]
StageEvent(a, n)   == [kind |-> "stage", attempt |-> a, step |-> 0, seq |-> 0, stage |-> n]

(* A full queue drops what is put in.                                      *)
Enqueue(a, item) ==
  sink' = IF Len(sink[a].queue) < SinkSize
          THEN [sink EXCEPT ![a].queue = Append(@, item)] ELSE sink

Sum(n(_)) == FoldSet(LAMBDA a, total : n(a) + total, 0, Nth)
RoomForEvent == Sum(LAMBDA a : Len(record[a].events)) < MaxEvents
RoomForStage == Sum(LAMBDA a : record[a].stage) < MaxStages

Newest(S, n) == {s \in S : Cardinality({t \in S : t > s}) < n}

(* ChatActivityRecorder._save: the oldest steps beyond the limit go, and   *)
(* as many more as the limit of their bytes takes, even the one just saved.*)
Save(a, s) ==
  LET kept == record[a].kept \cup {s}
  IN  /\ RoomForEvent
      /\ \E n \in 0 .. Kept :
           record' = [record EXCEPT ![a].events = Append(@, s), ![a].kept = Newest(kept, n)]
      /\ Enqueue(a, StepEvent(a, s, Len(record[a].events) + 1))

Begin(a) ==
  /\ a <= attempts
  /\ Save(a, Cardinality(ToSet(record[a].events)) + 1)
  /\ UNCHANGED <<attempts, wire, page>>

Update(a, s) ==
  /\ a <= attempts
  /\ s \in record[a].kept
  /\ Save(a, s)
  /\ UNCHANGED <<attempts, wire, page>>

(* ChatProgressReporter.show: a full snapshot, numbered when it is sent.   *)
Show(a) ==
  /\ a <= attempts
  /\ RoomForStage
  /\ record' = [record EXCEPT ![a].stage = @ + 1]
  /\ Enqueue(a, StageEvent(a, record[a].stage + 1))
  /\ UNCHANGED <<attempts, wire, page>>

-----------------------------------------------------------------------------
(* The way to the subscription.                                            *)

(* _on_notification                                                        *)
Fanned(w, event) ==
  IF w.open /\ Len(w.events) < StreamSize
  THEN [w EXCEPT !.events = Append(@, event)] ELSE w

(* The worker's or the listener's connection is lost, until it is opened   *)
(* again: nothing comes through, and nothing is sent again.                *)
Dropped(w) == w

(* A worker that gave a connection up opens another: what the first has    *)
(* not committed yet can come after what the second sends.                 *)
Delayed(w, event) == [w EXCEPT !.late = @ \cup {event}]

(* _run takes the oldest command and NOTIFYs it once.                      *)
Notify(a) ==
  /\ sink[a].queue # <<>>
  /\ LET head  == Head(sink[a].queue)
         sent  == IF head.kind = "stage" THEN sink[a].sent + 1 ELSE sink[a].sent
         event == IF head.kind = "stage" THEN [head EXCEPT !.seq = sent] ELSE head
     IN  /\ sink' = [sink EXCEPT ![a] = [queue |-> Tail(sink[a].queue), sent |-> sent]]
         /\ \/ wire' = Fanned(wire, event)
            \/ wire' = Dropped(wire)
            \/ Cardinality(wire.late) < MaxLate /\ wire' = Delayed(wire, event)
  /\ UNCHANGED <<attempts, record, page>>

NotifyLate(event) ==
  /\ wire' = Fanned([wire EXCEPT !.late = @ \ {event}], event)
  /\ UNCHANGED <<attempts, record, sink, page>>

-----------------------------------------------------------------------------
(* The event stream.                                                       *)

(* _prepare_chat_sse_subscription: a page that has read the run subscribes *)
(* to it, when its streams are not too many.                               *)
Subscribed(w) == [w EXCEPT !.open = TRUE, !.events = <<>>]

Follow ==
  /\ page.phase = "away"
  /\ page' = [page EXCEPT !.phase = "live", !.asked = attempts]
  /\ wire' = Subscribed(wire)
  /\ UNCHANGED <<attempts, record, sink>>

Resubscribe ==
  /\ page.phase = "polling"
  /\ page' = [page EXCEPT !.phase = "live"]
  /\ wire' = Subscribed(wire)
  /\ UNCHANGED <<attempts, record, sink>>

(* A poll finds another status, so that the effect is run again: without a *)
(* word to the timeline it opens another stream, for what it has read.     *)
StatusChanges ==
  /\ page.phase \in {"live", "polling"}
  /\ \E read \in page.asked .. attempts :
       page' = [page EXCEPT !.phase = "live", !.asked = read]
  /\ wire' = Subscribed(wire)
  /\ UNCHANGED <<attempts, record, sink>>

(* The stream is cut off, or its longest duration is over.                 *)
CutOff ==
  /\ page.phase = "live"
  /\ wire' = [wire EXCEPT !.open = FALSE, !.events = <<>>]
  /\ page' = [page EXCEPT !.phase = "polling",
                !.live = [a \in Nth |-> IF @[a] = NoRecord THEN NoRecord
                                        ELSE [@[a] EXCEPT !.incomplete = TRUE]]]
  /\ UNCHANGED <<attempts, record, sink>>

(* The attempt that has the lease has committed its answer, and the        *)
(* watcher or a poll reads it: what waits is discarded, the stored record  *)
(* replaces the timeline, and the run is over for the page.  A run can end *)
(* before its first attempt.                                               *)
Settle ==
  /\ page.phase \in {"live", "polling"}
  /\ page' = [NewPage EXCEPT !.phase = "settled"]
  /\ attempts' = 0
  /\ record' = [a \in Nth |-> Unclaimed]
  /\ sink' = [a \in Nth |-> NoSink]
  /\ wire' = Unwired

-----------------------------------------------------------------------------
(* The page.                                                               *)

Streamed == {a \in Nth : page.live[a] # NoRecord}
NeverOutlived(a) == FALSE                                             \* mutant
Outlived(a) == a < page.asked \/ \E b \in Streamed : b > a

GapsUnnoticed(r, event) == r.incomplete                               \* mutant
Incomplete(r, event) == r.incomplete \/ event.seq > r.last + 1

(* An event the page cannot read is as good as not sent.                   *)
Unreadable(p) == p

(* applyActivity                                                           *)
Merged(r, event) ==
  LET steps == [s \in DOMAIN r.steps \cup {event.step} |->
                  IF s = event.step THEN event.seq ELSE r.steps[s]]
      shown == Newest(DOMAIN steps, Kept)
  IN  [steps      |-> [s \in shown |-> steps[s]],
       last       |-> IF event.seq > r.last THEN event.seq ELSE r.last,
       incomplete |-> Incomplete(r, event),
       omitted    |-> r.omitted + Cardinality(DOMAIN steps \ shown)]

ApplyActivity(event) ==
  LET r == page.live[event.attempt]
  IN  IF \/ Outlived(event.attempt)
         \/ event.step \in DOMAIN r.steps /\ r.steps[event.step] >= event.seq
      THEN page
      ELSE [page EXCEPT !.live[event.attempt] = Merged(r, event)]

(* applyProgress                                                           *)
ApplyProgress(event) ==
  LET p == page.progress
  IN  IF event.attempt < p.attempt \/ (event.attempt = p.attempt /\ event.seq <= p.seq)
      THEN page
      ELSE [page EXCEPT !.progress = [attempt |-> event.attempt, seq |-> event.seq,
                                      stage |-> event.stage]]

Deliver ==
  /\ page.phase = "live"
  /\ wire.events # <<>>
  /\ LET event == Head(wire.events)
     IN  page' \in {Unreadable(page), IF event.kind = "step" THEN ApplyActivity(event)
                                      ELSE ApplyProgress(event)}
  /\ wire' = [wire EXCEPT !.events = Tail(@)]
  /\ UNCHANGED <<attempts, record, sink>>

-----------------------------------------------------------------------------
Over == page.phase = "settled" /\ UNCHANGED streamVars

StreamNext ==
  \/ Claim
  \/ \E a \in Nth : \/ Begin(a) \/ (\E s \in record[a].kept : Update(a, s))
                    \/ Show(a) \/ Notify(a)
  \/ \E event \in wire.late : NotifyLate(event)
  \/ Follow
  \/ Resubscribe
  \/ StatusChanges
  \/ CutOff
  \/ Settle
  \/ Deliver
  \/ Over

StreamSpec == StreamInit /\ [][StreamNext]_streamVars

-----------------------------------------------------------------------------
(* What an attempt had recorded with its first n events.                   *)
Recorded(a, n) ==
  LET events == SubSeq(record[a].events, 1, n)
  IN  [s \in Newest(ToSet(events), Kept) |->
         CHOOSE i \in 1 .. n : events[i] = s /\ \A j \in i + 1 .. n : events[j] # s]

(* The record of an attempt that is not called incomplete is what the      *)
(* attempt had recorded with its first events, none left out.              *)
StepsAreRecorded ==
  \A a \in Nth :
    LET r == page.live[a]
    IN  ~r.incomplete =>
          /\ r.steps = Recorded(a, r.last)
          /\ r.omitted + Cardinality(DOMAIN r.steps) =
               Cardinality(ToSet(SubSeq(record[a].events, 1, r.last)))

(* Until the answer is there the page does not go back: an executor that   *)
(* lost its lease changes nothing once its successor is shown, and neither *)
(* does a late event of the same attempt.                                  *)
PreviewAdvances ==
  page'.phase # "settled" =>
     /\ \A a, b \in Nth : a < b /\ page.live[b] # NoRecord =>
          page'.live[a].steps = page.live[a].steps
     /\ \A a \in Nth : \A s \in DOMAIN page.live[a].steps \cap DOMAIN page'.live[a].steps :
          page.live[a].steps[s] <= page'.live[a].steps[s]
     /\ page.progress.attempt <= page'.progress.attempt
     /\ page.progress.attempt = page'.progress.attempt =>
          page.progress.stage <= page'.progress.stage

(* The timeline of a run says when it may miss something and never goes    *)
(* back, whatever was dropped, late, cut off or sent by an executor that   *)
(* had lost its lease.                                                     *)
TimelineIsFaithful == [][StepsAreRecorded' /\ PreviewAdvances]_streamVars
=============================================================================
