--------------------------- MODULE ManagementPage ---------------------------
(***************************************************************************)
(* The management page of the web client                                   *)
(* (KnowledgeBaseManagementPage.tsx): one knowledge base at a time with    *)
(* its documents, their newest indexing jobs, one inspected document, a    *)
(* graph configuration and a search, and a user who uploads, replaces,     *)
(* deletes, excludes, retries and renames while every request may be       *)
(* handled and answered late, or fail, or be answered for a base the page  *)
(* has left.                                                               *)
(*                                                                         *)
(* A request is handled by the server and answered later.  Instead of the  *)
(* numbers of its generation and sequence a request carries whether they   *)
(* are still the current ones.  Only the list of documents is remembered   *)
(* as the server had it: no property tells when another answer was read.   *)
(***************************************************************************)
EXTENDS FiniteSets, Naturals

CONSTANTS KnowledgeBases, Documents, Unset,
          Home,         \* the base of a document
          MaxActs,      \* bound: things the user does and polls
          MaxRequests   \* bound: requests in flight when a new one is made

ASSUME PageConstants ==
  /\ Home \in [Documents -> KnowledgeBases] /\ Unset \notin KnowledgeBases \cup Documents
  /\ MaxActs \in Nat /\ MaxRequests \in Nat

VARIABLES
  kept,      \* server: per base "unborn", "kept" or "deleted"
  job,       \* server: per document its newest job, "none" or "deleted"
  page,      \* what the page shows
  requests,  \* the requests in flight
  told,      \* history of this view: documents whose upload or deletion was
             \* acknowledged, and those whose deletion was tried
  acts       \* things the user did and polls (bound)

pageVars == <<kept, job, page, requests, told, acts>>

Of(b) == {d \in Documents : Home[d] = b}
Kept == {b \in KnowledgeBases : kept[b] = "kept"}
StoredIn(b) == {d \in Of(b) : job[d] \notin {"none", "deleted"}}

Nothing == [d \in Documents |-> "none"]
EmptyPage ==
  [list |-> {}, base |-> Unset, documents |-> {}, loading |-> FALSE,
   failed |-> FALSE, jobs |-> Nothing, inspected |-> Unset, chunks |-> Unset,
   reading |-> FALSE, batch |-> {}, uploading |-> FALSE, asked |-> Unset,
   confirming |-> FALSE, searching |-> FALSE, result |-> Unset,
   graph |-> Unset, graphing |-> FALSE]

NothingTold == [up |-> {}, gone |-> {}, tried |-> {}]

Request(k, b) ==
  [kind |-> k, base |-> b, doc |-> Unset, here |-> TRUE, last |-> TRUE,
   ends |-> "none", was |-> FALSE, quiet |-> FALSE, done |-> FALSE, items |-> {}]

(* Requests of one family share a sequence: the last one counts.           *)
Family(k) == CASE k \in {"chunks", "more"} -> "chunks"
               [] k \in {"graph", "refresh", "save"} -> "graph"
               [] OTHER -> k
OutOfSequence(rs, new) == rs \cup new                               \* mutant
InSequence(rs, new) ==
  {[r EXCEPT !.last = @ /\ \A n \in new : Family(n.kind) # Family(r.kind)] : r \in rs}
    \cup new

(* loadDocuments and loadJobs, for r if something waits for both.          *)
Reload(b) == {Request(k, b) : k \in {"documents", "jobs"}}
ReloadFor(r, e) ==
  {[q EXCEPT !.ends = e, !.doc = r.doc, !.was = r.was] : q \in Reload(r.base)}

(* The effects of another selected base: a new generation, everything of   *)
(* the old one forgotten, the new one read.  A running search stays.       *)
Selected(p, b) == IF b = p.base THEN p ELSE
  [EmptyPage EXCEPT !.list = p.list, !.base = b, !.loading = b # Unset,
     !.searching = p.searching /\ b # Unset, !.graphing = b # Unset]
Outdated(rs) == {[r EXCEPT !.here = FALSE, !.last = FALSE] : r \in rs}
Asked(p, b, rs) == IF b = p.base THEN rs ELSE
  Outdated(rs) \cup IF b = Unset THEN {}
                    ELSE Reload(b) \cup {Request("graph", b)}

(* The page p selects base b with the requests rs in flight.               *)
Select(p, b, rs) ==
  /\ page' = Selected(p, b)
  /\ requests' = Asked(p, b, rs)
  /\ told' = IF b = p.base THEN told ELSE NothingTold

LoadingList(p) == [p EXCEPT !.loading = TRUE, !.failed = FALSE]
Closed(p) == [p EXCEPT !.inspected = Unset, !.chunks = Unset]
Reading(p) == [p EXCEPT !.reading = TRUE]

-----------------------------------------------------------------------------
(* The user.  The confirmation dialog covers the page.                     *)

Acts ==
  /\ acts < MaxActs /\ acts' = acts + 1
  /\ Cardinality(requests) <= MaxRequests
  /\ UNCHANGED <<kept, job>>
Clicks == Acts /\ page.asked = Unset /\ page.base # Unset

Sends(p, new) == page' = p /\ requests' = InSequence(requests, new) /\ UNCHANGED told

SelectBase(b) ==
  /\ Acts /\ page.asked = Unset /\ b \in page.list \ {page.base}
  /\ Select(page, b, requests)

Refresh == Clicks /\ ~page.loading /\ Sends(LoadingList(page), Reload(page.base))

(* inspectDocument: of a document whose newest job serves.                 *)
Inspect(d) ==
  /\ Clicks /\ d \in page.documents /\ page.jobs[d] = "served"
  /\ Sends(Reading([Closed(page) EXCEPT !.inspected = d]),
           {[Request("chunks", page.base) EXCEPT !.doc = d]})

LoadMore ==
  /\ Clicks /\ page.chunks # Unset
  /\ Sends(Reading(page), {[Request("more", page.base) EXCEPT !.doc = page.inspected]})

CloseChunks == Clicks /\ page.inspected # Unset /\ Sends(Closed(page), {})

UploadRequest(d) == [Request("upload", Home[d]) EXCEPT !.doc = d]

(* uploadFiles: the files of a batch one after the other.                  *)
UploadFiles(D) ==
  /\ Clicks /\ ~page.uploading /\ D # {}
  /\ D \subseteq {d \in Of(page.base) : job[d] = "none"}
  /\ \E d \in D : Sends([page EXCEPT !.uploading = TRUE, !.batch = D \ {d}],
                        {UploadRequest(d)})

UpdateDocument(d) ==
  /\ Clicks /\ ~page.uploading /\ d \in page.documents
  /\ Sends([page EXCEPT !.uploading = TRUE],
           {[Request("version", page.base) EXCEPT !.doc = d,
               !.was = page.inspected = d]})

AskDelete(what) ==
  /\ Clicks
  /\ \/ what \in {[kind |-> "delete document", doc |-> d] : d \in page.documents}
     \/ page.chunks # Unset /\ what = [kind |-> "delete chunk", doc |-> page.inspected]
     \/ what = [kind |-> "delete base", doc |-> Unset]
  /\ Sends([page EXCEPT !.asked = what], {})

Cancel == Acts /\ page.asked # Unset /\ ~page.confirming
            /\ Sends([page EXCEPT !.asked = Unset], {})

(* runConfirmation, with the list and the selection it closes over.        *)
Confirm ==
  /\ Acts /\ page.asked # Unset /\ ~page.confirming
  /\ told' = [told EXCEPT !.tried = @ \cup {d \in Documents : page.asked.doc \in {d, Unset}}]
  /\ page' = [page EXCEPT !.confirming = TRUE]
  /\ requests' = InSequence(requests,
           {[Request(page.asked.kind, page.base) EXCEPT
               !.doc = page.asked.doc, !.items = page.list,
               !.was = page.asked.doc # Unset /\ page.inspected = page.asked.doc]})

RetryJob(d) ==
  /\ Clicks /\ d \in page.documents /\ page.jobs[d] = "failed"
  /\ Sends(page, {[Request("retry", page.base) EXCEPT !.doc = d]})

Pending(kinds) == \E r \in requests : r.kind \in kinds /\ r.here

Describe == Clicks /\ ~Pending({"describe"}) /\ Sends(page, {Request("describe", page.base)})

CreateBase(b) ==
  /\ Acts /\ page.asked = Unset
  /\ kept[b] = "unborn"
  /\ \A r \in requests : r.kind # "create"
  /\ Sends(page, {Request("create", b)})

Search ==
  /\ Clicks /\ ~page.searching
  /\ Sends([page EXCEPT !.searching = TRUE], {Request("search", page.base)})

(* The panel runs one action at a time, whatever base it was started for.  *)
PanelIsIdle == \A r \in requests : r.kind \notin {"refresh", "save"}
RefreshGraph == Clicks /\ PanelIsIdle
  /\ Sends([page EXCEPT !.graphing = TRUE], {Request("refresh", page.base)})
SaveGraph == Clicks /\ PanelIsIdle /\ page.graph # Unset
  /\ page' = page /\ requests' = requests \cup {Request("save", page.base)}
  /\ UNCHANGED told

(* The intervals: jobs while one runs, the graph while it is built.        *)
Polls(k) ==
  /\ Acts /\ ~Pending({k})
  /\ Sends(page, {[Request(k, page.base) EXCEPT !.quiet = TRUE]})
PollJobs == (\E d \in Documents : page.jobs[d] = "running") /\ Polls("jobs")
PollGraph == page.base # Unset /\ page.graph = page.base /\ Polls("graph")

-----------------------------------------------------------------------------
(* The server.                                                             *)

Handled == {"bases", "documents", "upload", "version", "delete document",
            "delete base", "retry", "create", "describe"}

Accepts(r) ==
  CASE r.kind \in {"documents", "describe", "delete base"} -> r.base \in Kept
    [] r.kind = "upload" -> r.base \in Kept /\ job[r.doc] = "none"
    [] r.kind \in {"version", "delete document"} -> r.doc \in StoredIn(r.base)
    [] r.kind = "retry" -> job[r.doc] = "failed"
    [] r.kind = "create" -> kept[r.base] = "unborn"
    [] OTHER -> TRUE

Handle(r) ==
  /\ r.kind \in Handled /\ ~r.done /\ Accepts(r)
  /\ kept' = CASE r.kind = "create" -> [kept EXCEPT ![r.base] = "kept"]
               [] r.kind = "delete base" -> [kept EXCEPT ![r.base] = "deleted"]
               [] OTHER -> kept
  /\ job' = CASE r.kind \in {"upload", "version", "retry"} -> [job EXCEPT ![r.doc] = "running"]
              [] r.kind = "delete document" -> [job EXCEPT ![r.doc] = "deleted"]
              [] r.kind = "delete base" ->
                   [d \in Documents |-> IF d \in StoredIn(r.base) THEN "deleted" ELSE job[d]]
              [] OTHER -> job
  /\ requests' = (requests \ {r}) \cup
       {[r EXCEPT !.done = TRUE,
           !.items = CASE r.kind = "documents" -> StoredIn(r.base)
                       [] r.kind = "bases" -> Kept
                       [] OTHER -> @]}
  /\ UNCHANGED <<page, told, acts>>

IndexingEnds(d) ==
  /\ job[d] = "running"
  /\ \E s \in {"served", "failed"} : job' = [job EXCEPT ![d] = s]
  /\ UNCHANGED <<kept, page, requests, told, acts>>

-----------------------------------------------------------------------------
(* An answer: what the page makes of it, and of what waited for it.        *)

Current(r) == r.here /\ r.last
AnySearch(r) == TRUE                                                  \* mutant
SearchCurrent(r) == r.here
Inspected(r) == Current(r) /\ page.inspected = r.doc
VersionCurrent(p, r) == r.here /\ p.inspected \in {Unset, r.doc}
GraphCurrent(r) == r.last /\ r.base = page.base

Others(r) == requests \ {r}
Answers(r) == r \in requests /\ (r.kind \in Handled => r.done)
              /\ UNCHANGED <<kept, job, acts>>

(* The code after Promise.all([loadDocuments, loadJobs]) or loadChunks.    *)
ConfirmedStillBusy(p, r) == IF r.was THEN Closed(p) ELSE p            \* mutant
Confirmed(p, r) ==
  LET q == IF r.was THEN Closed(p) ELSE p
  IN  IF r.here THEN [q EXCEPT !.asked = Unset, !.confirming = FALSE] ELSE q
Joined(p, r) ==
  IF \E q \in Others(r) : q.ends # "none" /\ q.ends = r.ends /\ q.here = r.here THEN p
  ELSE CASE r.ends = "version" /\ VersionCurrent(p, r) -> [p EXCEPT !.uploading = FALSE]
         [] r.ends = "confirm" -> Confirmed(p, r)
         [] OTHER -> p

Gives(r, p, new) == page' = Joined(p, r) /\ requests' = InSequence(Others(r), new)
                    /\ UNCHANGED told

DocumentsArrive(r) ==
  /\ r.kind = "documents" /\ Answers(r)
  /\ Gives(r, IF Current(r)
              THEN [page EXCEPT !.documents = r.items, !.loading = FALSE,
                      !.inspected = IF @ \in r.items THEN @ ELSE Unset]
              ELSE page, {})

JobsArrive(r) ==
  /\ r.kind = "jobs" /\ Answers(r)
  /\ Gives(r, IF Current(r)
              THEN [page EXCEPT !.jobs =
                      [d \in Documents |-> IF d \in StoredIn(r.base) THEN job[d] ELSE "none"]]
              ELSE page, {})

(* loadChunks; its callback sees no page before, so that it drops a next.  *)
ChunksArrive(r) ==
  /\ r.kind \in {"chunks", "more"} /\ Answers(r)
  /\ Gives(r, IF Inspected(r)
              THEN [page EXCEPT !.reading = FALSE,
                      !.chunks = IF r.kind = "chunks" THEN r.doc ELSE @]
              ELSE page, {})

SearchArrives(r) ==
  /\ r.kind = "search" /\ Answers(r)
  /\ Gives(r, IF SearchCurrent(r) THEN [page EXCEPT !.searching = FALSE, !.result = r.base]
              ELSE page, {})

GraphArrives(r) ==
  /\ r.kind \in {"graph", "refresh"} /\ Answers(r)
  /\ Gives(r, IF GraphCurrent(r)
              THEN [page EXCEPT !.graph = r.base, !.graphing = @ /\ r.quiet]
              ELSE page, {})

GraphSaved(r) ==
  /\ r.kind = "save" /\ Answers(r)
  /\ IF r.base = page.base
     THEN /\ page' = [page EXCEPT !.graph = r.base, !.graphing = FALSE]
          /\ requests' = InSequence(Others(r), {r}) \ {r}
     ELSE page' = page /\ requests' = Others(r)
  /\ UNCHANGED told

(* The next file of the batch, or the reload after the last.               *)
BatchGoesOn(r) ==
  IF ~r.here THEN page' = page /\ requests' = Others(r)
  ELSE IF page.batch = {}
       THEN page' = [LoadingList(page) EXCEPT !.uploading = FALSE]
            /\ requests' = InSequence(Others(r), Reload(r.base))
       ELSE \E d \in page.batch :
              page' = [page EXCEPT !.batch = @ \ {d}]
              /\ requests' = Others(r) \cup {UploadRequest(d)}

Uploaded(r) ==
  /\ r.kind = "upload" /\ Answers(r)
  /\ BatchGoesOn(r)
  /\ told' = IF r.here THEN [told EXCEPT !.up = @ \cup {r.doc}] ELSE told

VersionAccepted(r) ==
  /\ r.kind = "version" /\ Answers(r)
  /\ IF VersionCurrent(page, r)
     THEN Gives(r, LoadingList(IF r.was THEN Closed(page) ELSE page), ReloadFor(r, "version"))
     ELSE Gives(r, page, {})

DocumentDeleted(r) ==
  /\ r.kind = "delete document" /\ Answers(r)
  /\ page' = IF r.here THEN LoadingList(page) ELSE page
  /\ requests' = IF r.here THEN InSequence(Others(r), ReloadFor(r, "confirm")) ELSE Others(r)
  /\ told' = IF r.here THEN [told EXCEPT !.gone = @ \cup {r.doc}]
             ELSE told

ChunkExcluded(r) ==
  /\ r.kind = "delete chunk" /\ Answers(r)
  /\ IF r.here
     THEN Gives(r, Reading(page), {[Request("chunks", r.base) EXCEPT !.doc = r.doc,
                                      !.ends = "confirm"]})
     ELSE Gives(r, page, {})

(* onKnowledgeBaseDeleted, with the list of the confirming click.          *)
BaseDeleted(r) ==
  /\ r.kind = "delete base" /\ Answers(r)
  /\ IF ~r.here THEN Gives(r, page, {})
     ELSE LET left == r.items \ {r.base} IN
          \E b \in (IF left = {} THEN {Unset} ELSE left) :
            Select([page EXCEPT !.list = left], b, Others(r))

JobRetried(r) ==
  /\ r.kind = "retry" /\ Answers(r)
  /\ Gives(r, page, IF r.here THEN {Request("jobs", r.base)} ELSE {})

(* onKnowledgeBaseCreated; the description uses it too.                    *)
BaseSaved(r) ==
  /\ r.kind \in {"create", "describe"} /\ Answers(r)
  /\ Select([page EXCEPT !.list = @ \cup {r.base}], r.base, Others(r))

(* loadKnowledgeBases keeps the selected base if it is still listed.       *)
BasesArrive(r) ==
  /\ r.kind = "bases" /\ Answers(r)
  /\ \E b \in (IF page.base \in r.items THEN {page.base}
               ELSE IF r.items = {} THEN {Unset} ELSE r.items) :
       Select([page EXCEPT !.list = r.items], b, Others(r))

Failed(r) ==
  CASE r.kind = "documents" /\ Current(r) -> [page EXCEPT !.failed = TRUE, !.loading = FALSE]
    [] r.kind \in {"chunks", "more"} /\ Inspected(r) ->
         [page EXCEPT !.reading = FALSE, !.chunks = IF r.kind = "chunks" THEN Unset ELSE @]
    [] r.kind = "search" /\ SearchCurrent(r) -> [page EXCEPT !.searching = FALSE, !.result = Unset]
    [] r.kind \in {"graph", "refresh"} /\ GraphCurrent(r) ->
         [page EXCEPT !.graphing = @ /\ r.quiet]
    [] r.kind = "version" /\ VersionCurrent(page, r) -> [page EXCEPT !.uploading = FALSE]
    [] r.kind \in {"delete document", "delete chunk", "delete base"} /\ r.here ->
         [page EXCEPT !.confirming = FALSE]
    [] OTHER -> page

(* A request fails, or its answer does although it was handled.            *)
RequestFails(r) ==
  /\ UNCHANGED <<kept, job, acts, told>>
  /\ IF r.kind = "upload" THEN BatchGoesOn(r)
     ELSE page' = Joined(Failed(r), r) /\ requests' = Others(r)

Arrives(r) ==
  \/ DocumentsArrive(r) \/ JobsArrive(r) \/ ChunksArrive(r) \/ SearchArrives(r)
  \/ GraphArrives(r) \/ GraphSaved(r) \/ Uploaded(r) \/ VersionAccepted(r)
  \/ DocumentDeleted(r) \/ ChunkExcluded(r) \/ BaseDeleted(r) \/ JobRetried(r)
  \/ BaseSaved(r) \/ BasesArrive(r) \/ RequestFails(r)

-----------------------------------------------------------------------------
PageInit ==
  /\ kept \in [KnowledgeBases -> {"unborn", "kept"}]
  /\ job \in [Documents -> {"none", "served", "failed"}]
  /\ \A d \in Documents : job[d] # "none" => Home[d] \in Kept
  /\ page = EmptyPage
  /\ requests = {Request("bases", Unset)}
  /\ told = NothingTold /\ acts = 0

UserActs ==
  \/ \E b \in KnowledgeBases : SelectBase(b) \/ CreateBase(b)
  \/ \E d \in Documents : Inspect(d) \/ UpdateDocument(d) \/ RetryJob(d)
  \/ \E D \in SUBSET Documents : UploadFiles(D)
  \/ \E k \in {"delete document", "delete chunk", "delete base"}, d \in Documents \cup {Unset} :
       AskDelete([kind |-> k, doc |-> d])
  \/ Refresh \/ LoadMore \/ CloseChunks \/ Cancel \/ Confirm \/ Describe
  \/ Search \/ RefreshGraph \/ SaveGraph

PageNext ==
  \/ UserActs \/ PollJobs \/ PollGraph
  \/ \E d \in Documents : IndexingEnds(d)
  \/ \E r \in requests : Handle(r) \/ Arrives(r)

PageSpec == PageInit /\ [][PageNext]_pageVars

-----------------------------------------------------------------------------
(* Properties.                                                             *)

(* What the page shows is of the selected base, and the chunks it shows    *)
(* are of the inspected document, whatever was answered late               *)
(* (isManagementKbScopeCurrent, isDocumentScopeCurrent).                   *)
PageShowsItsBase ==
  /\ page.documents \subseteq Of(page.base)
  /\ \A d \in Documents \ Of(page.base) : page.jobs[d] = "none"
  /\ page.result \in {Unset, page.base} /\ page.graph \in {Unset, page.base}
  /\ page.inspected # Unset =>
       page.inspected \in page.documents /\ page.chunks \in {Unset, page.inspected}

(* Once the loads are through, what the server acknowledged in this view   *)
(* shows: the uploaded documents are listed, the deleted ones are not,     *)
(* although an older list may have been read later (loadDocuments).        *)
WritesAreShown ==
  (~page.loading /\ ~page.failed /\ ~page.uploading /\ ~page.confirming) =>
    told.up \ told.tried \subseteq page.documents /\ told.gone \cap page.documents = {}

(* The page never waits for a list or for a deletion that nothing will     *)
(* end: a current request of it is still in flight (the finally branches). *)
SpinnersHaveRequests ==
  /\ page.loading => \E r \in requests : r.kind = "documents" /\ Current(r)
  /\ page.confirming => \E r \in requests : r.here /\
       (r.ends = "confirm" \/ r.kind \in {"delete document", "delete chunk", "delete base"})

(* An answer about another base than the selected one leaves the view of   *)
(* the selected base alone, unless it is the base the user just created    *)
(* (docs/architecture.md: late callbacks do not overwrite the view).       *)
LateAnswersKeepTheView ==
  [][\A r \in requests :
       r.kind \notin {"create", "bases"} /\ r.base # page.base /\ Arrives(r)
         => page'.base = page.base]_pageVars
=============================================================================
