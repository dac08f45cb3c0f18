------------------------ MODULE ManagementPageProofs ------------------------
(***************************************************************************)
(* Proofs about the two pages of the web client.                           *)
(*                                                                         *)
(* ManagementPage, for every number of bases, documents and requests in    *)
(* flight.  First: what the page shows and keeps for its next step is of   *)
(* the selected base, and every request is about what it says (PageInv).   *)
(* Then: what the server acknowledged in this view is what the lists that  *)
(* arrive will show (WritesInv).                                           *)
(*                                                                         *)
(* ChatClient, for any bases, sessions and bounds: what is shown is of the *)
(* session that is shown, and of several loads only the last one asked     *)
(* counts, which was read after all that is shown (ClientInv).             *)
(***************************************************************************)
EXTENDS ManagementPage, ChatClient, WellFoundedInduction, TLAPS

-----------------------------------------------------------------------------
(* What travels between the page and the server.                           *)
Kinds == {"bases", "documents", "jobs", "graph", "refresh", "save", "chunks", "more", "upload",
          "version", "delete document", "delete chunk", "delete base", "retry", "create",
          "describe", "search"}
JobStates == {"none", "running", "served", "failed", "deleted"}
BaseOrNone == KnowledgeBases \cup {Unset}
DocumentOrNone == Documents \cup {Unset}

RequestRecords ==
  [kind : Kinds, base : BaseOrNone, doc : DocumentOrNone, here : BOOLEAN, last : BOOLEAN,
   ends : {"none", "version", "confirm"}, was : BOOLEAN, quiet : BOOLEAN, done : BOOLEAN,
   items : SUBSET (KnowledgeBases \cup Documents)]
Questions == [kind : {"delete document", "delete chunk", "delete base"}, doc : DocumentOrNone]
PageRecords ==
  [list : SUBSET KnowledgeBases, base : BaseOrNone, documents : SUBSET Documents,
   loading : BOOLEAN, failed : BOOLEAN, jobs : [Documents -> JobStates],
   inspected : DocumentOrNone, chunks : DocumentOrNone, reading : BOOLEAN,
   batch : SUBSET Documents, uploading : BOOLEAN, asked : Questions \cup {Unset},
   confirming : BOOLEAN, searching : BOOLEAN, result : BaseOrNone, graph : BaseOrNone,
   graphing : BOOLEAN]

PageTypeOK ==
  /\ kept \in [KnowledgeBases -> {"unborn", "kept", "deleted"}]
  /\ job \in [Documents -> JobStates]
  /\ page \in PageRecords
  /\ requests \subseteq RequestRecords
  /\ told \in [up : SUBSET Documents, gone : SUBSET Documents, tried : SUBSET Documents]

(* What a page shows is of its base.                                       *)
Shows(p) ==
  /\ p.documents \subseteq Of(p.base)
  /\ \A d \in Documents \ Of(p.base) : p.jobs[d] = "none"
  /\ p.result \in {Unset, p.base} /\ p.graph \in {Unset, p.base}
  /\ p.inspected # Unset =>
       p.inspected \in p.documents /\ p.chunks \in {Unset, p.inspected}

(* What it keeps for the user's next step is, too.                         *)
Remembers(p) ==
  /\ p.batch \subseteq Of(p.base)
  /\ p.asked # Unset /\ p.asked.kind = "delete document" => p.asked.doc \in Documents

(* What a request carries; one of the present view is about its base b.    *)
Fits(r, b) ==
  /\ r.here /\ r.kind # "create" => r.base = b
  /\ r.kind = "documents" => r.items \subseteq Of(r.base)
  /\ r.kind \in {"bases", "delete base"} => r.items \subseteq KnowledgeBases
  /\ r.kind \in {"create", "describe"} => r.base \in KnowledgeBases
  /\ r.kind \in {"upload", "version", "delete document", "retry"} => r.doc \in Documents
  /\ r.kind = "upload" => r.base = Home[r.doc]

(* A page and the requests of it in flight.                                *)
Good(p, rs) ==
  /\ p \in PageRecords /\ Shows(p) /\ Remembers(p)
  /\ rs \subseteq RequestRecords /\ \A r \in rs : Fits(r, p.base)

PageInv == PageTypeOK /\ Good(page, requests)

(* The server's state and what the view was told.                          *)
ServerTypes ==
  /\ kept \in [KnowledgeBases -> {"unborn", "kept", "deleted"}]
  /\ job \in [Documents -> JobStates]
  /\ told \in [up : SUBSET Documents, gone : SUBSET Documents, tried : SUBSET Documents]

-----------------------------------------------------------------------------
(* A request as InSequence may leave it.                                   *)
Same(q, r) ==
  /\ q.kind = r.kind /\ q.base = r.base /\ q.doc = r.doc /\ q.here = r.here
  /\ q.ends = r.ends /\ q.was = r.was /\ q.done = r.done /\ q.items = r.items
  /\ q.last => r.last

(* Only the order changes when requests are made.                          *)
LEMMA InSequenceKeeps ==
  ASSUME NEW rs \in SUBSET RequestRecords, NEW new \in SUBSET RequestRecords
  PROVE  /\ InSequence(rs, new) \subseteq RequestRecords
         /\ \A q \in InSequence(rs, new) : q \in new \/ \E r \in rs : Same(q, r)
<1>1. ASSUME NEW r \in rs, NEW l \in BOOLEAN
      PROVE  [r EXCEPT !.last = r.last /\ l] \in RequestRecords /\ Same([r EXCEPT !.last = r.last /\ l], r)
      BY DEF RequestRecords, Same
<1>2. ASSUME NEW q \in InSequence(rs, new), q \notin new
      PROVE  q \in RequestRecords /\ \E r \in rs : Same(q, r)
  <2>1. PICK r \in rs : q = [r EXCEPT !.last = @ /\ \A n \in new : Family(n.kind) # Family(r.kind)]
        BY <1>2 DEF InSequence
  <2> DEFINE l == \A n \in new : Family(n.kind) # Family(r.kind)
  <2>2. l \in BOOLEAN /\ q = [r EXCEPT !.last = r.last /\ l]
        BY <2>1
  <2> HIDE DEF l
  <2> QED BY <1>1, <2>2
<1> QED BY <1>2

(* A new request, before its further fields are set.                       *)
LEMMA RequestType ==
  ASSUME NEW k \in Kinds, NEW b \in BaseOrNone
  PROVE  /\ Request(k, b) \in RequestRecords
         /\ Request(k, b).kind = k /\ Request(k, b).base = b /\ Request(k, b).doc = Unset
         /\ Request(k, b).here /\ Request(k, b).last /\ Request(k, b).ends = "none"
         /\ ~Request(k, b).was /\ ~Request(k, b).done /\ Request(k, b).items = {}
BY DEF Request, RequestRecords, DocumentOrNone

(* The order says nothing of what a request carries.                       *)
LEMMA SameFits ==
  ASSUME NEW q, NEW r, Same(q, r), NEW b, Fits(r, b)
  PROVE  Fits(q, b)
BY Zenon DEF Same, Fits

(* A page goes on with new requests.                                       *)
LEMMA GoesOn ==
  ASSUME NEW p, NEW rs, Good(p, rs), NEW q, Good(q, {}), q.base = p.base,
         NEW new \in SUBSET RequestRecords, \A n \in new : Fits(n, p.base)
  PROVE  Good(q, InSequence(rs, new))
<1>1. rs \in SUBSET RequestRecords
      BY DEF Good
<1>2. ASSUME NEW n \in InSequence(rs, new)
      PROVE  Fits(n, p.base)
      BY <1>1, InSequenceKeeps, SameFits DEF Good
<1> QED BY <1>1, <1>2, InSequenceKeeps DEF Good

(* What waited for a request leaves the page good.                         *)
LEMMA JoinedIsGood ==
  ASSUME NEW p, Good(p, {}), NEW r
  PROVE  Good(Joined(p, r), {}) /\ Joined(p, r).base = p.base
<1>1. ASSUME NEW q, Good(q, {})
      PROVE  /\ Good([q EXCEPT !.uploading = FALSE], {})
             /\ Good([q EXCEPT !.asked = Unset, !.confirming = FALSE], {})
             /\ Good(Closed(q), {})
             /\ [q EXCEPT !.uploading = FALSE].base = q.base
             /\ [q EXCEPT !.asked = Unset, !.confirming = FALSE].base = q.base
             /\ Closed(q).base = q.base
  <2>1. PICK t : t = [q EXCEPT !.uploading = FALSE]
        OBVIOUS
  <2>2. Good(t, {}) /\ t.base = q.base
        BY <1>1, <2>1 DEF Good, PageRecords, Shows, Remembers
  <2>3. PICK u : u = [q EXCEPT !.asked = Unset, !.confirming = FALSE]
        OBVIOUS
  <2>4. Good(u, {}) /\ u.base = q.base
        BY <1>1, <2>3 DEF Good, PageRecords, Shows, Remembers
  <2>5. PICK v : v = [q EXCEPT !.inspected = Unset, !.chunks = Unset]
        OBVIOUS
  <2>6. Good(v, {}) /\ v.base = q.base
        BY <1>1, <2>5 DEF Good, PageRecords, DocumentOrNone, Shows, Remembers
  <2> QED BY <2>1, <2>2, <2>3, <2>4, <2>5, <2>6 DEF Closed
<1>2. Good(Confirmed(p, r), {}) /\ Confirmed(p, r).base = p.base
  <2>1. PICK q : q = IF r.was THEN Closed(p) ELSE p
        OBVIOUS
  <2>2. Good(q, {}) /\ q.base = p.base
        BY <1>1, <2>1
  <2>3. Confirmed(p, r) = IF r.here THEN [q EXCEPT !.asked = Unset, !.confirming = FALSE] ELSE q
        BY <2>1 DEF Confirmed
  <2> QED BY <1>1, <2>2, <2>3
<1> QED BY <1>1, <1>2 DEF Joined

(* The requests for the lists of a base.                                   *)
LEMMA ReloadFits ==
  ASSUME NEW b \in BaseOrNone, NEW r, r.base = b, r.doc \in DocumentOrNone, r.was \in BOOLEAN,
         NEW e \in {"none", "version", "confirm"}
  PROVE  /\ Reload(b) \subseteq RequestRecords /\ \A n \in Reload(b) : Fits(n, b)
         /\ ReloadFor(r, e) \subseteq RequestRecords /\ \A n \in ReloadFor(r, e) : Fits(n, b)
<1>1. ASSUME NEW k \in {"documents", "jobs"}
      PROVE  /\ Request(k, b) \in RequestRecords /\ Fits(Request(k, b), b)
             /\ [Request(k, b) EXCEPT !.ends = e, !.doc = r.doc, !.was = r.was] \in RequestRecords
             /\ Fits([Request(k, b) EXCEPT !.ends = e, !.doc = r.doc, !.was = r.was], b)
  <2>1. k \in Kinds
        BY DEF Kinds
  <2>2. PICK n : n = Request(k, b)
        OBVIOUS
  <2>3. /\ n \in RequestRecords /\ n.kind = k /\ n.base = b /\ n.items = {}
        BY <2>1, <2>2, RequestType
  <2>4. Fits(n, b)
        BY <2>3 DEF Fits
  <2>5. PICK m : m = [n EXCEPT !.ends = e, !.doc = r.doc, !.was = r.was]
        OBVIOUS
  <2>6. m \in RequestRecords /\ m.kind = k /\ m.base = b /\ m.items = {}
        BY <2>3, <2>5 DEF RequestRecords
  <2>7. Fits(m, b)
        BY <2>6 DEF Fits
  <2> QED BY <2>2, <2>3, <2>4, <2>5, <2>6, <2>7
<1> QED BY <1>1 DEF Reload, ReloadFor

(* Another base: everything of the old one is forgotten.                   *)
LEMMA SelectedIsGood ==
  ASSUME NEW p, NEW rs, Good(p, rs), NEW b \in BaseOrNone
  PROVE  Good(Selected(p, b), Asked(p, b, rs))
<1>1. CASE b = p.base
      BY <1>1 DEF Selected, Asked
<1>2. CASE b # p.base
  <2>1. PICK q : q = Selected(p, b)
        OBVIOUS
  <2>2. q \in PageRecords /\ q.base = b /\ Shows(q) /\ Remembers(q)
    <3>1. q = [list |-> p.list, base |-> b, documents |-> {}, loading |-> b # Unset,
               failed |-> FALSE, jobs |-> Nothing, inspected |-> Unset, chunks |-> Unset,
               reading |-> FALSE, batch |-> {}, uploading |-> FALSE, asked |-> Unset,
               confirming |-> FALSE, searching |-> p.searching /\ b # Unset, result |-> Unset,
               graph |-> Unset, graphing |-> b # Unset]
          BY <1>2, <2>1 DEF Selected, EmptyPage
    <3>2. Nothing \in [Documents -> JobStates] /\ \A d \in Documents : Nothing[d] = "none"
          BY DEF Nothing, JobStates
    <3>3. p.list \in SUBSET KnowledgeBases /\ (p.searching /\ b # Unset) \in BOOLEAN
          BY DEF Good, PageRecords
    <3>4. q \in PageRecords
          BY <3>1, <3>2, <3>3 DEF PageRecords, DocumentOrNone, BaseOrNone
    <3> QED BY <3>1, <3>2, <3>4 DEF Shows, Remembers
  <2>3. ASSUME NEW r \in rs
        PROVE  /\ [r EXCEPT !.here = FALSE, !.last = FALSE] \in RequestRecords
               /\ Fits([r EXCEPT !.here = FALSE, !.last = FALSE], b)
        BY DEF Good, RequestRecords, Fits
  <2>4. /\ Outdated(rs) \subseteq RequestRecords
        /\ \A r \in Outdated(rs) : Fits(r, b)
        BY <2>3 DEF Outdated
  <2>5. Request("graph", b) \in RequestRecords /\ Fits(Request("graph", b), b)
    <3>1. PICK g : g = Request("graph", b)
          OBVIOUS
    <3>2. "graph" \in Kinds
          BY DEF Kinds
    <3>3. g \in RequestRecords /\ g.kind = "graph" /\ g.base = b
          BY <3>1, <3>2, RequestType
    <3> QED BY <3>1, <3>3 DEF Fits
  <2>6. Reload(b) \subseteq RequestRecords /\ \A n \in Reload(b) : Fits(n, b)
    <3>1. PICK r : r = [base |-> b, doc |-> Unset, was |-> FALSE]
          OBVIOUS
    <3>2. r.base = b /\ r.doc \in DocumentOrNone /\ r.was \in BOOLEAN
          BY <3>1 DEF DocumentOrNone
    <3> QED BY <3>2, ReloadFits
  <2>7. Asked(p, b, rs) \subseteq Outdated(rs) \cup Reload(b) \cup {Request("graph", b)}
        BY <1>2 DEF Asked
  <2> QED BY <2>1, <2>2, <2>4, <2>5, <2>6, <2>7 DEF Good
<1> QED BY <1>1, <1>2

-----------------------------------------------------------------------------
(* What a click changes of the page leaves it good.                        *)
LEMMA Clicked ==
  ASSUME NEW p, Good(p, {})
  PROVE  /\ Good([p EXCEPT !.asked = Unset], {}) /\ [p EXCEPT !.asked = Unset].base = p.base
         /\ Good(LoadingList(p), {}) /\ LoadingList(p).base = p.base
         /\ Good(Reading(p), {}) /\ Reading(p).base = p.base
         /\ Good(Closed(p), {}) /\ Closed(p).base = p.base
<1> USE DEF Good, PageRecords, Shows, Remembers
<1>1. PICK x : x = [p EXCEPT !.asked = Unset]
      OBVIOUS
<1>2. Good(x, {}) /\ x.base = p.base
      BY <1>1
<1>3. PICK y : y = [p EXCEPT !.loading = TRUE, !.failed = FALSE]
      OBVIOUS
<1>4. Good(y, {}) /\ y.base = p.base
      BY <1>3
<1>5. PICK z : z = [p EXCEPT !.reading = TRUE]
      OBVIOUS
<1>6. Good(z, {}) /\ z.base = p.base
      BY <1>5
<1>7. PICK c : c = [p EXCEPT !.inspected = Unset, !.chunks = Unset]
      OBVIOUS
<1>8. Good(c, {}) /\ c.base = p.base
      BY <1>7 DEF DocumentOrNone
<1> HIDE DEF Good, PageRecords, Shows, Remembers
<1> QED BY <1>1, <1>2, <1>3, <1>4, <1>5, <1>6, <1>7, <1>8 DEF LoadingList, Reading, Closed

(* So do its flags.                                                        *)
LEMMA Flagged ==
  ASSUME NEW p, Good(p, {}), NEW b \in BOOLEAN
  PROVE  /\ Good([p EXCEPT !.uploading = b], {}) /\ [p EXCEPT !.uploading = b].base = p.base
         /\ Good([p EXCEPT !.confirming = b], {}) /\ [p EXCEPT !.confirming = b].base = p.base
         /\ Good([p EXCEPT !.searching = b], {}) /\ [p EXCEPT !.searching = b].base = p.base
         /\ Good([p EXCEPT !.graphing = b], {}) /\ [p EXCEPT !.graphing = b].base = p.base
<1> USE DEF Good, PageRecords, Shows, Remembers
<1>1. PICK t : t = [p EXCEPT !.uploading = b]
      OBVIOUS
<1>2. Good(t, {}) /\ t.base = p.base
      BY <1>1
<1>3. PICK u : u = [p EXCEPT !.confirming = b]
      OBVIOUS
<1>4. Good(u, {}) /\ u.base = p.base
      BY <1>3
<1>5. PICK v : v = [p EXCEPT !.searching = b]
      OBVIOUS
<1>6. Good(v, {}) /\ v.base = p.base
      BY <1>5
<1>7. PICK w : w = [p EXCEPT !.graphing = b]
      OBVIOUS
<1>8. Good(w, {}) /\ w.base = p.base
      BY <1>7
<1> HIDE DEF Good, PageRecords, Shows, Remembers
<1> QED BY <1>1, <1>2, <1>3, <1>4, <1>5, <1>6, <1>7, <1>8

(* Those that are about a document.                                        *)
OfDocuments == {"version", "delete document", "retry"}

(* A new request of the present view fits.                                 *)
LEMMA NewFits ==
  ASSUME NEW n \in RequestRecords, n.items = {}, n.kind \notin {"create", "upload"},
         n.kind \in OfDocuments => n.doc \in Documents,
         n.kind = "describe" => n.base \in KnowledgeBases
  PROVE  Fits(n, n.base)
BY DEF Fits, OfDocuments

(* A new request about a document or none.                                 *)
LEMMA NewOf ==
  ASSUME NEW k \in Kinds, NEW b \in BaseOrNone, NEW d \in DocumentOrNone,
         NEW n, n = [Request(k, b) EXCEPT !.doc = d]
  PROVE  /\ n \in RequestRecords /\ n.kind = k /\ n.base = b /\ n.items = {} /\ n.doc = d
         /\ n.here /\ n.last /\ ~n.done /\ n.ends = "none"
<1>1. PICK r : r = Request(k, b)
      OBVIOUS
<1>2. /\ r \in RequestRecords /\ r.kind = k /\ r.base = b /\ r.items = {} /\ r.doc = Unset
      /\ r.here /\ r.last /\ ~r.done /\ r.ends = "none"
      BY <1>1, RequestType
<1>3. n = [r EXCEPT !.doc = d]
      BY <1>1
<1>4. /\ n \in RequestRecords /\ n.kind = k /\ n.base = b /\ n.items = {} /\ n.doc = d
      /\ n.here /\ n.last /\ ~n.done /\ n.ends = "none"
      BY <1>2, <1>3 DEF RequestRecords
<1> QED BY <1>4

(* A click that sends requests leaves page and requests good.              *)
LEMMA SendsIsGood ==
  ASSUME PageInv, NEW p, Good(p, {}), p.base = page.base,
         NEW new, \A n \in new : n \in RequestRecords /\ Fits(n, page.base), Sends(p, new)
  PROVE  Good(page', requests')
<1>1. new \in SUBSET RequestRecords
      OBVIOUS
<1>2. Good(page, requests)
      BY DEF PageInv
<1> QED BY <1>1, <1>2, GoesOn DEF Sends

(* The request of an upload.                                               *)
LEMMA UploadFits ==
  ASSUME NEW d \in Documents
  PROVE  UploadRequest(d) \in RequestRecords /\ Fits(UploadRequest(d), Home[d])
<1>1. PICK r : r = Request("upload", Home[d])
      OBVIOUS
<1>2. /\ Home[d] \in BaseOrNone /\ "upload" \in Kinds
      BY PageConstants DEF BaseOrNone, Kinds
<1>3. /\ r \in RequestRecords /\ r.kind = "upload" /\ r.base = Home[d] /\ r.items = {}
      BY <1>1, <1>2, RequestType
<1>4. PICK n : n = [r EXCEPT !.doc = d]
      OBVIOUS
<1>5. n \in RequestRecords /\ n.kind = "upload" /\ n.base = Home[d] /\ n.items = {} /\ n.doc = d
      BY <1>3, <1>4 DEF RequestRecords, DocumentOrNone
<1> QED BY <1>1, <1>4, <1>5 DEF Fits, UploadRequest

(* The clicks that only ask.                                               *)
LEMMA ClicksKeepThePage ==
  ASSUME PageInv, NEW d \in DocumentOrNone,
         \/ Refresh \/ Inspect(d) \/ LoadMore \/ CloseChunks \/ UpdateDocument(d) \/ Cancel
         \/ RetryJob(d) \/ Describe \/ Search \/ RefreshGraph \/ PollJobs \/ PollGraph
  PROVE  Good(page', requests')
<1>1. /\ Good(page, {}) /\ page.base \in BaseOrNone /\ page.inspected \in DocumentOrNone
      /\ page.documents \subseteq Documents
      BY DEF PageInv, Good, PageRecords, DocumentOrNone
<1>2. ASSUME NEW n \in RequestRecords, n.items = {}, n.base = page.base,
             n.kind \notin {"create", "upload"},
             n.kind \in OfDocuments => n.doc \in Documents,
             n.kind = "describe" => n.base \in KnowledgeBases
      PROVE  Fits(n, page.base)
      BY <1>2, NewFits
<1>3. ASSUME NEW k \in {"search", "refresh", "describe"},
             k = "describe" => page.base \in KnowledgeBases
      PROVE  Request(k, page.base) \in RequestRecords /\ Fits(Request(k, page.base), page.base)
  <2>1. k \in Kinds
        BY DEF Kinds
  <2>2. PICK n : n = Request(k, page.base)
        OBVIOUS
  <2>3. n \in RequestRecords /\ n.kind = k /\ n.base = page.base /\ n.items = {}
        BY <1>1, <2>1, <2>2, RequestType
  <2> QED BY <1>2, <1>3, <2>2, <2>3 DEF OfDocuments
<1>4. CASE Refresh
  <2>1. Sends(LoadingList(page), Reload(page.base))
        BY <1>4 DEF Refresh
  <2>2. PICK r : r = [base |-> page.base, doc |-> Unset, was |-> FALSE]
        OBVIOUS
  <2>3. r.base = page.base /\ r.doc \in DocumentOrNone /\ r.was \in BOOLEAN
        BY <2>2 DEF DocumentOrNone
  <2>4. \A n \in Reload(page.base) : n \in RequestRecords /\ Fits(n, page.base)
        BY <1>1, <2>3, ReloadFits
  <2> QED BY <1>1, <2>1, <2>4, Clicked, SendsIsGood
<1>5. CASE Inspect(d)
  <2>1. PICK n : /\ n = [Request("chunks", page.base) EXCEPT !.doc = d]
                 /\ n \in RequestRecords
                 /\ n.kind = "chunks" /\ n.base = page.base /\ n.items = {}
    <3>1. PICK n : n = [Request("chunks", page.base) EXCEPT !.doc = d]
          OBVIOUS
    <3>2. PICK k \in Kinds, b \in BaseOrNone, i \in DocumentOrNone :
            k = "chunks" /\ b = page.base /\ i = d
          BY <1>1 DEF Kinds
    <3>3. n = [Request(k, b) EXCEPT !.doc = i]
          BY <3>1, <3>2
    <3> QED BY <3>1, <3>2, <3>3, NewOf
  <2>2. PICK c : c = Closed(page)
        OBVIOUS
  <2>3. PICK t : t = [c EXCEPT !.inspected = d]
        OBVIOUS
  <2>4. Sends(Reading(t), {n}) /\ d \in page.documents
        BY <1>5, <2>1, <2>2, <2>3 DEF Inspect
  <2>5. Good(c, {}) /\ c.base = page.base /\ c.documents = page.documents /\ c.chunks = Unset
        BY <1>1, <2>2, Clicked DEF Closed, Good, PageRecords
  <2>6. Good(t, {}) /\ t.base = page.base
        BY <1>1, <2>3, <2>4, <2>5 DEF Good, PageRecords, Shows, Remembers
  <2>7. Good(Reading(t), {}) /\ Reading(t).base = page.base
        BY <1>1, <2>6, Clicked
  <2>8. Fits(n, page.base)
        BY <1>2, <2>1 DEF OfDocuments
  <2> QED BY <2>1, <2>4, <2>7, <2>8, SendsIsGood
<1>6. CASE LoadMore
  <2>1. PICK n : /\ n = [Request("more", page.base) EXCEPT !.doc = page.inspected]
                 /\ n \in RequestRecords
                 /\ n.kind = "more" /\ n.base = page.base /\ n.items = {}
    <3>1. PICK n : n = [Request("more", page.base) EXCEPT !.doc = page.inspected]
          OBVIOUS
    <3>2. PICK k \in Kinds, b \in BaseOrNone, i \in DocumentOrNone :
            k = "more" /\ b = page.base /\ i = page.inspected
          BY <1>1 DEF Kinds
    <3>3. n = [Request(k, b) EXCEPT !.doc = i]
          BY <3>1, <3>2
    <3> QED BY <3>1, <3>2, <3>3, NewOf
  <2>2. Sends(Reading(page), {n})
        BY <1>6, <2>1 DEF LoadMore
  <2>3. Fits(n, page.base)
        BY <1>2, <2>1 DEF OfDocuments
  <2>4. Good(Reading(page), {}) /\ Reading(page).base = page.base
        BY <1>1, Clicked
  <2> QED BY <2>1, <2>2, <2>3, <2>4, SendsIsGood
<1>7. CASE CloseChunks
  <2>1. Sends(Closed(page), {})
        BY <1>7 DEF CloseChunks
  <2>2. Good(Closed(page), {}) /\ Closed(page).base = page.base
        BY <1>1, Clicked
  <2> QED BY <2>1, <2>2, SendsIsGood
<1>8. CASE UpdateDocument(d)
  <2>1. PICK n : /\ n = [Request("version", page.base) EXCEPT !.doc = d,
                           !.was = (page.inspected = d)]
                 /\ n \in RequestRecords
                 /\ n.kind = "version" /\ n.base = page.base /\ n.items = {} /\ n.doc = d
    <3>1. PICK k \in Kinds, b \in BaseOrNone, i \in DocumentOrNone :
            k = "version" /\ b = page.base /\ i = page.inspected
          BY <1>1 DEF Kinds
    <3>2. PICK r : r = Request(k, b)
          OBVIOUS
    <3>3. r \in RequestRecords /\ r.kind = k /\ r.base = b /\ r.items = {}
          BY <3>2, RequestType
    <3>4. PICK n : n = [r EXCEPT !.doc = d, !.was = (i = d)]
          OBVIOUS
    <3>5. n \in RequestRecords /\ n.kind = k /\ n.base = b /\ n.items = {} /\ n.doc = d
          BY <1>1, <3>3, <3>4 DEF RequestRecords
    <3> QED BY <3>1, <3>2, <3>4, <3>5
  <2>2. Sends([page EXCEPT !.uploading = TRUE], {n})
        BY <1>8, <2>1 DEF UpdateDocument
  <2>3. Fits(n, page.base)
        BY <1>1, <1>2, <1>8, <2>1 DEF UpdateDocument
  <2>4. PICK p : p = [page EXCEPT !.uploading = TRUE] /\ Good(p, {}) /\ p.base = page.base
        BY <1>1, Flagged
  <2>5. Sends(p, {n}) /\ \A m \in {n} : m \in RequestRecords /\ Fits(m, page.base)
        BY <2>1, <2>2, <2>3, <2>4
  <2> QED BY <2>4, <2>5, SendsIsGood
<1>9. CASE Cancel
  <2>1. Sends([page EXCEPT !.asked = Unset], {})
        BY <1>9 DEF Cancel
  <2>2. PICK p : p = [page EXCEPT !.asked = Unset] /\ Good(p, {}) /\ p.base = page.base
        BY <1>1, Clicked
  <2>3. PICK new : new = {}
        OBVIOUS
  <2>4. Sends(p, new)
        BY <2>1, <2>2, <2>3
  <2>5. \A n \in new : n \in RequestRecords /\ Fits(n, page.base)
        BY <2>3
  <2> QED BY <2>2, <2>4, <2>5, SendsIsGood, Zenon
<1>10. CASE RetryJob(d)
  <2>1. PICK n : /\ n = [Request("retry", page.base) EXCEPT !.doc = d]
                 /\ n \in RequestRecords
                 /\ n.kind = "retry" /\ n.base = page.base /\ n.items = {} /\ n.doc = d
    <3>1. PICK n : n = [Request("retry", page.base) EXCEPT !.doc = d]
          OBVIOUS
    <3>2. PICK k \in Kinds, b \in BaseOrNone, i \in DocumentOrNone :
            k = "retry" /\ b = page.base /\ i = d
          BY <1>1 DEF Kinds
    <3>3. n = [Request(k, b) EXCEPT !.doc = i]
          BY <3>1, <3>2
    <3> QED BY <3>1, <3>2, <3>3, NewOf
  <2>2. Sends(page, {n})
        BY <1>10, <2>1 DEF RetryJob
  <2>3. Fits(n, page.base)
        BY <1>1, <1>2, <1>10, <2>1 DEF RetryJob
  <2> QED BY <1>1, <2>1, <2>2, <2>3, SendsIsGood
<1>11. CASE Describe
  <2>1. Sends(page, {Request("describe", page.base)}) /\ page.base \in KnowledgeBases
        BY <1>1, <1>11 DEF Describe, Clicks, BaseOrNone
  <2> QED BY <1>1, <1>3, <2>1, SendsIsGood
<1>12. CASE Search
  <2>1. Sends([page EXCEPT !.searching = TRUE], {Request("search", page.base)})
        BY <1>12 DEF Search
  <2> QED BY <1>1, <1>3, <2>1, Flagged, SendsIsGood
<1>13. CASE RefreshGraph
  <2>1. Sends([page EXCEPT !.graphing = TRUE], {Request("refresh", page.base)})
        BY <1>13 DEF RefreshGraph
  <2> QED BY <1>1, <1>3, <2>1, Flagged, SendsIsGood
<1>14. CASE PollJobs \/ PollGraph
  <2>1. PICK k \in {"jobs", "graph"} :
          Sends(page, {[Request(k, page.base) EXCEPT !.quiet = TRUE]})
        BY <1>14 DEF PollJobs, PollGraph, Polls
  <2>2. PICK n : /\ n = [Request(k, page.base) EXCEPT !.quiet = TRUE] /\ n \in RequestRecords
                 /\ n.kind = k /\ n.base = page.base /\ n.items = {}
    <3>1. PICK b \in BaseOrNone : b = page.base
          BY <1>1
    <3>2. PICK r : r = Request(k, b)
          OBVIOUS
    <3>3. k \in Kinds
          BY DEF Kinds
    <3>4. r \in RequestRecords /\ r.kind = k /\ r.base = b /\ r.items = {}
          BY <3>2, <3>3, RequestType
    <3>5. PICK n : n = [r EXCEPT !.quiet = TRUE]
          OBVIOUS
    <3>6. n \in RequestRecords /\ n.kind = k /\ n.base = b /\ n.items = {}
          BY <3>4, <3>5 DEF RequestRecords
    <3> QED BY <3>1, <3>2, <3>5, <3>6
  <2>3. Fits(n, page.base)
        BY <1>2, <2>2 DEF OfDocuments
  <2> QED BY <1>1, <2>1, <2>2, <2>3, SendsIsGood
<1> QED BY <1>4, <1>5, <1>6, <1>7, <1>8, <1>9, <1>10, <1>11, <1>12, <1>13, <1>14
(* A deletion that is asked for is of a listed document.                   *)
LEMMA AskedOfDocuments ==
  ASSUME NEW what, AskDelete(what)
  PROVE  what.kind = "delete document" => what.doc \in page.documents
<1>1. \/ \E d \in page.documents : what = [kind |-> "delete document", doc |-> d]
      \/ what = [kind |-> "delete chunk", doc |-> page.inspected]
      \/ what = [kind |-> "delete base", doc |-> Unset]
      BY Zenon DEF AskDelete
<1>2. ASSUME NEW d \in page.documents, what = [kind |-> "delete document", doc |-> d]
      PROVE  what.doc \in page.documents
      BY <1>2
<1>3. ASSUME what = [kind |-> "delete chunk", doc |-> page.inspected]
      PROVE  what.kind = "delete chunk"
      BY <1>3
<1>4. ASSUME what = [kind |-> "delete base", doc |-> Unset]
      PROVE  what.kind = "delete base"
      BY <1>4
<1> QED BY <1>1, <1>2, <1>3, <1>4

(* The clicks that keep something for later.                               *)
LEMMA ClicksRemember ==
  ASSUME PageInv,
         \/ \E b \in KnowledgeBases : SelectBase(b) \/ CreateBase(b)
         \/ \E D \in SUBSET Documents : UploadFiles(D)
         \/ \E what \in [kind : {"delete document", "delete chunk", "delete base"},
                         doc : DocumentOrNone] : AskDelete(what)
         \/ Confirm \/ SaveGraph
  PROVE  Good(page', requests')
<1>1. /\ Good(page, {}) /\ Good(page, requests) /\ page \in PageRecords
      /\ page.base \in BaseOrNone /\ page.inspected \in DocumentOrNone
      BY DEF PageInv, Good, PageRecords
<1>2. CASE \E b \in KnowledgeBases : SelectBase(b)
  <2>1. PICK b \in BaseOrNone : Select(page, b, requests)
        BY <1>2 DEF SelectBase, BaseOrNone
  <2> QED BY <1>1, <2>1, SelectedIsGood DEF Select
<1>3. CASE \E b \in KnowledgeBases : CreateBase(b)
  <2>1. PICK b \in KnowledgeBases : Sends(page, {Request("create", b)})
        BY <1>3 DEF CreateBase
  <2>2. PICK k \in Kinds : k = "create"
        BY DEF Kinds
  <2>3. PICK n : n = Request(k, b)
        OBVIOUS
  <2>4. n \in RequestRecords /\ n.kind = "create" /\ n.base = b
        BY <2>2, <2>3, RequestType DEF BaseOrNone
  <2>5. Fits(n, page.base)
        BY <2>4 DEF Fits
  <2> QED BY <1>1, <2>1, <2>2, <2>3, <2>4, <2>5, SendsIsGood
<1>4. CASE \E D \in SUBSET Documents : UploadFiles(D)
  <2>1. PICK D \in SUBSET Documents : \E d \in Documents :
          /\ D \subseteq Of(page.base) /\ d \in D
          /\ Sends([page EXCEPT !.uploading = TRUE, !.batch = D \ {d}], {UploadRequest(d)})
        BY <1>4 DEF UploadFiles
  <2>7. PICK d \in Documents :
          /\ D \subseteq Of(page.base) /\ d \in D
          /\ Sends([page EXCEPT !.uploading = TRUE, !.batch = D \ {d}], {UploadRequest(d)})
        BY <2>1
  <2>2. PICK p : p = [page EXCEPT !.uploading = TRUE, !.batch = D \ {d}]
        OBVIOUS
  <2>3. Good(p, {}) /\ p.base = page.base
        BY <1>1, <2>7, <2>2 DEF Good, PageRecords, Shows, Remembers
  <2>4. d \in Documents /\ Home[d] = page.base
        BY <2>7 DEF Of
  <2>5. PICK n : n = UploadRequest(d) /\ n \in RequestRecords /\ Fits(n, page.base)
        BY <2>4, UploadFits
  <2>6. Sends(p, {n}) /\ \A m \in {n} : m \in RequestRecords /\ Fits(m, page.base)
        BY <2>7, <2>2, <2>5
  <2> QED BY <2>3, <2>6, SendsIsGood
<1>5. CASE \E what \in [kind : {"delete document", "delete chunk", "delete base"},
                        doc : DocumentOrNone] : AskDelete(what)
  <2>1. PICK what \in [kind : {"delete document", "delete chunk", "delete base"},
                       doc : DocumentOrNone] : AskDelete(what)
        BY <1>5
  <2>2. what.kind = "delete document" => what.doc \in page.documents
        BY <2>1, AskedOfDocuments
  <2>3. PICK p : p = [page EXCEPT !.asked = what]
        OBVIOUS
  <2>4. Good(p, {}) /\ p.base = page.base
        BY <1>1, <2>2, <2>3 DEF Good, PageRecords, Questions, Shows, Remembers
  <2>5. PICK new : new = {}
        OBVIOUS
  <2>6. Sends(p, new) /\ \A n \in new : n \in RequestRecords /\ Fits(n, page.base)
        BY <2>1, <2>3, <2>5 DEF AskDelete
  <2> QED BY <2>4, <2>6, SendsIsGood, Zenon
<1>6. CASE Confirm
  <2>1. page.asked \in Questions /\ page.list \in SUBSET KnowledgeBases
        BY <1>1, <1>6 DEF Confirm, PageRecords
  <2>2. PICK k \in Kinds, d \in DocumentOrNone, b \in BaseOrNone, l \in SUBSET KnowledgeBases,
             inspected \in DocumentOrNone :
          /\ k = page.asked.kind /\ d = page.asked.doc /\ b = page.base /\ l = page.list
          /\ inspected = page.inspected
        BY <1>1, <2>1 DEF Questions, Kinds
  <2>3. PICK r : r = Request(k, b)
        OBVIOUS
  <2>4. r \in RequestRecords /\ r.kind = k /\ r.base = b
        BY <2>3, RequestType
  <2>5. PICK n : n = [r EXCEPT !.doc = d, !.items = l, !.was = d # Unset /\ inspected = d]
        OBVIOUS
  <2>6. n \in RequestRecords /\ n.kind = k /\ n.base = b /\ n.doc = d /\ n.items = l
        BY <2>4, <2>5 DEF RequestRecords
  <2>7. k \in {"delete document", "delete chunk", "delete base"}
        BY <2>1, <2>2 DEF Questions
  <2>8. k = "delete document" => d \in Documents
        BY <1>1, <1>6, <2>2 DEF Good, Remembers, Confirm
  <2>9. Fits(n, page.base)
        BY <2>2, <2>6, <2>7, <2>8 DEF Fits
  <2>10. PICK p : p = [page EXCEPT !.confirming = TRUE] /\ Good(p, {}) /\ p.base = page.base
        BY <1>1, Flagged
  <2>11. page' = p /\ requests' = InSequence(requests, {n})
        BY <1>6, <2>2, <2>3, <2>5, <2>10 DEF Confirm
  <2> QED BY <1>1, <2>6, <2>9, <2>10, <2>11, GoesOn
<1>7. CASE SaveGraph
  <2>1. page' = page /\ requests' = requests \cup {Request("save", page.base)}
        BY <1>7 DEF SaveGraph
  <2>2. PICK k \in Kinds, b \in BaseOrNone : k = "save" /\ b = page.base
        BY <1>1 DEF Kinds
  <2>3. PICK n : n = Request(k, b)
        OBVIOUS
  <2>4. n \in RequestRecords /\ n.kind = k /\ n.base = b
        BY <2>3, RequestType
  <2>5. Fits(n, page.base)
        BY <2>2, <2>4 DEF Fits
  <2> QED BY <1>1, <2>1, <2>2, <2>3, <2>4, <2>5 DEF Good
<1> QED BY <1>2, <1>3, <1>4, <1>5, <1>6, <1>7

-----------------------------------------------------------------------------
(* An answer that ends a request and makes others.                         *)
LEMMA GivesIsGood ==
  ASSUME PageInv, NEW r, NEW p, Good(p, {}), p.base = page.base,
         NEW new, \A n \in new : n \in RequestRecords /\ Fits(n, page.base), Gives(r, p, new)
  PROVE  Good(page', requests')
<1>1. new \in SUBSET RequestRecords /\ Good(page, requests)
      BY DEF PageInv
<1>2. Good(page, Others(r))
      BY <1>1 DEF Good, Others
<1>3. PICK q : q = Joined(p, r) /\ Good(q, {}) /\ q.base = page.base
      BY JoinedIsGood
<1>4. page' = q /\ requests' = InSequence(Others(r), new)
      BY <1>3 DEF Gives
<1> QED BY <1>1, <1>2, <1>3, <1>4, GoesOn

(* An answer that leaves the page but for its base.                        *)
LEMMA AnswerIsGood ==
  ASSUME PageInv, NEW r, NEW p, Good(p, {}), p.base = page.base, Gives(r, p, {})
  PROVE  Good(page', requests')
<1>1. PICK new : new = {}
      OBVIOUS
<1>2. Gives(r, p, new) /\ \A n \in new : n \in RequestRecords /\ Fits(n, page.base)
      BY <1>1
<1> QED BY <1>2, GivesIsGood, Zenon

(* The lists that arrive.                                                  *)
LEMMA ListsArrive ==
  ASSUME PageInv, NEW r \in requests,
         DocumentsArrive(r) \/ JobsArrive(r) \/ ChunksArrive(r) \/ SearchArrives(r) \/ GraphArrives(r)
  PROVE  Good(page', requests')
<1>1. /\ Good(page, {}) /\ page \in PageRecords /\ r \in RequestRecords /\ Fits(r, page.base)
      /\ job \in [Documents -> JobStates] /\ Shows(page)
      BY DEF PageInv, PageTypeOK, Good
<1>2. CASE DocumentsArrive(r)
  <2>1. PICK p : p = IF Current(r)
              THEN [page EXCEPT !.documents = r.items, !.loading = FALSE,
                      !.inspected = IF @ \in r.items THEN @ ELSE Unset]
              ELSE page
        OBVIOUS
  <2>2. r.kind = "documents" /\ Gives(r, p, {})
        BY <1>2, <2>1 DEF DocumentsArrive
  <2>3. Good(p, {}) /\ p.base = page.base
    <3>1. CASE Current(r)
      <4>1. r.base = page.base /\ r.items \subseteq Of(page.base)
            BY <1>1, <2>2, <3>1 DEF Current, Fits
      <4>2. PICK i \in DocumentOrNone : i = IF page.inspected \in r.items THEN page.inspected ELSE Unset
            BY <1>1 DEF PageRecords, DocumentOrNone
      <4>3. p = [page EXCEPT !.documents = r.items, !.loading = FALSE, !.inspected = i]
            BY <2>1, <3>1, <4>2 DEF PageRecords
      <4>4. r.items \in SUBSET Documents
            BY <4>1 DEF Of
      <4>5. p \in PageRecords /\ p.base = page.base
            BY <1>1, <4>3, <4>4 DEF PageRecords
      <4>6. /\ p.documents = r.items /\ p.jobs = page.jobs /\ p.result = page.result
            /\ p.graph = page.graph /\ p.inspected = i /\ p.chunks = page.chunks
            /\ p.batch = page.batch /\ p.asked = page.asked
            BY <1>1, <4>3 DEF PageRecords
      <4>7. Shows(p)
            BY <1>1, <4>1, <4>2, <4>5, <4>6 DEF Shows
      <4>8. Remembers(p)
            BY <1>1, <4>5, <4>6 DEF Good, Remembers
      <4> QED BY <4>5, <4>7, <4>8 DEF Good
    <3>2. CASE ~Current(r)
          BY <1>1, <2>1, <3>2
    <3> QED BY <3>1, <3>2
  <2> QED BY <2>2, <2>3, AnswerIsGood
<1>3. CASE JobsArrive(r)
  <2>1. PICK p : p = IF Current(r)
              THEN [page EXCEPT !.jobs =
                      [d \in Documents |-> IF d \in StoredIn(r.base) THEN job[d] ELSE "none"]]
              ELSE page
        OBVIOUS
  <2>2. r.kind = "jobs" /\ Gives(r, p, {})
        BY <1>3, <2>1 DEF JobsArrive
  <2>3. Good(p, {}) /\ p.base = page.base
    <3>1. CASE Current(r)
      <4>1. r.base = page.base
            BY <1>1, <2>2, <3>1 DEF Current, Fits
      <4>2. PICK jobs : jobs = [d \in Documents |-> IF d \in StoredIn(r.base) THEN job[d] ELSE "none"]
            OBVIOUS
      <4>3. /\ jobs \in [Documents -> JobStates]
            /\ \A d \in Documents \ Of(page.base) : jobs[d] = "none"
            BY <1>1, <4>1, <4>2 DEF StoredIn, JobStates
      <4>4. p = [page EXCEPT !.jobs = jobs]
            BY <2>1, <3>1, <4>2
      <4> QED BY <1>1, <4>3, <4>4 DEF Good, PageRecords, Shows, Remembers
    <3>2. CASE ~Current(r)
          BY <1>1, <2>1, <3>2
    <3> QED BY <3>1, <3>2
  <2> QED BY <2>2, <2>3, AnswerIsGood
<1>4. CASE ChunksArrive(r)
  <2>1. PICK p : p = IF Inspected(r)
              THEN [page EXCEPT !.reading = FALSE,
                      !.chunks = IF r.kind = "chunks" THEN r.doc ELSE @]
              ELSE page
        OBVIOUS
  <2>2. Gives(r, p, {})
        BY <1>4, <2>1 DEF ChunksArrive
  <2>3. Good(p, {}) /\ p.base = page.base
    <3>1. CASE Inspected(r)
      <4>1. page.inspected = r.doc /\ r.doc \in DocumentOrNone
            BY <1>1, <3>1 DEF Inspected, RequestRecords
      <4>2. PICK c \in DocumentOrNone : c = IF r.kind = "chunks" THEN r.doc ELSE page.chunks
            BY <1>1, <4>1 DEF PageRecords
      <4>3. p = [page EXCEPT !.reading = FALSE, !.chunks = c]
            BY <2>1, <3>1, <4>2 DEF PageRecords
      <4>4. p \in PageRecords /\ p.base = page.base
            BY <1>1, <4>2, <4>3 DEF PageRecords
      <4>5. /\ p.documents = page.documents /\ p.jobs = page.jobs /\ p.result = page.result
            /\ p.graph = page.graph /\ p.inspected = page.inspected /\ p.chunks = c
            /\ p.batch = page.batch /\ p.asked = page.asked
            BY <1>1, <4>3 DEF PageRecords
      <4>6. Shows(p)
            BY <1>1, <4>1, <4>2, <4>4, <4>5 DEF Shows
      <4>7. Remembers(p)
            BY <1>1, <4>4, <4>5 DEF Good, Remembers
      <4> QED BY <4>4, <4>6, <4>7 DEF Good
    <3>2. CASE ~Inspected(r)
          BY <1>1, <2>1, <3>2
    <3> QED BY <3>1, <3>2
  <2> QED BY <2>2, <2>3, AnswerIsGood
<1>5. CASE SearchArrives(r)
  <2>1. PICK p : p = IF SearchCurrent(r) THEN [page EXCEPT !.searching = FALSE, !.result = r.base]
                     ELSE page
        OBVIOUS
  <2>2. r.kind = "search" /\ Gives(r, p, {})
        BY <1>5, <2>1 DEF SearchArrives
  <2>3. SearchCurrent(r) => r.base = page.base
        BY <1>1, <2>2 DEF SearchCurrent, Fits
  <2>4. Good(p, {}) /\ p.base = page.base
        BY <1>1, <2>1, <2>3 DEF Good, PageRecords, Shows, Remembers
  <2> QED BY <2>2, <2>4, AnswerIsGood
<1>6. CASE GraphArrives(r)
  <2>1. PICK p : p = IF GraphCurrent(r)
              THEN [page EXCEPT !.graph = r.base, !.graphing = @ /\ r.quiet]
              ELSE page
        OBVIOUS
  <2>2. Gives(r, p, {})
        BY <1>6, <2>1 DEF GraphArrives
  <2>3. GraphCurrent(r) => r.base = page.base
        BY DEF GraphCurrent
  <2>4. Good(p, {}) /\ p.base = page.base
        BY <1>1, <2>1, <2>3 DEF Good, PageRecords, Shows, Remembers
  <2> QED BY <2>2, <2>4, AnswerIsGood
<1> QED BY <1>2, <1>3, <1>4, <1>5, <1>6
(* The graph configuration that was saved: a new one in order.             *)
LEMMA GraphIsSaved ==
  ASSUME PageInv, NEW r \in requests, GraphSaved(r)
  PROVE  Good(page', requests')
<1>1. /\ Good(page, {}) /\ Good(page, requests) /\ r \in RequestRecords /\ Fits(r, page.base)
      BY DEF PageInv, Good
<1>2. Good(page, Others(r))
      BY <1>1 DEF Good, Others
<1>3. CASE r.base = page.base
  <2>1. PICK p : p = [page EXCEPT !.graph = r.base, !.graphing = FALSE]
        OBVIOUS
  <2>2. page' = p /\ requests' = InSequence(Others(r), {r}) \ {r}
        BY <1>3, <2>1 DEF GraphSaved
  <2>3. Good(p, {}) /\ p.base = page.base
        BY <1>1, <1>3, <2>1 DEF Good, PageRecords, Shows, Remembers
  <2>4. Good(p, InSequence(Others(r), {r}))
    <3>1. PICK new \in SUBSET RequestRecords : new = {r}
          BY <1>1
    <3>2. \A n \in new : Fits(n, page.base)
          BY <1>1, <3>1
    <3> QED BY <1>2, <2>3, <3>1, <3>2, GoesOn
  <2> QED BY <2>2, <2>4 DEF Good
<1>4. CASE r.base # page.base
      BY <1>2, <1>4 DEF GraphSaved
<1> QED BY <1>3, <1>4

(* The next upload of a batch, or the reload.                              *)
LEMMA BatchIsGood ==
  ASSUME PageInv, NEW r \in requests, r.kind = "upload", BatchGoesOn(r)
  PROVE  Good(page', requests')
<1>1. /\ Good(page, {}) /\ Good(page, requests) /\ page \in PageRecords /\ r \in RequestRecords
      /\ Fits(r, page.base) /\ page.base \in BaseOrNone /\ page.batch \subseteq Of(page.base)
      BY DEF PageInv, Good, PageRecords, Remembers
<1>2. Good(page, Others(r))
      BY <1>1 DEF Good, Others
<1>3. CASE ~r.here
      BY <1>2, <1>3 DEF BatchGoesOn
<1>4. CASE r.here /\ page.batch = {}
  <2>1. /\ page' = [LoadingList(page) EXCEPT !.uploading = FALSE]
        /\ requests' = InSequence(Others(r), Reload(r.base))
        BY <1>4 DEF BatchGoesOn
  <2>2. PICK p : p = LoadingList(page) /\ Good(p, {}) /\ p.base = page.base
        BY <1>1, Clicked
  <2>3. PICK q : q = [p EXCEPT !.uploading = FALSE]
        OBVIOUS
  <2>8. Good(q, {}) /\ q.base = page.base
        BY <2>2, <2>3 DEF Good, PageRecords, Shows, Remembers
  <2>4. r.base = page.base
        BY <1>1, <1>4 DEF Fits
  <2>5. PICK s : s = [base |-> page.base, doc |-> Unset, was |-> FALSE]
        OBVIOUS
  <2>6. s.base = page.base /\ s.doc \in DocumentOrNone /\ s.was \in BOOLEAN
        BY <2>5 DEF DocumentOrNone
  <2>7. PICK new : new = Reload(page.base) /\ new \subseteq RequestRecords
                   /\ \A n \in new : Fits(n, page.base)
        BY <1>1, <2>6, ReloadFits
  <2> QED BY <1>2, <2>1, <2>2, <2>3, <2>4, <2>7, <2>8, GoesOn
<1>5. CASE r.here /\ page.batch # {}
  <2>1. PICK d \in page.batch : /\ page' = [page EXCEPT !.batch = @ \ {d}]
                                /\ requests' = Others(r) \cup {UploadRequest(d)}
        BY <1>5 DEF BatchGoesOn
  <2>2. d \in Documents /\ Home[d] = page.base
        BY <1>1, <2>1 DEF Of
  <2>3. PICK n : n = UploadRequest(d) /\ n \in RequestRecords /\ Fits(n, page.base)
        BY <2>2, UploadFits
  <2>4. PICK p : p = [page EXCEPT !.batch = page.batch \ {d}]
        OBVIOUS
  <2>5. Good(p, {}) /\ p.base = page.base
        BY <1>1, <2>4 DEF Good, PageRecords, Shows, Remembers
  <2>6. page' = p /\ requests' = Others(r) \cup {n}
        BY <1>1, <2>1, <2>3, <2>4 DEF PageRecords
  <2> QED BY <1>2, <2>3, <2>5, <2>6 DEF Good
<1> QED BY <1>3, <1>4, <1>5

(* What a write brings.                                                    *)
LEMMA WritesArrive ==
  ASSUME PageInv, NEW r \in requests,
         \/ VersionAccepted(r) \/ DocumentDeleted(r) \/ ChunkExcluded(r)
         \/ BaseDeleted(r) \/ JobRetried(r) \/ BaseSaved(r) \/ BasesArrive(r)
  PROVE  Good(page', requests')
<1>1. /\ Good(page, {}) /\ Good(page, requests) /\ page \in PageRecords /\ r \in RequestRecords
      /\ Fits(r, page.base) /\ page.base \in BaseOrNone
      /\ r.doc \in DocumentOrNone /\ r.was \in BOOLEAN
      BY DEF PageInv, Good, PageRecords, RequestRecords
<1>2. Good(page, Others(r))
      BY <1>1 DEF Good, Others
<1>3. ASSUME NEW e \in {"version", "confirm"}, r.here, r.kind # "create"
      PROVE  \A n \in ReloadFor(r, e) : n \in RequestRecords /\ Fits(n, page.base)
  <2>1. r.base = page.base
        BY <1>1, <1>3 DEF Fits
  <2> QED BY <1>1, <1>3, <2>1, ReloadFits
<1>4. CASE VersionAccepted(r)
  <2>1. CASE VersionCurrent(page, r)
    <3>1. PICK p : p = IF r.was THEN Closed(page) ELSE page
          OBVIOUS
    <3>2. Good(p, {}) /\ p.base = page.base
          BY <1>1, <3>1, Clicked
    <3>3. PICK q : q = LoadingList(p) /\ Good(q, {}) /\ q.base = page.base
          BY <3>2, Clicked
    <3>4. PICK new : new = ReloadFor(r, "version")
          OBVIOUS
    <3>5. Gives(r, q, new) /\ r.here /\ r.kind # "create"
          BY <1>4, <2>1, <3>1, <3>3, <3>4 DEF VersionAccepted, VersionCurrent
    <3>6. \A n \in new : n \in RequestRecords /\ Fits(n, page.base)
          BY <1>3, <3>4, <3>5
    <3> QED BY <3>3, <3>5, <3>6, GivesIsGood
  <2>2. CASE ~VersionCurrent(page, r)
        BY <1>1, <1>4, <2>2, AnswerIsGood DEF VersionAccepted
  <2> QED BY <2>1, <2>2
<1>5. CASE DocumentDeleted(r)
  <2>1. CASE r.here
    <3>1. PICK new : new = ReloadFor(r, "confirm")
          OBVIOUS
    <3>2. page' = LoadingList(page) /\ requests' = InSequence(Others(r), new) /\ r.kind # "create"
          BY <1>5, <2>1, <3>1 DEF DocumentDeleted
    <3>3. new \subseteq RequestRecords /\ \A n \in new : Fits(n, page.base)
          BY <1>3, <2>1, <3>1, <3>2
    <3>4. PICK p : p = LoadingList(page) /\ Good(p, {}) /\ p.base = page.base
          BY <1>1, Clicked
    <3> QED BY <1>2, <3>2, <3>3, <3>4, GoesOn
  <2>2. CASE ~r.here
        BY <1>2, <1>5, <2>2 DEF DocumentDeleted
  <2> QED BY <2>1, <2>2
<1>6. CASE ChunkExcluded(r)
  <2>1. CASE r.here
    <3>1. PICK n : n = [Request("chunks", r.base) EXCEPT !.doc = r.doc, !.ends = "confirm"]
          OBVIOUS
    <3>2. PICK p : p = Reading(page) /\ Good(p, {}) /\ p.base = page.base
          BY <1>1, Clicked
    <3>3. Gives(r, p, {n}) /\ r.kind # "create"
          BY <1>6, <2>1, <3>1, <3>2 DEF ChunkExcluded
    <3>4. PICK k \in Kinds, b \in BaseOrNone, d \in DocumentOrNone :
            k = "chunks" /\ b = r.base /\ d = r.doc
          BY <1>1 DEF Kinds, RequestRecords
    <3>5. PICK q : q = Request(k, b)
          OBVIOUS
    <3>6. q \in RequestRecords /\ q.kind = k /\ q.base = b
          BY <3>5, RequestType
    <3>7. n \in RequestRecords /\ n.kind = k /\ n.base = b
          BY <3>1, <3>4, <3>5, <3>6 DEF RequestRecords
    <3>8. b = page.base
          BY <1>1, <2>1, <3>3, <3>4 DEF Fits
    <3>9. Fits(n, page.base)
          BY <3>4, <3>7, <3>8 DEF Fits
    <3>10. \A m \in {n} : m \in RequestRecords /\ Fits(m, page.base)
          BY <3>7, <3>9
    <3> QED BY <3>2, <3>3, <3>10, GivesIsGood
  <2>2. CASE ~r.here
        BY <1>1, <1>6, <2>2, AnswerIsGood DEF ChunkExcluded
  <2> QED BY <2>1, <2>2
<1>7. CASE BaseDeleted(r)
  <2>1. CASE r.here
    <3>1. PICK left : left = r.items \ {r.base}
          OBVIOUS
    <3>2. r.kind = "delete base" /\ left \subseteq KnowledgeBases
          BY <1>1, <1>7, <3>1 DEF BaseDeleted, Fits
    <3>3. PICK b \in (IF left = {} THEN {Unset} ELSE left) :
            Select([page EXCEPT !.list = left], b, Others(r))
          BY <1>7, <2>1, <3>1 DEF BaseDeleted
    <3>4. b \in BaseOrNone
          BY <3>2, <3>3 DEF BaseOrNone
    <3>5. PICK p : p = [page EXCEPT !.list = left]
          OBVIOUS
    <3>6. Good(p, {}) /\ p.base = page.base
          BY <1>1, <3>2, <3>5 DEF Good, PageRecords, Shows, Remembers
    <3>7. Good(p, Others(r))
          BY <1>2, <3>6 DEF Good
    <3> QED BY <3>3, <3>4, <3>5, <3>7, SelectedIsGood DEF Select
  <2>2. CASE ~r.here
        BY <1>1, <1>7, <2>2, AnswerIsGood DEF BaseDeleted
  <2> QED BY <2>1, <2>2
<1>8. CASE JobRetried(r)
  <2>1. CASE r.here
    <3>1. PICK n : n = Request("jobs", r.base)
          OBVIOUS
    <3>2. Gives(r, page, {n}) /\ r.kind # "create"
          BY <1>8, <2>1, <3>1 DEF JobRetried
    <3>3. PICK k \in Kinds, b \in BaseOrNone : k = "jobs" /\ b = r.base
          BY <1>1 DEF Kinds, RequestRecords
    <3>4. n \in RequestRecords /\ n.kind = k /\ n.base = b /\ n.items = {}
          BY <3>1, <3>3, RequestType
    <3>5. b = page.base
          BY <1>1, <2>1, <3>2, <3>3 DEF Fits
    <3>6. Fits(n, page.base)
          BY <3>3, <3>4, <3>5 DEF Fits
    <3>7. \A m \in {n} : m \in RequestRecords /\ Fits(m, page.base)
          BY <3>4, <3>6
    <3> QED BY <1>1, <3>2, <3>7, GivesIsGood
  <2>2. CASE ~r.here
        BY <1>1, <1>8, <2>2, AnswerIsGood DEF JobRetried
  <2> QED BY <2>1, <2>2
<1>9. CASE BaseSaved(r)
  <2>1. PICK p : p = [page EXCEPT !.list = page.list \cup {r.base}]
        OBVIOUS
  <2>2. r.kind \in {"create", "describe"} /\ Select(p, r.base, Others(r))
        BY <1>1, <1>9, <2>1 DEF BaseSaved, PageRecords
  <2>3. r.base \in KnowledgeBases
        BY <1>1, <2>2 DEF Fits
  <2>4. PICK b \in BaseOrNone : b = r.base
        BY <2>3 DEF BaseOrNone
  <2>5. Good(p, {}) /\ p.base = page.base
        BY <1>1, <2>1, <2>3 DEF Good, PageRecords, Shows, Remembers
  <2>6. Good(p, Others(r))
        BY <1>2, <2>5 DEF Good
  <2> QED BY <2>2, <2>4, <2>6, SelectedIsGood DEF Select
<1>10. CASE BasesArrive(r)
  <2>1. PICK p : p = [page EXCEPT !.list = r.items]
        OBVIOUS
  <2>2. r.kind = "bases" /\ r.items \subseteq KnowledgeBases
        BY <1>1, <1>10 DEF BasesArrive, Fits
  <2>3. PICK b \in (IF page.base \in r.items THEN {page.base}
               ELSE IF r.items = {} THEN {Unset} ELSE r.items) : Select(p, b, Others(r))
        BY <1>10, <2>1 DEF BasesArrive
  <2>4. b \in BaseOrNone
        BY <1>1, <2>2, <2>3 DEF BaseOrNone
  <2>5. Good(p, {}) /\ p.base = page.base
        BY <1>1, <2>1, <2>2 DEF Good, PageRecords, Shows, Remembers
  <2>6. Good(p, Others(r))
        BY <1>2, <2>5 DEF Good
  <2> QED BY <2>3, <2>4, <2>6, SelectedIsGood DEF Select
<1> QED BY <1>4, <1>5, <1>6, <1>7, <1>8, <1>9, <1>10

(* A request that fails.                                                   *)
LEMMA FailureIsGood ==
  ASSUME PageInv, NEW r \in requests, RequestFails(r)
  PROVE  Good(page', requests')
<1>1. /\ Good(page, {}) /\ Good(page, requests) /\ page \in PageRecords /\ r \in RequestRecords
      BY DEF PageInv, Good
<1>2. CASE r.kind = "upload"
      BY <1>2, BatchIsGood DEF RequestFails
<1>3. CASE r.kind # "upload"
  <2>1. PICK p : p = Failed(r)
        OBVIOUS
  <2>2. page' = Joined(p, r) /\ requests' = Others(r)
        BY <1>3, <2>1 DEF RequestFails
  <2>3. PICK c \in DocumentOrNone : c = IF r.kind = "chunks" THEN Unset ELSE page.chunks
        BY <1>1 DEF PageRecords, DocumentOrNone
  <2>4. PICK g \in BOOLEAN : g = (page.graphing /\ r.quiet)
        OBVIOUS
  <2>5. \/ p = [page EXCEPT !.failed = TRUE, !.loading = FALSE]
        \/ p = [page EXCEPT !.reading = FALSE, !.chunks = c]
        \/ p = [page EXCEPT !.searching = FALSE, !.result = Unset]
        \/ p = [page EXCEPT !.graphing = g]
        \/ p = [page EXCEPT !.uploading = FALSE]
        \/ p = [page EXCEPT !.confirming = FALSE]
        \/ p = page
        BY <1>1, <2>1, <2>3, <2>4 DEF Failed, PageRecords
  <2>6. p \in PageRecords /\ p.base = page.base
        BY <1>1, <2>5, ZenonT(40) DEF PageRecords, BaseOrNone
  <2>7. /\ p.documents = page.documents /\ p.jobs = page.jobs /\ p.graph = page.graph
        /\ p.result \in {page.result, Unset} /\ p.inspected = page.inspected
        /\ p.chunks \in {page.chunks, Unset} /\ p.batch = page.batch /\ p.asked = page.asked
        BY <1>1, <2>3, <2>5 DEF PageRecords
  <2>8. Good(p, {})
        BY <1>1, <2>6, <2>7 DEF Good, Shows, Remembers
  <2>9. PICK q : q = Joined(p, r) /\ Good(q, {}) /\ q.base = page.base
        BY <2>6, <2>8, JoinedIsGood
  <2> QED BY <1>1, <2>2, <2>9 DEF Good, Others
<1> QED BY <1>2, <1>3

(* What the server does with a request.                                    *)
LEMMA HandledIsGood ==
  ASSUME PageInv, NEW r \in requests, Handle(r)
  PROVE  Good(page', requests')
<1>1. /\ Good(page, requests) /\ r \in RequestRecords /\ Fits(r, page.base)
      /\ kept \in [KnowledgeBases -> {"unborn", "kept", "deleted"}]
      BY DEF PageInv, PageTypeOK, Good
<1>2. PICK items : items = CASE r.kind = "documents" -> StoredIn(r.base)
                             [] r.kind = "bases" -> Kept
                             [] OTHER -> r.items
      OBVIOUS
<1>3. /\ StoredIn(r.base) \subseteq Of(r.base) /\ Of(r.base) \subseteq Documents
      /\ Kept \subseteq KnowledgeBases
      BY DEF StoredIn, Of, Kept
<1>4. PICK n : n = [r EXCEPT !.done = TRUE, !.items = items]
      OBVIOUS
<1>5. requests' = (requests \ {r}) \cup {n} /\ page' = page
      BY <1>1, <1>2, <1>4 DEF Handle, RequestRecords
<1>6. items \subseteq KnowledgeBases \cup Documents
      BY <1>1, <1>2, <1>3 DEF RequestRecords
<1>7. /\ n \in RequestRecords /\ n.kind = r.kind /\ n.base = r.base /\ n.doc = r.doc
      /\ n.here = r.here /\ n.items = items
      BY <1>1, <1>4, <1>6 DEF RequestRecords
<1>8. Fits(n, page.base)
      BY <1>1, <1>2, <1>3, <1>7 DEF Fits
<1> QED BY <1>1, <1>5, <1>7, <1>8 DEF Good

(* The server's state and the history of the view keep their types.        *)
LEMMA ServerTypesStay ==
  ASSUME PageInv, [PageNext]_pageVars
  PROVE  ServerTypes'
<1> USE DEF ServerTypes
<1>1. ServerTypes /\ \A r \in requests : Fits(r, page.base) /\ r \in RequestRecords
      BY DEF PageInv, PageTypeOK, Good
<1>2. ASSUME NEW r \in requests, Handle(r)
      PROVE  ServerTypes'
  <2>1. /\ \/ kept' = kept \/ kept' = [kept EXCEPT ![r.base] = "kept"]
           \/ kept' = [kept EXCEPT ![r.base] = "deleted"]
        /\ \/ job' = job \/ job' = [job EXCEPT ![r.doc] = "running"]
           \/ job' = [job EXCEPT ![r.doc] = "deleted"]
           \/ job' = [d \in Documents |-> IF d \in StoredIn(r.base) THEN "deleted" ELSE job[d]]
        /\ told' = told
        BY <1>2 DEF Handle
  <2> QED BY <1>1, <2>1 DEF JobStates
<1>3. ASSUME NEW r \in requests, Arrives(r)
      PROVE  ServerTypes'
  <2>1. CASE Uploaded(r) \/ DocumentDeleted(r)
    <3>1. r.doc \in Documents /\ kept' = kept /\ job' = job
          BY <1>1, <2>1 DEF Uploaded, DocumentDeleted, Answers, Fits
    <3>2. \/ told' = told \/ told' = [told EXCEPT !.up = @ \cup {r.doc}]
          \/ told' = [told EXCEPT !.gone = @ \cup {r.doc}]
          BY <2>1 DEF Uploaded, DocumentDeleted
    <3> QED BY <1>1, <3>1, <3>2
  <2>2. CASE ~(Uploaded(r) \/ DocumentDeleted(r))
    <3>1. kept' = kept /\ job' = job
          BY <1>3, <2>2 DEF Arrives, DocumentsArrive, JobsArrive, ChunksArrive, SearchArrives,
             GraphArrives, GraphSaved, VersionAccepted, ChunkExcluded, BaseDeleted, JobRetried,
             BaseSaved, BasesArrive, RequestFails, Answers
    <3>2. told' = told \/ told' = NothingTold
          BY <1>3, <2>2 DEF Arrives, DocumentsArrive, JobsArrive, ChunksArrive, SearchArrives,
             GraphArrives, GraphSaved, VersionAccepted, ChunkExcluded, BaseDeleted, JobRetried,
             BaseSaved, BasesArrive, RequestFails, Gives, Select
    <3> QED BY <1>1, <3>1, <3>2 DEF NothingTold
  <2> QED BY <2>1, <2>2
<1>4. ASSUME NEW d \in Documents, IndexingEnds(d)
      PROVE  ServerTypes'
      BY <1>1, <1>4 DEF IndexingEnds, JobStates
<1>5. CASE UserActs \/ PollJobs \/ PollGraph
  <2>1. kept' = kept /\ job' = job
        BY <1>5 DEF UserActs, PollJobs, PollGraph, Polls, SelectBase, CreateBase, Inspect,
           UpdateDocument, RetryJob, UploadFiles, AskDelete, Refresh, LoadMore, CloseChunks, Cancel,
           Confirm, Describe, Search, RefreshGraph, SaveGraph, Clicks, Acts
  <2>2. \/ told' = told \/ told' = NothingTold
        \/ \E D \in SUBSET Documents : told' = [told EXCEPT !.tried = @ \cup D]
    <3>1. CASE Confirm
          BY <3>1 DEF Confirm
    <3>2. CASE ~Confirm
          BY <1>5, <3>2 DEF UserActs, PollJobs, PollGraph, Polls, SelectBase, CreateBase, Inspect,
             UpdateDocument, RetryJob, UploadFiles, AskDelete, Refresh, LoadMore, CloseChunks,
             Cancel, Describe, Search, RefreshGraph, SaveGraph, Sends, Select
    <3> QED BY <3>1, <3>2
  <2> QED BY <1>1, <2>1, <2>2 DEF NothingTold
<1>6. CASE UNCHANGED pageVars
      BY <1>1, <1>6 DEF pageVars
<1> QED BY <1>2, <1>3, <1>4, <1>5, <1>6 DEF PageNext

(* The invariant of the management page.                                   *)
LEMMA PageStep ==
  ASSUME PageInv, [PageNext]_pageVars
  PROVE  PageInv'
<1>1. Good(page', requests')
  <2>1. CASE UNCHANGED pageVars \/ \E d \in Documents : IndexingEnds(d)
        BY <2>1 DEF PageInv, IndexingEnds, pageVars
  <2>2. CASE UserActs \/ PollJobs \/ PollGraph
    <3>1. ASSUME NEW k \in {"delete document", "delete chunk", "delete base"},
                 NEW d \in Documents \cup {Unset}, AskDelete([kind |-> k, doc |-> d])
          PROVE  Good(page', requests')
          BY <3>1, ClicksRemember DEF DocumentOrNone
    <3>2. ASSUME NEW d \in Documents, Inspect(d) \/ UpdateDocument(d) \/ RetryJob(d)
          PROVE  Good(page', requests')
          BY <3>2, ClicksKeepThePage DEF DocumentOrNone
    <3>3. CASE Refresh \/ LoadMore \/ CloseChunks \/ Cancel \/ Describe \/ Search \/ RefreshGraph
               \/ PollJobs \/ PollGraph
          BY <3>3, ClicksKeepThePage DEF DocumentOrNone
    <3>4. CASE \/ \E b \in KnowledgeBases : SelectBase(b) \/ CreateBase(b)
               \/ \E D \in SUBSET Documents : UploadFiles(D)
               \/ Confirm \/ SaveGraph
          BY <3>4, ClicksRemember
    <3> QED BY <2>2, <3>1, <3>2, <3>3, <3>4 DEF UserActs
  <2>3. ASSUME NEW r \in requests, Arrives(r)
        PROVE  Good(page', requests')
    <3>1. CASE Uploaded(r)
          BY <3>1, BatchIsGood DEF Uploaded
    <3> QED BY <2>3, <3>1, ListsArrive, GraphIsSaved, WritesArrive, FailureIsGood DEF Arrives
  <2> QED BY <2>1, <2>2, <2>3, HandledIsGood DEF PageNext
<1>2. ServerTypes'
      BY ServerTypesStay
<1> QED BY <1>1, <1>2 DEF PageInv, PageTypeOK, ServerTypes, Good

(* The page opens with nothing to show.                                    *)
LEMMA PageStart == PageInit => PageInv
<1> SUFFICES ASSUME PageInit PROVE PageInv
    OBVIOUS
<1>1. ServerTypes
      BY DEF PageInit, ServerTypes, NothingTold, JobStates
<1>2. page \in PageRecords /\ Shows(page) /\ Remembers(page) /\ page.base = Unset
      BY DEF PageInit, EmptyPage, Nothing, PageRecords, DocumentOrNone, BaseOrNone, JobStates,
             Shows, Remembers
<1>3. \A r \in requests : r \in RequestRecords /\ Fits(r, page.base)
  <2>1. PICK k \in Kinds, b \in BaseOrNone : k = "bases" /\ b = Unset
        BY DEF Kinds, BaseOrNone
  <2>2. PICK r : r = Request(k, b)
        OBVIOUS
  <2>3. r \in RequestRecords /\ r.kind = k /\ r.base = b /\ r.items = {}
        BY <2>2, RequestType
  <2>4. Fits(r, page.base)
        BY <1>2, <2>1, <2>3 DEF Fits
  <2> QED BY <2>1, <2>2, <2>3, <2>4 DEF PageInit
<1> QED BY <1>1, <1>2, <1>3 DEF PageInv, PageTypeOK, ServerTypes, Good

(* The management page as a whole: what it shows, keeps for the next step  *)
(* and waits for, whatever is answered late or never                       *)
(* (KnowledgeBaseManagementPage.tsx).                                      *)
THEOREM PageInvariant == PageSpec => []PageInv
BY PageStart, PageStep, PTL DEF PageSpec

(* What the page shows is of the selected base and the inspected document. *)
THEOREM ShownIsOfTheBase == PageSpec => []PageShowsItsBase
<1>1. PageInv => PageShowsItsBase
      BY DEF PageInv, Good, Shows, PageShowsItsBase
<1> QED BY <1>1, PageInvariant, PTL

-----------------------------------------------------------------------------
(* What the page was told against what it shows (WritesAreShown).          *)

(* The server has d, or a deletion of d was asked for, or its base is gone.*)
IsStored(d) ==
  /\ job[d] # "none"
  /\ d \notin told.tried /\ kept[Home[d]] = "kept" => job[d] # "deleted"

Uploads == {r \in requests : r.kind = "upload" /\ r.here}

(* What the flag "uploading" stands for: an upload, a new version or the   *)
(* lists that are read after one.                                          *)
Busy == {r \in requests : r.here /\ (r.kind \in {"upload", "version"} \/ r.ends = "version")}

(* A list that shows what was acknowledged.                                *)
ShowsWrites(items) == told.up \ told.tried \subseteq items /\ told.gone \cap items = {}

(* What was uploaded in this view is stored until this view deletes it.    *)
UploadsFit ==
  /\ \A r \in Uploads : r.done => IsStored(r.doc)
  /\ \A d \in told.up : d \in Of(page.base) /\ IsStored(d)

(* A deletion is of something that was stored; one of an earlier view is   *)
(* of nothing this view uploads.                                           *)
DeletionsFit ==
  /\ page.asked # Unset /\ page.asked.kind = "delete document" => job[page.asked.doc] # "none"
  /\ \A r \in requests : r.kind = "delete document" =>
       /\ job[r.doc] # "none"
       /\ r.done => job[r.doc] = "deleted"
       /\ r.here => r.doc \in told.tried
       /\ ~r.here => /\ r.doc \notin told.up \cup page.batch
                     /\ \A q \in Uploads : q.doc # r.doc
  /\ \A d \in told.gone : job[d] = "deleted"

(* Lists name what is or was stored, and that is in bases that were made.  *)
ListsFit ==
  /\ \A d \in page.documents : job[d] # "none"
  /\ \A r \in requests : r.kind = "documents" => \A d \in r.items : job[d] # "none"
  /\ \A d \in Documents : job[d] # "none" => kept[Home[d]] # "unborn"

(* One batch or one new version at a time.                                 *)
OneFlow ==
  /\ Busy # {} => page.uploading
  /\ \A r, q \in Busy : q = r \/ (q.ends = "version" /\ r.ends = "version")
  /\ \A r \in requests : r.ends = "version" => r.kind \in {"documents", "jobs"}

(* Between the uploads the list shows what was acknowledged, or the        *)
(* request that counts will bring it.                                      *)
FreshLists ==
  Uploads = {} =>
    /\ \A r \in requests : r.kind = "documents" /\ r.here /\ r.last /\ r.done => ShowsWrites(r.items)
    /\ ~page.loading /\ ~page.failed => ShowsWrites(page.documents)

WritesInv == UploadsFit /\ DeletionsFit /\ ListsFit /\ OneFlow /\ FreshLists

-----------------------------------------------------------------------------
(* The requests rs go on as rs2: in another order, with new ones.          *)
Follows(rs2, rs, new, f) ==
  rs2 = {f[r] : r \in rs} \cup new /\ \A r \in rs : Same(f[r], r)

(* New requests outdate those of their family.                             *)
LEMMA InSequenceFollows ==
  ASSUME NEW rs \in SUBSET RequestRecords, NEW new
  PROVE  \E f : /\ Follows(InSequence(rs, new), rs, new, f)
                /\ \A r \in rs : f[r].last => \A n \in new : Family(n.kind) # Family(r.kind)
<1> DEFINE l(r) == \A n \in new : Family(n.kind) # Family(r.kind)
           f == [r \in rs |-> [r EXCEPT !.last = @ /\ l(r)]]
<1>1. InSequence(rs, new) = {f[r] : r \in rs} \cup new
      BY DEF InSequence
<1>2. ASSUME NEW r \in rs
      PROVE  Same(f[r], r) /\ (f[r].last => l(r))
  <2>1. PICK b \in BOOLEAN : b = l(r)
        OBVIOUS
  <2>2. f[r] = [r EXCEPT !.last = r.last /\ b]
        BY <2>1 DEF RequestRecords
  <2> HIDE DEF f, l
  <2>3. Same(f[r], r) /\ (f[r].last => b)
        BY <2>2 DEF RequestRecords, Same
  <2> QED BY <2>1, <2>3
<1> HIDE DEF f
<1> QED BY <1>1, <1>2 DEF Follows

(* Requests that are left alone go on as they are.                         *)
LEMMA OthersFollow ==
  ASSUME NEW rs
  PROVE  \E f : Follows(rs, rs, {}, f)
<1> DEFINE f == [r \in rs |-> r]
<1>1. \A r \in rs : f[r] = r
      OBVIOUS
<1> HIDE DEF f
<1> QED BY <1>1 DEF Follows, Same

(* A new request that neither writes nor is waited for by a new version.   *)
Harmless(n) ==
  /\ n.kind \notin {"upload", "version", "delete document"} /\ n.ends # "version" /\ ~n.done

(* A step of the page or an answer in one view: what each part asks of it. *)
LEMMA Moved ==
  ASSUME PageInv, WritesInv, PageInv', kept' = kept, job' = job, page'.base = page.base,
         NEW old \in SUBSET requests, NEW new, NEW f, Follows(requests', old, new, f),
         told.tried \subseteq told'.tried,
         \A d \in told'.up : d \in told.up \/ \E r \in Uploads : r.done /\ d = r.doc,
         \A d \in told'.gone : job[d] = "deleted",
         \A d \in page'.batch : d \in page.batch \/ job[d] = "none",
         \A d \in page'.documents : job[d] # "none",
         page'.asked # Unset /\ page'.asked.kind = "delete document" => job[page'.asked.doc] # "none",
         \A n \in new : /\ ~n.done
                        /\ n.kind = "documents" => n.items = {}
                        /\ n.kind = "upload" => n.doc \in page.batch \/ job[n.doc] = "none"
                        /\ n.kind = "delete document" =>
                             n.here /\ job[n.doc] # "none" /\ n.doc \in told'.tried
  PROVE  UploadsFit' /\ DeletionsFit' /\ ListsFit'
<1>1. ASSUME NEW q \in requests'
      PROVE  q \in new \/ \E r \in requests : Same(q, r)
  <2>1. CASE q \notin new
    <3>1. PICK r \in old : q = f[r]
          BY <2>1 DEF Follows
    <3> QED BY <3>1 DEF Follows
  <2> QED BY <2>1
<1>2. \A r \in requests : r.kind = "upload" => r.doc \in Documents /\ r.base = Home[r.doc]
      BY DEF PageInv, Good, Fits
<1>3. \A d : IsStored(d) => IsStored(d)'
      BY DEF IsStored
<1>4. UploadsFit'
  <2>1. ASSUME NEW q \in requests', q.kind = "upload", q.here, q.done
        PROVE  IsStored(q.doc)'
    <3>1. PICK r \in requests : Same(q, r)
          BY <1>1, <2>1
    <3>2. r.kind = "upload" /\ r.here /\ r.done /\ r.doc = q.doc
          BY <2>1, <3>1, Zenon DEF Same
    <3>3. IsStored(q.doc)
          BY <3>2 DEF WritesInv, UploadsFit, Uploads
    <3> QED BY <1>3, <3>3
  <2>2. ASSUME NEW d \in told'.up
        PROVE  d \in Of(page'.base) /\ IsStored(d)'
    <3>1. CASE d \in told.up
          BY <1>3, <3>1 DEF WritesInv, UploadsFit
    <3>2. ASSUME NEW r \in Uploads, r.done, d = r.doc
          PROVE  d \in Of(page.base) /\ IsStored(d)
      <4>1. d \in Documents /\ Home[d] = page.base
            BY <1>2, <3>2, ZenonT(40) DEF Uploads, PageInv, Good, Fits
      <4> QED BY <3>2, <4>1 DEF WritesInv, UploadsFit, Of
    <3> QED BY <1>3, <3>1, <3>2
  <2> QED BY <2>1, <2>2 DEF UploadsFit, Uploads
<1>5. DeletionsFit'
  <2>1. ASSUME NEW q \in requests', q.kind = "delete document"
        PROVE  /\ job'[q.doc] # "none"
               /\ q.done => job'[q.doc] = "deleted"
               /\ q.here => q.doc \in told'.tried
               /\ ~q.here => /\ q.doc \notin told'.up \cup page'.batch
                             /\ \A u \in Uploads' : u.doc # q.doc
    <3>1. CASE q \in new
          BY <2>1, <3>1
    <3>2. ASSUME NEW r \in requests, Same(q, r)
          PROVE  /\ job'[q.doc] # "none"
                 /\ q.done => job'[q.doc] = "deleted"
                 /\ q.here => q.doc \in told'.tried
                 /\ ~q.here => /\ q.doc \notin told'.up \cup page'.batch
                               /\ \A u \in Uploads' : u.doc # q.doc
      <4>1. r.kind = "delete document" /\ q.doc = r.doc /\ q.here = r.here /\ q.done = r.done
            BY <2>1, <3>2, Zenon DEF Same
      <4>2. /\ job[r.doc] # "none"
            /\ r.done => job[r.doc] = "deleted"
            /\ r.here => r.doc \in told.tried
            /\ ~r.here => /\ r.doc \notin told.up \cup page.batch
                          /\ \A u \in Uploads : u.doc # r.doc
            BY <4>1 DEF WritesInv, DeletionsFit
      <4>3. ~r.here => r.doc \notin told'.up \cup page'.batch
            BY <4>2
      <4>4. ASSUME ~r.here, NEW u \in Uploads'
            PROVE  u.doc # r.doc
        <5>1. u \in requests' /\ u.kind = "upload" /\ u.here
              BY <4>4 DEF Uploads
        <5>2. CASE u \in new
              BY <4>2, <4>4, <5>1, <5>2, ZenonT(40)
        <5>3. ASSUME NEW v \in requests, Same(u, v)
              PROVE  u.doc # r.doc
          <6>1. v \in Uploads /\ v.doc = u.doc
                BY <5>1, <5>3, Zenon DEF Uploads, Same
          <6> QED BY <4>2, <4>4, <6>1
        <5> QED BY <1>1, <5>1, <5>2, <5>3
      <4> QED BY <4>1, <4>2, <4>3, <4>4
    <3> QED BY <1>1, <3>1, <3>2
  <2> QED BY <2>1 DEF DeletionsFit
<1>6. ListsFit'
  <2>1. ASSUME NEW q \in requests', q.kind = "documents", NEW d \in q.items
        PROVE  job[d] # "none"
    <3>1. q \notin new
          BY <2>1
    <3>2. PICK r \in requests : Same(q, r)
          BY <1>1, <3>1
    <3>3. r.kind = "documents" /\ r.items = q.items
          BY <2>1, <3>2 DEF Same
    <3> QED BY <3>3 DEF WritesInv, ListsFit
  <2> QED BY <2>1 DEF ListsFit, WritesInv
<1> QED BY <1>4, <1>5, <1>6

(* Who is busy, or uploads, after a step without new ones was before.      *)
LEMMA SameBusy ==
  ASSUME NEW old \in SUBSET requests, NEW new, NEW f, Follows(requests', old, new, f),
         NEW q \in requests', q \notin new
  PROVE  \E r \in old : /\ q = f[r] /\ Same(q, r)
                        /\ q \in Busy' => r \in Busy
                        /\ q \in Uploads' => r \in Uploads
<1>1. PICK r \in old : q = f[r]
      BY DEF Follows
<1>2. Same(q, r)
      BY <1>1 DEF Follows
<1>3. q \in Busy' => r \in Busy
  <2>1. ASSUME q \in Busy'
        PROVE  q.here /\ (q.kind \in {"upload", "version"} \/ q.ends = "version")
        BY <2>1 DEF Busy
  <2>2. r.kind = q.kind /\ r.ends = q.ends /\ r.here = q.here
        BY <1>2 DEF Same
  <2>3. ASSUME q \in Busy'
        PROVE  r.here /\ (r.kind \in {"upload", "version"} \/ r.ends = "version")
        BY <2>1, <2>2, <2>3, Zenon
  <2> QED BY <2>3 DEF Busy
<1>4. q \in Uploads' => r \in Uploads
  <2>1. ASSUME q \in Uploads'
        PROVE  q.here /\ q.kind = "upload"
        BY <2>1 DEF Uploads
  <2>2. r.kind = q.kind /\ r.here = q.here
        BY <1>2 DEF Same
  <2>3. ASSUME q \in Uploads'
        PROVE  r.here /\ r.kind = "upload"
        BY <2>1, <2>2, <2>3, Zenon
  <2> QED BY <2>3 DEF Uploads
<1> QED BY <1>1, <1>2, <1>3, <1>4

(* Nothing new is busy: the flag stays, or nothing is left.                *)
LEMMA FlowGoesOn ==
  ASSUME OneFlow, NEW old \in SUBSET requests, NEW new, NEW f, Follows(requests', old, new, f),
         \A n \in new : n.kind \notin {"upload", "version"} /\ n.ends # "version",
         \/ page.uploading => page'.uploading
         \/ Busy \cap old = {}
  PROVE  OneFlow'
<1>1. \A q \in requests' : q \in new => q \notin Busy'
      BY DEF Busy
<1>2. ASSUME NEW q \in Busy'
      PROVE  \E r \in old : q = f[r] /\ Same(q, r) /\ r \in Busy
  <2>1. q \in requests' /\ q \notin new
        BY <1>1 DEF Busy
  <2> QED BY <2>1, SameBusy
<1>3. Busy' # {} => page'.uploading
      BY <1>2 DEF OneFlow
<1>4. ASSUME NEW q \in Busy', NEW p \in Busy'
      PROVE  p = q \/ (p.ends = "version" /\ q.ends = "version")
  <2>1. PICK r \in old : q = f[r] /\ Same(q, r) /\ r \in Busy
        BY <1>2
  <2>2. PICK s \in old : p = f[s] /\ Same(p, s) /\ s \in Busy
        BY <1>2
  <2> QED BY <2>1, <2>2 DEF OneFlow, Same
<1>5. ASSUME NEW q \in requests', q.ends = "version"
      PROVE  q.kind \in {"documents", "jobs"}
  <2>1. q \notin new
        BY <1>5
  <2>2. PICK r \in old : Same(q, r)
        BY <2>1, SameBusy
  <2> QED BY <1>5, <2>2 DEF OneFlow, Same
<1> QED BY <1>3, <1>4, <1>5 DEF OneFlow

(* What was busy is through, and something new begins.                     *)
LEMMA FlowBegins ==
  ASSUME OneFlow, NEW old \in SUBSET requests, NEW new, NEW f, Follows(requests', old, new, f),
         Busy \cap old = {}, page'.uploading,
         \A n, m \in new : n = m \/ (n.ends = "version" /\ m.ends = "version"),
         \A n \in new : n.ends = "version" => n.kind \in {"documents", "jobs"}
  PROVE  OneFlow'
<1>1. ASSUME NEW q \in Busy'
      PROVE  q \in new
  <2>1. q \in requests'
        BY DEF Busy
  <2> QED BY <2>1, SameBusy
<1>2. ASSUME NEW q \in requests', q.ends = "version"
      PROVE  q.kind \in {"documents", "jobs"}
  <2>1. CASE q \notin new
    <3>1. PICK r \in old : Same(q, r)
          BY <2>1, SameBusy
    <3> QED BY <1>2, <3>1 DEF OneFlow, Same
  <2> QED BY <1>2, <2>1
<1> QED BY <1>1, <1>2 DEF OneFlow

(* Nothing was acknowledged or is uploaded, and no done list is new.       *)
LEMMA FreshGoesOn ==
  ASSUME FreshLists, NEW old \in SUBSET requests, NEW new, NEW f, Follows(requests', old, new, f),
         \A n \in new : ~n.done, told'.up \ told'.tried \subseteq told.up \ told.tried,
         told'.gone = told.gone, Uploads \subseteq old,
         Uploads = {} /\ ~page'.loading /\ ~page'.failed => ShowsWrites(page'.documents)
  PROVE  FreshLists'
<1>1. ASSUME NEW items, ShowsWrites(items)
      PROVE  ShowsWrites(items)'
      BY <1>1 DEF ShowsWrites
<1>2. SUFFICES ASSUME Uploads' = {} PROVE FreshLists'
      BY DEF FreshLists
<1>3. Uploads = {}
  <2>1. ASSUME NEW r \in Uploads
        PROVE  f[r] \in Uploads'
    <3>1. Same(f[r], r) /\ f[r] \in requests'
          BY DEF Follows
    <3>2. f[r].kind = r.kind /\ f[r].here = r.here
          BY <3>1 DEF Same
    <3>3. r.kind = "upload" /\ r.here
          BY DEF Uploads
    <3>4. f[r].kind = "upload" /\ f[r].here
          BY <3>2, <3>3, Zenon
    <3> QED BY <3>1, <3>4 DEF Uploads
  <2> QED BY <1>2, <2>1
<1>4. ASSUME NEW q \in requests', q.kind = "documents", q.here, q.last, q.done
      PROVE  ShowsWrites(q.items)'
  <2>1. q \notin new
        BY <1>4
  <2>2. PICK r \in old : Same(q, r)
        BY <2>1, SameBusy
  <2>3. r.kind = "documents" /\ r.here /\ r.last /\ r.done /\ q.items = r.items
        BY <1>4, <2>2, Zenon DEF Same
  <2>4. ShowsWrites(r.items)
        BY <1>3, <2>3 DEF FreshLists
  <2> QED BY <1>1, <2>3, <2>4
<1>5. ~page'.loading /\ ~page'.failed =>
        told'.up \ told'.tried \subseteq page'.documents /\ told'.gone \cap page'.documents = {}
      BY <1>3 DEF ShowsWrites
<1> QED BY <1>4, <1>5 DEF FreshLists, ShowsWrites

(* A new list is asked for.                                                *)
LEMMA FreshBegins ==
  ASSUME NEW old \in SUBSET requests, NEW new, NEW f, Follows(requests', old, new, f),
         \A r \in old : f[r].last => \A n \in new : Family(n.kind) # Family(r.kind),
         \A n \in new : ~n.done, \E n \in new : n.kind = "documents", page'.loading
  PROVE  FreshLists'
<1>1. ASSUME NEW q \in requests', q.kind = "documents", q.last, q.done
      PROVE  FALSE
  <2>1. q \notin new
        BY <1>1
  <2>2. PICK r \in old : q = f[r] /\ Same(q, r)
        BY <2>1, SameBusy
  <2>3. r.kind = "documents"
        BY <1>1, <2>2 DEF Same
  <2> QED BY <1>1, <2>2, <2>3
<1> QED BY <1>1 DEF FreshLists

-----------------------------------------------------------------------------
(* A page that goes on as before, but for what no write touches.           *)
Calm(p) ==
  /\ p.base = page.base /\ p.batch = page.batch /\ p.documents = page.documents
  /\ p.asked \in {page.asked, Unset}
  /\ ~p.loading /\ ~p.failed => ~page.loading /\ ~page.failed

(* A page that shows what was acknowledged if it waits for nothing.        *)
Settled(p) ==
  /\ p.base = page.base /\ p.batch = page.batch /\ p.asked \in {page.asked, Unset}
  /\ \A d \in p.documents : job[d] # "none"
  /\ Uploads = {} /\ ~p.loading /\ ~p.failed => ShowsWrites(p.documents)
LEMMA CalmIsSettled ==
  ASSUME WritesInv, NEW p, Calm(p)
  PROVE  Settled(p)
BY DEF Calm, Settled, WritesInv, ListsFit, FreshLists

(* The steps that write nothing and acknowledge nothing.                   *)
LEMMA Quiet ==
  ASSUME PageInv, WritesInv, PageInv', kept' = kept, job' = job, told' = told, Settled(page'),
         NEW old \in SUBSET requests, NEW new, NEW f, Follows(requests', old, new, f),
         (page.uploading => page'.uploading) \/ Busy \cap old = {},
         Uploads \subseteq old,
         \A n \in new : Harmless(n) /\ (n.kind = "documents" => n.items = {})
  PROVE  WritesInv'
<1>1. told \in [up : SUBSET Documents, gone : SUBSET Documents, tried : SUBSET Documents]
      BY DEF PageInv, PageTypeOK
<1>2. UploadsFit' /\ DeletionsFit' /\ ListsFit'
  <2>1. \A d \in page'.documents : job[d] # "none"
        BY DEF Settled
  <2>2. page'.asked # Unset /\ page'.asked.kind = "delete document" => job[page'.asked.doc] # "none"
        BY DEF Settled, WritesInv, DeletionsFit
  <2>3. \A d \in told'.gone : job[d] = "deleted"
        BY DEF WritesInv, DeletionsFit
  <2>4. \A n \in new : /\ ~n.done /\ n.kind # "upload" /\ n.kind # "delete document"
                       /\ n.kind = "documents" => n.items = {}
        BY DEF Harmless
  <2>5. page'.base = page.base /\ page'.batch = page.batch
        BY DEF Settled
  <2> QED BY <2>1, <2>2, <2>3, <2>4, <2>5, Moved
<1>3. OneFlow'
      BY FlowGoesOn DEF WritesInv, Harmless
<1>4. FreshLists'
  <2>1. Uploads = {} /\ ~page'.loading /\ ~page'.failed => ShowsWrites(page'.documents)
        BY DEF Settled
  <2>2. \A n \in new : ~n.done
        BY DEF Harmless
  <2> QED BY <2>1, <2>2, FreshGoesOn DEF WritesInv
<1> QED BY <1>2, <1>3, <1>4 DEF WritesInv

(* A list of the documents is read anew.                                   *)
LEMMA ReadAnew ==
  ASSUME PageInv, WritesInv, PageInv', kept' = kept, job' = job, page'.base = page.base,
         NEW old \in SUBSET requests, NEW new, NEW f, Follows(requests', old, new, f),
         \A r \in old : f[r].last => \A n \in new : Family(n.kind) # Family(r.kind),
         told'.tried = told.tried,
         \A d \in told'.up : d \in told.up \/ \E r \in Uploads : r.done /\ d = r.doc,
         \A d \in told'.gone : job[d] = "deleted",
         page'.batch = page.batch, page'.documents = page.documents,
         page'.asked \in {page.asked, Unset}, page'.loading, OneFlow',
         \A n \in new : n.kind \in {"documents", "jobs"} /\ n.items = {} /\ ~n.done,
         \E n \in new : n.kind = "documents"
  PROVE  WritesInv'
<1>1. UploadsFit' /\ DeletionsFit' /\ ListsFit'
  <2>1. \A d \in page'.documents : job[d] # "none"
        BY DEF WritesInv, ListsFit
  <2>2. page'.asked # Unset /\ page'.asked.kind = "delete document" => job[page'.asked.doc] # "none"
        BY DEF WritesInv, DeletionsFit
  <2>3. told.tried \subseteq told'.tried /\ \A d \in page'.batch : d \in page.batch \/ job[d] = "none"
        OBVIOUS
  <2>4. \A n \in new : /\ ~n.done /\ n.kind # "upload" /\ n.kind # "delete document"
                       /\ n.kind = "documents" => n.items = {}
        OBVIOUS
  <2> QED BY <2>1, <2>2, <2>3, <2>4, Moved
<1>2. FreshLists'
      BY FreshBegins
<1> QED BY <1>1, <1>2 DEF WritesInv

(* Another base: nothing of the view before is told.                       *)
LEMMA OtherView ==
  ASSUME PageInv, WritesInv, NEW p, p.base = page.base, p.batch = page.batch,
         p.documents = page.documents, p.asked = page.asked, p.loading = page.loading,
         p.failed = page.failed, p.uploading = page.uploading,
         NEW b \in BaseOrNone, NEW old \in SUBSET requests, Uploads \subseteq old,
         PageInv', kept' = kept, job' = job, Select(p, b, old)
  PROVE  WritesInv'
<1>1. CASE b = page.base
  <2>1. page' = p /\ requests' = old /\ told' = told
        BY <1>1 DEF Select, Selected, Asked
  <2>2. Calm(page') /\ (page.uploading => page'.uploading)
        BY <2>1 DEF Calm
  <2>3. PICK f : Follows(old, old, {}, f)
        BY OthersFollow
  <2>4. PICK new : new = {}
        OBVIOUS
  <2>5. Follows(requests', old, new, f)
        BY <2>1, <2>3, <2>4
  <2>6. \A n \in new : Harmless(n) /\ (n.kind = "documents" => n.items = {})
        BY <2>4
  <2> QED BY <2>1, <2>2, <2>5, <2>6, CalmIsSettled, Quiet
<1>2. CASE b # page.base
  <2>1. told' = NothingTold
        BY <1>2 DEF Select
  <2>2. /\ page'.documents = {} /\ page'.batch = {} /\ page'.asked = Unset
        BY <1>2 DEF Select, Selected, EmptyPage
  <2>3. ASSUME NEW q \in requests'
        PROVE  \/ \E r \in requests : q = [r EXCEPT !.here = FALSE, !.last = FALSE]
               \/ q.kind \in {"documents", "jobs", "graph"} /\ q.ends = "none" /\ ~q.done /\ q.items = {}
    <3>1. q \in Outdated(old) \/ q \in Reload(b) \/ q = Request("graph", b)
          BY <1>2 DEF Select, Asked
    <3>2. ASSUME q \in Outdated(old)
          PROVE  \E r \in requests : q = [r EXCEPT !.here = FALSE, !.last = FALSE]
          BY <3>2 DEF Outdated
    <3>3. ASSUME q \in Reload(b) \/ q = Request("graph", b)
          PROVE  q.kind \in {"documents", "jobs", "graph"} /\ q.ends = "none" /\ ~q.done /\ q.items = {}
          BY <3>3 DEF Reload, Request
    <3> QED BY <3>1, <3>2, <3>3
  <2>4. ASSUME NEW q \in requests'
        PROVE  \/ /\ ~q.here /\ ~q.last
                  /\ \E r \in requests : /\ q.kind = r.kind /\ q.doc = r.doc /\ q.done = r.done
                                         /\ q.items = r.items /\ q.ends = r.ends
               \/ q.kind \in {"documents", "jobs", "graph"} /\ q.ends = "none" /\ ~q.done /\ q.items = {}
    <3>1. ASSUME NEW r \in requests, q = [r EXCEPT !.here = FALSE, !.last = FALSE]
          PROVE  /\ ~q.here /\ ~q.last /\ q.kind = r.kind /\ q.doc = r.doc /\ q.done = r.done
                 /\ q.items = r.items /\ q.ends = r.ends
          BY <3>1 DEF PageInv, Good, RequestRecords
    <3> QED BY <2>3, <3>1
  <2>5. Uploads' = {} /\ Busy' = {}
        BY <2>4 DEF Uploads, Busy
  <2>6. UploadsFit'
        BY <2>1, <2>5 DEF UploadsFit, NothingTold
  <2>7. DeletionsFit'
    <3>1. ASSUME NEW q \in requests', q.kind = "delete document"
          PROVE  ~q.here /\ job[q.doc] # "none" /\ (q.done => job[q.doc] = "deleted")
      <4>1. PICK r \in requests : q.kind = r.kind /\ q.doc = r.doc /\ q.done = r.done
            BY <2>4, <3>1
      <4> QED BY <2>4, <3>1, <4>1, ZenonT(40) DEF WritesInv, DeletionsFit
    <3> QED BY <2>1, <2>2, <2>5, <3>1 DEF DeletionsFit, NothingTold
  <2>8. ListsFit'
    <3>1. ASSUME NEW q \in requests', q.kind = "documents", NEW d \in q.items
          PROVE  job[d] # "none"
      <4>1. PICK r \in requests : q.kind = r.kind /\ q.items = r.items
            BY <2>4, <3>1
      <4> QED BY <3>1, <4>1 DEF WritesInv, ListsFit
    <3> QED BY <2>2, <3>1 DEF ListsFit, WritesInv
  <2>9. OneFlow'
    <3>1. ASSUME NEW q \in requests', q.ends = "version"
          PROVE  q.kind \in {"documents", "jobs"}
      <4>1. PICK r \in requests : q.kind = r.kind /\ q.ends = r.ends
            BY <2>4, <3>1
      <4> QED BY <3>1, <4>1 DEF WritesInv, OneFlow
    <3> QED BY <2>5, <3>1 DEF OneFlow
  <2>10. FreshLists'
        BY <2>1 DEF FreshLists, ShowsWrites, NothingTold
  <2> QED BY <2>6, <2>7, <2>8, <2>9, <2>10 DEF WritesInv
<1> QED BY <1>1, <1>2

-----------------------------------------------------------------------------
(* What the clicks ask for.                                                *)
Polling(k, b) == [Request(k, b) EXCEPT !.quiet = TRUE]
Plainly(k, b, d) ==
  {Request(k, b), [Request(k, b) EXCEPT !.doc = d], Polling(k, b),
   [Request(k, b) EXCEPT !.doc = d, !.ends = "confirm"]}
LEMMA NewIsHarmless ==
  ASSUME NEW k \in Kinds, k \notin {"upload", "version", "delete document"}, NEW b, NEW d,
         NEW n \in Plainly(k, b, d)
  PROVE  Harmless(n) /\ n.items = {} /\ n.kind = k
<1>1. PICK r : r = Request(k, b)
      OBVIOUS
<1>2. r = [kind |-> k, base |-> b, doc |-> Unset, here |-> TRUE, last |-> TRUE, ends |-> "none",
           was |-> FALSE, quiet |-> FALSE, done |-> FALSE, items |-> {}]
      BY <1>1 DEF Request
<1>3. CASE n = r
      BY <1>2, <1>3 DEF Harmless
<1>4. CASE n = [r EXCEPT !.doc = d]
      BY <1>2, <1>4 DEF Harmless
<1>5. CASE n = [r EXCEPT !.quiet = TRUE]
      BY <1>2, <1>5 DEF Harmless
<1>6. CASE n = [r EXCEPT !.doc = d, !.ends = "confirm"]
      BY <1>2, <1>6 DEF Harmless
<1> QED BY <1>1, <1>3, <1>4, <1>5, <1>6 DEF Plainly, Polling

(* Clicks that send what harms nothing.                                    *)
LEMMA SendsQuietly ==
  ASSUME PageInv, WritesInv, PageInv', kept' = kept, job' = job,
         NEW p, Calm(p), page.uploading => p.uploading,
         NEW new, \A n \in new : Harmless(n) /\ n.items = {}, Sends(p, new)
  PROVE  WritesInv'
<1>1. requests \in SUBSET RequestRecords
      BY DEF PageInv, PageTypeOK
<1>2. page' = p /\ requests' = InSequence(requests, new) /\ told' = told
      BY DEF Sends
<1>3. PICK f : Follows(requests', requests, new, f)
      BY <1>1, <1>2, InSequenceFollows
<1>4. Calm(page') /\ Uploads \subseteq requests /\ (page.uploading => page'.uploading)
      BY <1>2 DEF Calm, Uploads
<1> QED BY <1>2, <1>3, <1>4, CalmIsSettled, Quiet

(* The pages those clicks leave.                                           *)
LEMMA CalmPages ==
  ASSUME page \in PageRecords, NEW d
  PROVE  \A p \in {page, Reading(page), Closed(page), Reading([Closed(page) EXCEPT !.inspected = d]),
                   [page EXCEPT !.asked = Unset], [page EXCEPT !.searching = TRUE],
                   [page EXCEPT !.graphing = TRUE]} :
           Calm(p) /\ (page.uploading => p.uploading)
<1> USE DEF PageRecords, Calm, Reading, Closed
<1>1. \A p \in {page, Reading(page), Closed(page)} : Calm(p) /\ (page.uploading => p.uploading)
      OBVIOUS
<1>2. PICK p : p = Reading([Closed(page) EXCEPT !.inspected = d])
      OBVIOUS
<1>3. Calm(p) /\ (page.uploading => p.uploading)
      BY <1>2
<1>4. \A q \in {[page EXCEPT !.asked = Unset], [page EXCEPT !.searching = TRUE],
                [page EXCEPT !.graphing = TRUE]} : Calm(q) /\ (page.uploading => q.uploading)
      OBVIOUS
<1> HIDE DEF PageRecords, Calm, Reading, Closed
<1> QED BY <1>1, <1>2, <1>3, <1>4

(* The clicks that ask, look or close.                                     *)
LEMMA ClicksWrite ==
  ASSUME PageInv, WritesInv, PageInv', NEW d, NEW b,
         \/ Inspect(d) \/ LoadMore \/ CloseChunks \/ Cancel
         \/ RetryJob(d) \/ Describe \/ Search \/ RefreshGraph \/ PollJobs \/ PollGraph
         \/ CreateBase(b)
  PROVE  WritesInv'
<1>1. page \in PageRecords
      BY DEF PageInv, Good
<1>2. kept' = kept /\ job' = job
      BY DEF Inspect, LoadMore, CloseChunks, Cancel, RetryJob, Describe, Search, RefreshGraph,
             PollJobs, PollGraph, Polls, CreateBase, Clicks, Acts
<1>3. ASSUME NEW p \in {page, Reading(page), Closed(page), Reading([Closed(page) EXCEPT !.inspected = d]),
                   [page EXCEPT !.asked = Unset], [page EXCEPT !.searching = TRUE],
                   [page EXCEPT !.graphing = TRUE]},
             NEW k \in {"chunks", "more", "retry", "describe", "search", "refresh", "jobs", "graph",
                        "create"},
             NEW c, NEW e,
             \/ Sends(p, {Request(k, c)}) \/ Sends(p, {[Request(k, c) EXCEPT !.doc = e]})
             \/ Sends(p, {[Request(k, c) EXCEPT !.quiet = TRUE]})
      PROVE  WritesInv'
  <2>1. Calm(p) /\ (page.uploading => p.uploading)
        BY <1>1, CalmPages
  <2>2. k \in Kinds /\ k \notin {"upload", "version", "delete document"}
        BY DEF Kinds
  <2>3. PICK n \in Plainly(k, c, e) : Sends(p, {n})
        BY <1>3 DEF Plainly, Polling
  <2>4. Harmless(n) /\ n.items = {}
        BY <2>2, <2>3, NewIsHarmless
  <2>5. PICK new : new = {n}
        OBVIOUS
  <2>6. Sends(p, new) /\ \A m \in new : Harmless(m) /\ m.items = {}
        BY <2>3, <2>4, <2>5
  <2> QED BY <1>2, <2>1, <2>6, SendsQuietly, Zenon
<1>4. ASSUME NEW p \in {Closed(page), [page EXCEPT !.asked = Unset]}, Sends(p, {})
      PROVE  WritesInv'
  <2>1. Calm(p) /\ (page.uploading => p.uploading)
        BY <1>1, CalmPages
  <2>2. PICK new : new = {}
        OBVIOUS
  <2>3. Sends(p, new) /\ \A n \in new : Harmless(n) /\ n.items = {}
        BY <1>4, <2>2
  <2> QED BY <1>2, <2>1, <2>3, SendsQuietly, Zenon
<1>5. PICK c : c = page.base
      OBVIOUS
<1>6. CASE Inspect(d)
  <2>1. PICK p : p = Reading([Closed(page) EXCEPT !.inspected = d])
        OBVIOUS
  <2>2. Sends(p, {[Request("chunks", c) EXCEPT !.doc = d]})
        BY <1>5, <1>6, <2>1 DEF Inspect
  <2> QED BY <1>3, <2>1, <2>2
<1>7. CASE LoadMore
  <2>1. PICK e : e = page.inspected
        OBVIOUS
  <2>2. Sends(Reading(page), {[Request("more", c) EXCEPT !.doc = e]})
        BY <1>5, <1>7, <2>1 DEF LoadMore
  <2> QED BY <1>3, <2>2
<1>8. CASE CloseChunks
      BY <1>4, <1>8 DEF CloseChunks
<1>9. CASE Cancel
      BY <1>4, <1>9 DEF Cancel
<1>10. CASE RetryJob(d)
  <2>1. Sends(page, {[Request("retry", c) EXCEPT !.doc = d]})
        BY <1>5, <1>10 DEF RetryJob
  <2> QED BY <1>3, <2>1
<1>11. CASE Describe
  <2>1. Sends(page, {Request("describe", c)})
        BY <1>5, <1>11 DEF Describe
  <2> QED BY <1>3, <2>1
<1>12. CASE Search
  <2>1. Sends([page EXCEPT !.searching = TRUE], {Request("search", c)})
        BY <1>5, <1>12 DEF Search
  <2> QED BY <1>3, <2>1
<1>13. CASE RefreshGraph
  <2>1. Sends([page EXCEPT !.graphing = TRUE], {Request("refresh", c)})
        BY <1>5, <1>13 DEF RefreshGraph
  <2> QED BY <1>3, <2>1
<1>14. CASE PollJobs \/ PollGraph
  <2>1. PICK k \in {"jobs", "graph"} : Sends(page, {[Request(k, c) EXCEPT !.quiet = TRUE]})
        BY <1>5, <1>14 DEF PollJobs, PollGraph, Polls
  <2> QED BY <1>3, <2>1
<1>15. CASE CreateBase(b)
  <2>1. Sends(page, {Request("create", b)})
        BY <1>15 DEF CreateBase
  <2> QED BY <1>3, <2>1
<1> QED BY <1>6, <1>7, <1>8, <1>9, <1>10, <1>11, <1>12, <1>13, <1>14, <1>15

(* The lists that are asked for, and those that something waits for.       *)
ListsFor(b, e, d, w) == {[q EXCEPT !.ends = e, !.doc = d, !.was = w] : q \in Reload(b)}
LEMMA NewListsFor ==
  ASSUME NEW b, NEW e, NEW d, NEW w
  PROVE  /\ \A n \in ListsFor(b, e, d, w) :
              n.kind \in {"documents", "jobs"} /\ n.items = {} /\ ~n.done /\ n.ends = e
         /\ \E n \in ListsFor(b, e, d, w) : n.kind = "documents"
         /\ \A n \in Reload(b) :
              n.kind \in {"documents", "jobs"} /\ n.items = {} /\ ~n.done /\ n.ends = "none"
         /\ \E n \in Reload(b) : n.kind = "documents"
<1>1. PICK x : x = Request("documents", b)
      OBVIOUS
<1>2. PICK y : y = Request("jobs", b)
      OBVIOUS
<1>3. /\ x = [kind |-> "documents", base |-> b, doc |-> Unset, here |-> TRUE, last |-> TRUE,
              ends |-> "none", was |-> FALSE, quiet |-> FALSE, done |-> FALSE, items |-> {}]
      /\ y = [kind |-> "jobs", base |-> b, doc |-> Unset, here |-> TRUE, last |-> TRUE,
              ends |-> "none", was |-> FALSE, quiet |-> FALSE, done |-> FALSE, items |-> {}]
      BY <1>1, <1>2 DEF Request
<1>4. Reload(b) = {x, y}
      BY <1>1, <1>2 DEF Reload
<1>5. /\ x.kind = "documents" /\ x.items = {} /\ ~x.done /\ x.ends = "none"
      /\ y.kind = "jobs" /\ y.items = {} /\ ~y.done /\ y.ends = "none"
      BY <1>3
<1>6. PICK u : u = [x EXCEPT !.ends = e, !.doc = d, !.was = w]
      OBVIOUS
<1>7. PICK v : v = [y EXCEPT !.ends = e, !.doc = d, !.was = w]
      OBVIOUS
<1>8. /\ u.kind = "documents" /\ u.items = {} /\ ~u.done /\ u.ends = e
      /\ v.kind = "jobs" /\ v.items = {} /\ ~v.done /\ v.ends = e
      BY <1>3, <1>6, <1>7
<1>9. ListsFor(b, e, d, w) = {u, v}
      BY <1>4, <1>6, <1>7 DEF ListsFor
<1> QED BY <1>4, <1>5, <1>8, <1>9

(* The lists that nothing waits for.                                       *)
LEMMA NewLists ==
  ASSUME NEW b
  PROVE  /\ \A n \in Reload(b) :
              n.kind \in {"documents", "jobs"} /\ n.items = {} /\ ~n.done /\ n.ends = "none"
         /\ \E n \in Reload(b) : n.kind = "documents"
BY NewListsFor

(* The list is read anew on demand.                                        *)
LEMMA RefreshWrites ==
  ASSUME PageInv, WritesInv, PageInv', Refresh
  PROVE  WritesInv'
<1>1. page \in PageRecords /\ requests \in SUBSET RequestRecords
      BY DEF PageInv, PageTypeOK
<1>2. PICK b : b = page.base
      OBVIOUS
<1>3. PICK new : new = Reload(b)
      OBVIOUS
<1>4. /\ page' = LoadingList(page) /\ requests' = InSequence(requests, new) /\ told' = told
      /\ kept' = kept /\ job' = job
      BY <1>2, <1>3 DEF Refresh, Clicks, Acts, Sends
<1>5. /\ page'.base = page.base /\ page'.batch = page.batch /\ page'.documents = page.documents
      /\ page'.asked = page.asked /\ page'.loading /\ page'.uploading = page.uploading
      BY <1>1, <1>4 DEF LoadingList, PageRecords
<1>6. PICK f : /\ Follows(requests', requests, new, f)
               /\ \A r \in requests : f[r].last => \A n \in new : Family(n.kind) # Family(r.kind)
      BY <1>1, <1>4, InSequenceFollows
<1>7. /\ \A n \in new : n.kind \in {"documents", "jobs"} /\ n.items = {} /\ ~n.done /\ n.ends = "none"
      /\ \E n \in new : n.kind = "documents"
      BY <1>3, NewLists
<1>8. OneFlow'
      BY <1>5, <1>6, <1>7, FlowGoesOn DEF WritesInv
<1>9. /\ told'.tried = told.tried /\ told'.up = told.up /\ \A d \in told'.gone : job[d] = "deleted"
      BY <1>4 DEF WritesInv, DeletionsFit
<1> QED BY <1>4, <1>5, <1>6, <1>7, <1>8, <1>9, ReadAnew

(* The first file of a batch.                                              *)
LEMMA UploadWrites ==
  ASSUME PageInv, WritesInv, PageInv', NEW D, UploadFiles(D)
  PROVE  WritesInv'
<1>1. page \in PageRecords /\ requests \in SUBSET RequestRecords
      BY DEF PageInv, PageTypeOK
<1>2. PICK d \in D : Sends([page EXCEPT !.uploading = TRUE, !.batch = D \ {d}], {UploadRequest(d)})
      BY DEF UploadFiles
<1>3. PICK n : n = UploadRequest(d)
      OBVIOUS
<1>4. PICK new : new = {n}
      OBVIOUS
<1>5. /\ page' = [page EXCEPT !.uploading = TRUE, !.batch = D \ {d}] /\ told' = told
      /\ requests' = InSequence(requests, new) /\ kept' = kept /\ job' = job
      /\ ~page.uploading /\ \A e \in D : job[e] = "none"
      BY <1>2, <1>3, <1>4 DEF UploadFiles, Clicks, Acts, Sends
<1>6. /\ page'.base = page.base /\ page'.batch = D \ {d} /\ page'.documents = page.documents
      /\ page'.asked = page.asked /\ page'.uploading
      BY <1>1, <1>5 DEF PageRecords
<1>7. PICK f : Follows(requests', requests, new, f)
      BY <1>1, <1>5, InSequenceFollows
<1>8. n.kind = "upload" /\ n.doc = d /\ n.here /\ ~n.done /\ n.ends = "none"
      BY <1>3 DEF UploadRequest, Request
<1>9. UploadsFit' /\ DeletionsFit' /\ ListsFit'
  <2>1. \A m \in new : /\ ~m.done
                       /\ m.kind = "documents" => m.items = {}
                       /\ m.kind = "upload" => m.doc \in page.batch \/ job[m.doc] = "none"
                       /\ m.kind = "delete document" =>
                            m.here /\ job[m.doc] # "none" /\ m.doc \in told'.tried
        BY <1>4, <1>5, <1>8
  <2>2. \A e \in page'.batch : e \in page.batch \/ job[e] = "none"
        BY <1>5, <1>6
  <2>3. \A e \in page'.documents : job[e] # "none"
        BY <1>6 DEF WritesInv, ListsFit
  <2>4. page'.asked # Unset /\ page'.asked.kind = "delete document" => job[page'.asked.doc] # "none"
        BY <1>6 DEF WritesInv, DeletionsFit
  <2>5. /\ told'.tried = told.tried /\ told'.up = told.up /\ \A e \in told'.gone : job[e] = "deleted"
        BY <1>5 DEF WritesInv, DeletionsFit
  <2> QED BY <1>5, <1>6, <1>7, <2>1, <2>2, <2>3, <2>4, <2>5, Moved
<1>10. OneFlow'
  <2>1. Busy \cap requests = {}
        BY <1>5 DEF WritesInv, OneFlow
  <2>2. /\ \A x, y \in new : x = y \/ (x.ends = "version" /\ y.ends = "version")
        /\ \A x \in new : x.ends = "version" => x.kind \in {"documents", "jobs"}
        BY <1>4, <1>8
  <2> QED BY <1>6, <1>7, <2>1, <2>2, FlowBegins DEF WritesInv
<1>11. FreshLists'
  <2>1. n \in Uploads'
        BY <1>4, <1>7, <1>8 DEF Follows, Uploads
  <2> QED BY <2>1 DEF FreshLists
<1> QED BY <1>9, <1>10, <1>11 DEF WritesInv

(* A new version of a document.                                            *)
LEMMA UpdateWrites ==
  ASSUME PageInv, WritesInv, PageInv', NEW d, UpdateDocument(d)
  PROVE  WritesInv'
<1>1. page \in PageRecords /\ requests \in SUBSET RequestRecords
      BY DEF PageInv, PageTypeOK
<1>2. PICK n : n = [Request("version", page.base) EXCEPT !.doc = d, !.was = page.inspected = d]
      OBVIOUS
<1>3. PICK new : new = {n}
      OBVIOUS
<1>4. /\ page' = [page EXCEPT !.uploading = TRUE] /\ told' = told /\ ~page.uploading
      /\ requests' = InSequence(requests, new) /\ kept' = kept /\ job' = job
      BY <1>2, <1>3 DEF UpdateDocument, Clicks, Acts, Sends
<1>5. /\ page'.base = page.base /\ page'.batch = page.batch /\ page'.documents = page.documents
      /\ page'.asked = page.asked /\ page'.uploading
      /\ page'.loading = page.loading /\ page'.failed = page.failed
      BY <1>1, <1>4 DEF PageRecords
<1>6. PICK f : Follows(requests', requests, new, f)
      BY <1>1, <1>4, InSequenceFollows
<1>7. n.kind = "version" /\ ~n.done /\ n.ends = "none"
  <2>1. PICK r : r = Request("version", page.base)
        OBVIOUS
  <2>2. r = [kind |-> "version", base |-> page.base, doc |-> Unset, here |-> TRUE, last |-> TRUE,
             ends |-> "none", was |-> FALSE, quiet |-> FALSE, done |-> FALSE, items |-> {}]
        BY <2>1 DEF Request
  <2> QED BY <1>2, <2>1, <2>2
<1>8. UploadsFit' /\ DeletionsFit' /\ ListsFit'
  <2>1. \A m \in new : ~m.done /\ m.kind \notin {"documents", "delete document", "upload"}
        BY <1>3, <1>7
  <2>2. \A e \in page'.documents : job[e] # "none"
        BY <1>5 DEF WritesInv, ListsFit
  <2>3. page'.asked # Unset /\ page'.asked.kind = "delete document" => job[page'.asked.doc] # "none"
        BY <1>5 DEF WritesInv, DeletionsFit
  <2>4. /\ told'.tried = told.tried /\ told'.up = told.up /\ \A e \in told'.gone : job[e] = "deleted"
        BY <1>4 DEF WritesInv, DeletionsFit
  <2> QED BY <1>4, <1>5, <1>6, <2>1, <2>2, <2>3, <2>4, Moved
<1>9. OneFlow'
  <2>1. Busy \cap requests = {}
        BY <1>4 DEF WritesInv, OneFlow
  <2>2. /\ \A x, y \in new : x = y \/ (x.ends = "version" /\ y.ends = "version")
        /\ \A x \in new : x.ends = "version" => x.kind \in {"documents", "jobs"}
        BY <1>3, <1>7
  <2> QED BY <1>5, <1>6, <2>1, <2>2, FlowBegins DEF WritesInv
<1>10. FreshLists'
  <2>1. Uploads = {} /\ ~page'.loading /\ ~page'.failed => ShowsWrites(page'.documents)
        BY <1>5 DEF WritesInv, FreshLists
  <2>2. (\A m \in new : ~m.done) /\ Uploads \subseteq requests
        BY <1>3, <1>7 DEF Uploads
  <2> QED BY <1>4, <1>6, <2>1, <2>2, FreshGoesOn DEF WritesInv
<1> QED BY <1>8, <1>9, <1>10 DEF WritesInv

(* A deletion is asked for, and confirmed.                                 *)
LEMMA DeletionWrites ==
  ASSUME PageInv, WritesInv, PageInv',
         \/ Confirm
         \/ \E what \in [kind : {"delete document", "delete chunk", "delete base"},
                         doc : DocumentOrNone] : AskDelete(what)
  PROVE  WritesInv'
<1>1. /\ page \in PageRecords /\ requests \in SUBSET RequestRecords /\ Remembers(page)
      /\ told \in [up : SUBSET Documents, gone : SUBSET Documents, tried : SUBSET Documents]
      BY DEF PageInv, PageTypeOK, Good
<1>2. kept' = kept /\ job' = job
      BY DEF AskDelete, Confirm, Clicks, Acts
<1>3. \E new : /\ requests' = InSequence(requests, new)
               /\ \A n \in new :
                    /\ n.kind \in {"delete document", "delete chunk", "delete base"}
                    /\ n.ends = "none" /\ ~n.done /\ n.here
                    /\ n.kind = "delete document" => job[n.doc] # "none" /\ n.doc \in told'.tried
  <2>1. CASE Confirm
    <3>1. page.asked \in Questions /\ page.asked # Unset
          BY <1>1, <2>1 DEF Confirm, PageRecords
    <3>2. PICK r : r = Request(page.asked.kind, page.base)
          OBVIOUS
    <3>3. r = [kind |-> page.asked.kind, base |-> page.base, doc |-> Unset, here |-> TRUE,
               last |-> TRUE, ends |-> "none", was |-> FALSE, quiet |-> FALSE, done |-> FALSE,
               items |-> {}]
          BY <3>2 DEF Request
    <3>4. PICK n : n = [r EXCEPT !.doc = page.asked.doc, !.items = page.list,
                          !.was = page.asked.doc # Unset /\ page.inspected = page.asked.doc]
          OBVIOUS
    <3>5. PICK new : new = {n}
          OBVIOUS
    <3>6. requests' = InSequence(requests, new)
          BY <2>1, <3>2, <3>4, <3>5 DEF Confirm
    <3>7. n.kind = page.asked.kind /\ n.doc = page.asked.doc /\ n.ends = "none" /\ ~n.done /\ n.here
          BY <3>3, <3>4
    <3>8. n.kind = "delete document" => job[n.doc] # "none" /\ n.doc \in told'.tried
      <4>1. told' = [told EXCEPT !.tried =
                       @ \cup {d \in Documents : page.asked.doc \in {d, Unset}}]
            BY <2>1 DEF Confirm
      <4>2. told'.tried = told.tried \cup {d \in Documents : page.asked.doc \in {d, Unset}}
            BY <1>1, <4>1
      <4> QED BY <1>1, <3>1, <3>7, <4>2 DEF Remembers, WritesInv, DeletionsFit
    <3>9. n.kind \in {"delete document", "delete chunk", "delete base"}
          BY <3>1, <3>7 DEF Questions
    <3>10. \A m \in new :
             /\ m.kind \in {"delete document", "delete chunk", "delete base"}
             /\ m.ends = "none" /\ ~m.done /\ m.here
             /\ m.kind = "delete document" => job[m.doc] # "none" /\ m.doc \in told'.tried
          BY <3>5, <3>7, <3>8, <3>9
    <3> QED BY <3>6, <3>10
  <2>2. CASE \E what \in [kind : {"delete document", "delete chunk", "delete base"},
                          doc : DocumentOrNone] : AskDelete(what)
    <3>1. requests' = InSequence(requests, {})
          BY <2>2 DEF AskDelete, Sends
    <3>2. PICK new : new = {}
          OBVIOUS
    <3>3. requests' = InSequence(requests, new) /\ \A n \in new : FALSE
          BY <3>1, <3>2
    <3> QED BY <3>3
  <2> QED BY <2>1, <2>2
<1>4. /\ told.tried \subseteq told'.tried /\ told'.up = told.up /\ told'.gone = told.gone
      BY <1>1 DEF AskDelete, Confirm, Sends
<1>5. /\ page'.base = page.base /\ page'.batch = page.batch /\ page'.documents = page.documents
      /\ page'.uploading = page.uploading /\ page'.loading = page.loading
      /\ page'.failed = page.failed
      BY <1>1 DEF AskDelete, Confirm, Sends, PageRecords
<1>6. page'.asked # Unset /\ page'.asked.kind = "delete document" => job[page'.asked.doc] # "none"
  <2>1. CASE Confirm
    <3>1. page'.asked = page.asked
          BY <1>1, <2>1 DEF Confirm, PageRecords
    <3> QED BY <3>1 DEF WritesInv, DeletionsFit
  <2>2. ASSUME NEW what \in [kind : {"delete document", "delete chunk", "delete base"},
                             doc : DocumentOrNone], AskDelete(what)
        PROVE  page'.asked # Unset /\ page'.asked.kind = "delete document"
                 => job[page'.asked.doc] # "none"
    <3>1. page'.asked = what
          BY <1>1, <2>2 DEF AskDelete, Sends, PageRecords
    <3>2. what.kind = "delete document" => what.doc \in page.documents
          BY <2>2, AskedOfDocuments
    <3> QED BY <3>1, <3>2 DEF WritesInv, ListsFit
  <2> QED BY <2>1, <2>2
<1>7. PICK new : /\ requests' = InSequence(requests, new)
                 /\ \A n \in new :
                      /\ n.kind \in {"delete document", "delete chunk", "delete base"}
                      /\ n.ends = "none" /\ ~n.done /\ n.here
                      /\ n.kind = "delete document" => job[n.doc] # "none" /\ n.doc \in told'.tried
      BY <1>3
<1>71. PICK f : Follows(requests', requests, new, f)
      BY <1>1, <1>7, InSequenceFollows
<1>8. UploadsFit' /\ DeletionsFit' /\ ListsFit'
  <2>1. \A d \in page'.documents : job[d] # "none"
        BY <1>5 DEF WritesInv, ListsFit
  <2>2. \A d \in told'.gone : job[d] = "deleted"
        BY <1>4 DEF WritesInv, DeletionsFit
  <2>3. \A n \in new : /\ ~n.done /\ n.kind \notin {"documents", "upload"}
                       /\ n.kind = "delete document" =>
                            n.here /\ job[n.doc] # "none" /\ n.doc \in told'.tried
        BY <1>7
  <2> QED BY <1>2, <1>4, <1>5, <1>6, <1>71, <2>1, <2>2, <2>3, Moved
<1>9. OneFlow'
  <2>1. \A n \in new : n.kind \notin {"upload", "version"} /\ n.ends # "version"
        BY <1>7
  <2> QED BY <1>5, <1>71, <2>1, FlowGoesOn DEF WritesInv
<1>10. FreshLists'
  <2>1. Uploads = {} /\ ~page'.loading /\ ~page'.failed => ShowsWrites(page'.documents)
        BY <1>5 DEF WritesInv, FreshLists
  <2>2. (\A n \in new : ~n.done) /\ Uploads \subseteq requests
        BY <1>7 DEF Uploads
  <2> QED BY <1>4, <1>71, <2>1, <2>2, FreshGoesOn DEF WritesInv
<1> QED BY <1>8, <1>9, <1>10 DEF WritesInv

(* A configuration to save: a request beside the others.                   *)
LEMMA SaveWrites ==
  ASSUME PageInv, WritesInv, PageInv', SaveGraph
  PROVE  WritesInv'
<1>1. PICK n : n = Request("save", page.base)
      OBVIOUS
<1>2. page' = page /\ requests' = requests \cup {n} /\ told' = told /\ kept' = kept /\ job' = job
      BY <1>1 DEF SaveGraph, Clicks, Acts
<1>3. PICK f : Follows(requests, requests, {}, f)
      BY OthersFollow
<1>4. PICK new : new = {n}
      OBVIOUS
<1>5. Follows(requests', requests, new, f)
      BY <1>2, <1>3, <1>4 DEF Follows
<1>6. \A m \in new : Harmless(m) /\ m.items = {}
  <2>1. n = [kind |-> "save", base |-> page.base, doc |-> Unset, here |-> TRUE, last |-> TRUE,
             ends |-> "none", was |-> FALSE, quiet |-> FALSE, done |-> FALSE, items |-> {}]
        BY <1>1 DEF Request
  <2>2. n.kind = "save" /\ n.ends = "none" /\ ~n.done /\ n.items = {}
        BY <2>1
  <2>3. Harmless(n)
        BY <2>2 DEF Harmless
  <2> QED BY <1>4, <2>2, <2>3
<1>7. Calm(page') /\ (page.uploading => page'.uploading) /\ Uploads \subseteq requests
      BY <1>2 DEF Calm, Uploads
<1> QED BY <1>2, <1>5, <1>6, <1>7, CalmIsSettled, Quiet

-----------------------------------------------------------------------------
(* What waits for an answer changes little of the page.                    *)
LEMMA JoinedKeeps ==
  ASSUME NEW p \in PageRecords, NEW r, NEW q, q = Joined(p, r)
  PROVE  /\ q.base = p.base /\ q.batch = p.batch /\ q.documents = p.documents
         /\ q.loading = p.loading /\ q.failed = p.failed /\ q.asked \in {p.asked, Unset}
         /\ \/ q.uploading = p.uploading
            \/ /\ r.ends = "version" /\ r.here
               /\ ~\E o \in Others(r) : o.ends = "version" /\ o.here = r.here
<1>1. PICK c : c = IF r.was THEN Closed(p) ELSE p
      OBVIOUS
<1>2. c = p \/ c = [p EXCEPT !.inspected = Unset, !.chunks = Unset]
      BY <1>1 DEF Closed
<1>3. /\ c.base = p.base /\ c.batch = p.batch /\ c.documents = p.documents
      /\ c.loading = p.loading /\ c.failed = p.failed /\ c.asked = p.asked
      /\ c.uploading = p.uploading
      BY <1>2 DEF PageRecords
<1>4. CASE q = p
      BY <1>4
<1>5. CASE /\ q = [p EXCEPT !.uploading = FALSE]
           /\ r.ends = "version" /\ r.here
           /\ ~\E o \in Others(r) : o.ends = "version" /\ o.here = r.here
      BY <1>5 DEF PageRecords
<1>6. CASE q = c
      BY <1>3, <1>6
<1>7. CASE q = [c EXCEPT !.asked = Unset, !.confirming = FALSE]
  <2>1. c \in PageRecords
        BY <1>2 DEF PageRecords, DocumentOrNone
  <2>2. /\ q.base = c.base /\ q.batch = c.batch /\ q.documents = c.documents
        /\ q.loading = c.loading /\ q.failed = c.failed /\ q.asked = Unset
        /\ q.uploading = c.uploading
        BY <1>7, <2>1 DEF PageRecords
  <2> QED BY <1>3, <2>2
<1>8. \/ q \in {p, c, [c EXCEPT !.asked = Unset, !.confirming = FALSE]}
      \/ /\ q = [p EXCEPT !.uploading = FALSE]
         /\ r.ends = "version" /\ r.here
         /\ ~\E o \in Others(r) : o.ends = "version" /\ o.here = r.here
      BY <1>1 DEF Joined, Confirmed, VersionCurrent
<1> QED BY <1>4, <1>5, <1>6, <1>7, <1>8

(* Of one flow, nothing else is busy when its end is reached.              *)
LEMMA AloneBusy ==
  ASSUME requests \subseteq RequestRecords, OneFlow, NEW r \in requests, r.here,
         \/ r.kind \in {"upload", "version"}
         \/ /\ r.ends = "version"
            /\ ~\E o \in Others(r) : o.ends = "version" /\ o.here = r.here
  PROVE  page.uploading /\ Busy \cap Others(r) = {}
<1>1. r \in Busy
      BY DEF Busy
<1>2. r.kind \in {"upload", "version"} => r.ends # "version"
      BY DEF OneFlow
<1>3. ASSUME NEW q \in Busy, q \in Others(r)
      PROVE  FALSE
  <2>1. q # r /\ q \in requests /\ q.here
        BY <1>3 DEF Others, Busy
  <2>2. q.ends = "version" /\ r.ends = "version"
        BY <1>1, <1>3, <2>1 DEF OneFlow
  <2>3. q.here = r.here
        BY <2>1 DEF RequestRecords
  <2> QED BY <1>2, <1>3, <2>2, <2>3
<1> QED BY <1>1, <1>3 DEF OneFlow

(* An answer that writes nothing, and what it sends.                       *)
LEMMA AnsweredQuietly ==
  ASSUME PageInv, WritesInv, PageInv', kept' = kept, job' = job, told' = told,
         NEW r \in requests, ~(r.kind = "upload" /\ r.here),
         NEW p \in PageRecords, Settled(p),
         p.uploading = page.uploading \/ (r.kind = "version" /\ r.here),
         NEW new, NEW f, Follows(requests', Others(r), new, f),
         \A n \in new : Harmless(n) /\ (n.kind = "documents" => n.items = {}),
         page' = Joined(p, r)
  PROVE  WritesInv'
<1>1. requests \subseteq RequestRecords
      BY DEF PageInv, PageTypeOK
<1>2. Settled(page')
      BY JoinedKeeps DEF Settled
<1>3. (page.uploading => page'.uploading) \/ Busy \cap Others(r) = {}
  <2>1. CASE r.kind = "version" /\ r.here
        BY <1>1, <2>1, AloneBusy DEF WritesInv
  <2>2. CASE p.uploading = page.uploading
    <3>1. CASE page'.uploading = p.uploading
          BY <2>2, <3>1
    <3>2. CASE /\ r.ends = "version" /\ r.here
               /\ ~\E o \in Others(r) : o.ends = "version" /\ o.here = r.here
          BY <1>1, <3>2, AloneBusy DEF WritesInv
    <3> QED BY <3>1, <3>2, JoinedKeeps
  <2> QED BY <2>1, <2>2
<1>4. Uploads \subseteq Others(r) /\ Others(r) \in SUBSET requests
      BY DEF Uploads, Others
<1> QED BY <1>2, <1>3, <1>4, Quiet

(* The same for the answers that make requests in sequence.                *)
LEMMA GivesQuietly ==
  ASSUME PageInv, WritesInv, PageInv', kept' = kept, job' = job,
         NEW r \in requests, ~(r.kind = "upload" /\ r.here),
         NEW p \in PageRecords, Settled(p), p.uploading = page.uploading,
         NEW new, \A n \in new : Harmless(n) /\ (n.kind = "documents" => n.items = {}),
         Gives(r, p, new)
  PROVE  WritesInv'
<1>1. Others(r) \in SUBSET RequestRecords
      BY DEF PageInv, PageTypeOK, Others
<1>2. page' = Joined(p, r) /\ requests' = InSequence(Others(r), new) /\ told' = told
      BY DEF Gives
<1>3. PICK f : Follows(requests', Others(r), new, f)
      BY <1>1, <1>2, InSequenceFollows
<1> QED BY <1>2, <1>3, AnsweredQuietly

(* The answers that are dropped, or only shown.                            *)
LEMMA ShownQuietly ==
  ASSUME PageInv, WritesInv, PageInv', kept' = kept, job' = job,
         NEW r \in requests, ~(r.kind = "upload" /\ r.here),
         NEW p \in PageRecords, Settled(p), p.uploading = page.uploading,
         Gives(r, p, {})
  PROVE  WritesInv'
<1>1. PICK new : new = {}
      OBVIOUS
<1>2. Gives(r, p, new) /\ \A n \in new : Harmless(n) /\ (n.kind = "documents" => n.items = {})
      BY <1>1
<1> QED BY <1>2, GivesQuietly

(* The page as it is.                                                      *)
LEMMA PageIsSettled ==
  ASSUME PageInv, WritesInv
  PROVE  page \in PageRecords /\ Settled(page)
<1>1. Calm(page)
      BY DEF Calm
<1> QED BY <1>1, CalmIsSettled DEF PageInv, PageTypeOK

(* Lists, chunks, results and graphs that arrive.                          *)
LEMMA ListsAreFresh ==
  ASSUME PageInv, WritesInv, PageInv', NEW r \in requests,
         \/ DocumentsArrive(r) \/ JobsArrive(r) \/ ChunksArrive(r) \/ SearchArrives(r)
         \/ GraphArrives(r)
  PROVE  WritesInv'
<1>1. /\ page \in PageRecords /\ Settled(page) /\ r \in RequestRecords
      /\ Fits(r, page.base) /\ kept \in [KnowledgeBases -> {"unborn", "kept", "deleted"}]
      /\ job \in [Documents -> JobStates]
      BY PageIsSettled DEF PageInv, PageTypeOK, Good
<1>2. kept' = kept /\ job' = job /\ r.kind # "upload"
      BY DEF DocumentsArrive, JobsArrive, ChunksArrive, SearchArrives, GraphArrives, Answers
<1>3. SUFFICES \E p \in PageRecords : Settled(p) /\ p.uploading = page.uploading /\ Gives(r, p, {})
      BY <1>2, ShownQuietly
<1>4. CASE Gives(r, page, {})
      BY <1>1, <1>4
<1>5. ASSUME NEW p \in PageRecords, Gives(r, p, {}), Calm(p), p.uploading = page.uploading
      PROVE  \E q \in PageRecords : Settled(q) /\ q.uploading = page.uploading /\ Gives(r, q, {})
      BY <1>5, CalmIsSettled
<1>6. CASE DocumentsArrive(r)
  <2>1. CASE ~Current(r)
        BY <1>4, <1>6, <2>1 DEF DocumentsArrive
  <2>2. CASE Current(r)
    <3>1. PICK i \in DocumentOrNone : i = IF page.inspected \in r.items THEN page.inspected ELSE Unset
          BY <1>1 DEF PageRecords, DocumentOrNone
    <3>2. PICK p : p = [page EXCEPT !.documents = r.items, !.loading = FALSE, !.inspected = i]
          OBVIOUS
    <3>3. Gives(r, p, {}) /\ r.kind = "documents" /\ r.done
          BY <1>1, <1>6, <2>2, <3>1, <3>2 DEF DocumentsArrive, PageRecords, Answers, Handled
    <3>4. r.items \subseteq Documents
          BY <1>1, <3>3 DEF Fits, Of
    <3>5. p \in PageRecords /\ p.uploading = page.uploading /\ p.base = page.base
          /\ p.batch = page.batch /\ p.asked = page.asked /\ p.documents = r.items
          BY <1>1, <3>1, <3>2, <3>4 DEF PageRecords
    <3>6. \A d \in r.items : job[d] # "none"
          BY <3>3 DEF WritesInv, ListsFit
    <3>7. Uploads = {} => ShowsWrites(r.items)
          BY <2>2, <3>3 DEF WritesInv, FreshLists, Current
    <3>8. Settled(p)
          BY <3>5, <3>6, <3>7 DEF Settled
    <3> QED BY <3>3, <3>5, <3>8
  <2> QED BY <2>1, <2>2
<1>7. CASE JobsArrive(r)
  <2>1. PICK j \in [Documents -> JobStates] :
          j = [d \in Documents |-> IF d \in StoredIn(r.base) THEN job[d] ELSE "none"]
        BY <1>1 DEF JobStates
  <2>2. PICK p : p = [page EXCEPT !.jobs = j]
        OBVIOUS
  <2>3. Gives(r, p, {}) \/ Gives(r, page, {})
        BY <1>7, <2>1, <2>2 DEF JobsArrive
  <2>4. p \in PageRecords /\ Calm(p) /\ p.uploading = page.uploading
        BY <1>1, <2>2 DEF PageRecords, Calm
  <2> QED BY <1>4, <1>5, <2>3, <2>4
<1>8. CASE ChunksArrive(r)
  <2>1. PICK c \in DocumentOrNone : c = IF r.kind = "chunks" THEN r.doc ELSE page.chunks
        BY <1>1 DEF PageRecords, RequestRecords
  <2>2. PICK p : p = [page EXCEPT !.reading = FALSE, !.chunks = c]
        OBVIOUS
  <2>3. Gives(r, p, {}) \/ Gives(r, page, {})
        BY <1>1, <1>8, <2>1, <2>2 DEF ChunksArrive, PageRecords
  <2>4. p \in PageRecords /\ Calm(p) /\ p.uploading = page.uploading
        BY <1>1, <2>2 DEF PageRecords, Calm
  <2> QED BY <1>4, <1>5, <2>3, <2>4
<1>9. CASE SearchArrives(r)
  <2>1. PICK p : p = [page EXCEPT !.searching = FALSE, !.result = r.base]
        OBVIOUS
  <2>2. Gives(r, p, {}) \/ Gives(r, page, {})
        BY <1>9, <2>1 DEF SearchArrives
  <2>3. p \in PageRecords /\ Calm(p) /\ p.uploading = page.uploading
        BY <1>1, <2>1 DEF PageRecords, RequestRecords, Calm
  <2> QED BY <1>4, <1>5, <2>2, <2>3
<1>10. CASE GraphArrives(r)
  <2>1. PICK g \in BOOLEAN : g = (page.graphing /\ r.quiet)
        OBVIOUS
  <2>2. PICK p : p = [page EXCEPT !.graph = r.base, !.graphing = g]
        OBVIOUS
  <2>3. Gives(r, p, {}) \/ Gives(r, page, {})
        BY <1>1, <1>10, <2>1, <2>2 DEF GraphArrives, PageRecords
  <2>4. p \in PageRecords /\ Calm(p) /\ p.uploading = page.uploading
        BY <1>1, <2>2 DEF PageRecords, RequestRecords, Calm
  <2> QED BY <1>4, <1>5, <2>3, <2>4
<1> QED BY <1>6, <1>7, <1>8, <1>9, <1>10

(* The graph's configuration is saved.                                     *)
LEMMA SavedQuietly ==
  ASSUME PageInv, WritesInv, PageInv', NEW r \in requests, GraphSaved(r)
  PROVE  WritesInv'
<1>1. /\ page \in PageRecords /\ Others(r) \in SUBSET RequestRecords /\ Others(r) \subseteq requests
      BY DEF PageInv, PageTypeOK, Others
<1>2. kept' = kept /\ job' = job /\ told' = told /\ r.kind = "save"
      BY DEF GraphSaved, Answers
<1>3. Settled(page') /\ page'.uploading = page.uploading
  <2>1. PICK p : p = [page EXCEPT !.graph = r.base, !.graphing = FALSE]
        OBVIOUS
  <2>2. Calm(p) /\ p.uploading = page.uploading
        BY <1>1, <2>1 DEF PageRecords, Calm
  <2>3. page' \in {p, page}
        BY <2>1 DEF GraphSaved
  <2> QED BY <2>2, <2>3, CalmIsSettled, PageIsSettled
<1>4. \E old \in SUBSET requests : \E f : Follows(requests', old, {}, f) /\ Uploads \subseteq old
  <2>1. CASE requests' = Others(r)
    <3>1. Uploads \subseteq Others(r)
          BY <1>2 DEF Uploads, Others
    <3> QED BY <1>1, <2>1, <3>1, OthersFollow
  <2>2. CASE requests' = InSequence(Others(r), {r}) \ {r}
    <3>1. PICK f : Follows(InSequence(Others(r), {r}), Others(r), {r}, f)
          BY <1>1, InSequenceFollows
    <3>2. PICK old : old = {q \in Others(r) : f[q] # r}
          OBVIOUS
    <3>3. requests' = {f[q] : q \in old}
          BY <2>2, <3>1, <3>2 DEF Follows
    <3>4. Follows(requests', old, {}, f)
          BY <3>1, <3>2, <3>3 DEF Follows
    <3>5. ASSUME NEW q \in Uploads
          PROVE  q \in old
      <4>1. q.kind = "upload" /\ q \in Others(r)
            BY <1>2 DEF Uploads, Others
      <4>2. f[q].kind = "upload"
            BY <3>1, <4>1 DEF Follows, Same
      <4> QED BY <1>2, <3>2, <4>1, <4>2
    <3> QED BY <1>1, <3>2, <3>4, <3>5
  <2> QED BY <2>1, <2>2 DEF GraphSaved
<1>5. PICK old \in SUBSET requests : \E f : Follows(requests', old, {}, f) /\ Uploads \subseteq old
      BY <1>4
<1>6. PICK new : new = {}
      OBVIOUS
<1>7. PICK f : Follows(requests', old, new, f) /\ Uploads \subseteq old
      BY <1>5, <1>6
<1>8. \A n \in new : Harmless(n) /\ (n.kind = "documents" => n.items = {})
      BY <1>6
<1> QED BY <1>2, <1>3, <1>7, <1>8, Quiet

(* The next file of a batch, or the lists after the last.                  *)
LEMMA BatchWrites ==
  ASSUME PageInv, WritesInv, PageInv', kept' = kept, job' = job,
         NEW r \in requests, r.kind = "upload", BatchGoesOn(r),
         told'.tried = told.tried, told'.gone = told.gone,
         \A d \in told'.up : d \in told.up \/ (r.here /\ r.done /\ d = r.doc),
         ~r.here => told' = told
  PROVE  WritesInv'
<1>1. /\ page \in PageRecords /\ requests \subseteq RequestRecords
      /\ Others(r) \in SUBSET RequestRecords /\ Others(r) \in SUBSET requests
      BY DEF PageInv, PageTypeOK, Others
<1>2. CASE ~r.here
  <2>1. page' = page /\ requests' = Others(r) /\ told' = told
        BY <1>2 DEF BatchGoesOn
  <2>2. PICK new : new = {}
        OBVIOUS
  <2>3. PICK f : Follows(requests', Others(r), new, f)
        BY <2>1, <2>2, OthersFollow
  <2>4. Uploads \subseteq Others(r) /\ \A n \in new : Harmless(n) /\ (n.kind = "documents" => n.items = {})
        BY <1>2, <2>2 DEF Uploads, Others
  <2> QED BY <1>1, <2>1, <2>3, <2>4, PageIsSettled, Quiet
<1>3. CASE r.here
  <2>1. page.uploading /\ Busy \cap Others(r) = {}
        BY <1>1, <1>3, AloneBusy DEF WritesInv
  <2>2. \A d \in told'.up : d \in told.up \/ \E u \in Uploads : u.done /\ d = u.doc
        BY <1>3 DEF Uploads
  <2>3. \A d \in told'.gone : job[d] = "deleted"
        BY DEF WritesInv, DeletionsFit
  <2>4. CASE page.batch = {}
    <3>1. PICK b : b = r.base
          OBVIOUS
    <3>2. PICK new : new = Reload(b)
          OBVIOUS
    <3>3. page' = [LoadingList(page) EXCEPT !.uploading = FALSE] /\ requests' = InSequence(Others(r), new)
          BY <1>3, <2>4, <3>1, <3>2 DEF BatchGoesOn
    <3>4. /\ page'.base = page.base /\ page'.batch = page.batch /\ page'.documents = page.documents
          /\ page'.asked = page.asked /\ page'.loading
      <4>1. PICK p : p = [page EXCEPT !.loading = TRUE, !.failed = FALSE]
            OBVIOUS
      <4>2. p \in PageRecords /\ p.base = page.base /\ p.batch = page.batch
            /\ p.documents = page.documents /\ p.asked = page.asked /\ p.loading
            BY <1>1, <4>1 DEF PageRecords
      <4>3. page' = [p EXCEPT !.uploading = FALSE]
            BY <3>3, <4>1 DEF LoadingList
      <4> QED BY <4>2, <4>3 DEF PageRecords
    <3>5. PICK f : /\ Follows(requests', Others(r), new, f)
                   /\ \A q \in Others(r) : f[q].last => \A n \in new : Family(n.kind) # Family(q.kind)
          BY <1>1, <3>3, InSequenceFollows
    <3>6. /\ \A n \in new : n.kind \in {"documents", "jobs"} /\ n.items = {} /\ ~n.done /\ n.ends = "none"
          /\ \E n \in new : n.kind = "documents"
          BY <3>2, NewLists
    <3>7. OneFlow'
          BY <1>1, <2>1, <3>5, <3>6, FlowGoesOn DEF WritesInv
    <3> QED BY <1>1, <2>2, <2>3, <3>4, <3>5, <3>6, <3>7, ReadAnew
  <2>5. CASE page.batch # {}
    <3>1. PICK d \in page.batch : page' = [page EXCEPT !.batch = page.batch \ {d}]
                                  /\ requests' = Others(r) \cup {UploadRequest(d)}
          BY <1>1, <1>3, <2>5 DEF BatchGoesOn, PageRecords
    <3>2. PICK n : n = UploadRequest(d)
          OBVIOUS
    <3>3. PICK new : new = {n}
          OBVIOUS
    <3>4. PICK f : Follows(requests', Others(r), new, f)
      <4>1. PICK f : Follows(Others(r), Others(r), {}, f)
            BY OthersFollow
      <4>2. Follows(requests', Others(r), new, f)
            BY <3>1, <3>2, <3>3, <4>1 DEF Follows
      <4> QED BY <4>2
    <3>5. /\ page'.base = page.base /\ page'.batch = page.batch \ {d} /\ page'.documents = page.documents
          /\ page'.asked = page.asked /\ page'.uploading = page.uploading
          BY <1>1, <3>1 DEF PageRecords
    <3>6. n.kind = "upload" /\ n.doc = d /\ n.here /\ ~n.done /\ n.ends = "none"
          BY <3>2 DEF UploadRequest, Request
    <3>7. UploadsFit' /\ DeletionsFit' /\ ListsFit'
      <4>1. \A m \in new : /\ ~m.done
                           /\ m.kind = "documents" => m.items = {}
                           /\ m.kind = "upload" => m.doc \in page.batch \/ job[m.doc] = "none"
                           /\ m.kind = "delete document" =>
                                m.here /\ job[m.doc] # "none" /\ m.doc \in told'.tried
            BY <3>3, <3>6
      <4>2. \A e \in page'.batch : e \in page.batch \/ job[e] = "none"
            BY <3>5
      <4>3. \A e \in page'.documents : job[e] # "none"
            BY <3>5 DEF WritesInv, ListsFit
      <4>4. page'.asked # Unset /\ page'.asked.kind = "delete document" => job[page'.asked.doc] # "none"
            BY <3>5 DEF WritesInv, DeletionsFit
      <4> QED BY <1>1, <2>2, <2>3, <3>4, <3>5, <4>1, <4>2, <4>3, <4>4, Moved
    <3>8. OneFlow'
      <4>1. /\ \A x, y \in new : x = y \/ (x.ends = "version" /\ y.ends = "version")
            /\ \A x \in new : x.ends = "version" => x.kind \in {"documents", "jobs"}
            BY <3>3, <3>6
      <4> QED BY <1>1, <2>1, <3>4, <3>5, <4>1, FlowBegins DEF WritesInv
    <3>9. FreshLists'
      <4>1. n \in Uploads'
            BY <3>3, <3>4, <3>6 DEF Follows, Uploads
      <4> QED BY <4>1 DEF FreshLists
    <3> QED BY <3>7, <3>8, <3>9 DEF WritesInv
  <2> QED BY <2>4, <2>5
<1> QED BY <1>1, <1>2, <1>3 DEF RequestRecords

(* An upload that was stored.                                              *)
LEMMA UploadedWrites ==
  ASSUME PageInv, WritesInv, PageInv', NEW r \in requests, Uploaded(r)
  PROVE  WritesInv'
<1>1. /\ told \in [up : SUBSET Documents, gone : SUBSET Documents, tried : SUBSET Documents]
      /\ r \in RequestRecords
      BY DEF PageInv, PageTypeOK
<1>2. /\ kept' = kept /\ job' = job /\ r.kind = "upload" /\ r.done /\ BatchGoesOn(r)
      /\ told' = IF r.here THEN [told EXCEPT !.up = told.up \cup {r.doc}] ELSE told
      BY <1>1 DEF Uploaded, Answers, Handled
<1>3. /\ told'.tried = told.tried /\ told'.gone = told.gone
      /\ \A d \in told'.up : d \in told.up \/ (r.here /\ r.done /\ d = r.doc)
      /\ ~r.here => told' = told
  <2>1. CASE r.here
        BY <1>1, <1>2, <2>1
  <2>2. CASE ~r.here
        BY <1>2, <2>2
  <2> QED BY <2>1, <2>2
<1> QED BY <1>2, <1>3, BatchWrites

(* A new version that was accepted: the lists, then the end.               *)
LEMMA VersionWrites ==
  ASSUME PageInv, WritesInv, PageInv', NEW r \in requests, VersionAccepted(r)
  PROVE  WritesInv'
<1>1. /\ page \in PageRecords /\ requests \subseteq RequestRecords
      /\ Others(r) \in SUBSET RequestRecords /\ Others(r) \in SUBSET requests
      BY DEF PageInv, PageTypeOK, Others
<1>2. kept' = kept /\ job' = job /\ r.kind = "version"
      BY DEF VersionAccepted, Answers
<1>3. CASE ~VersionCurrent(page, r)
  <2>1. Gives(r, page, {})
        BY <1>3 DEF VersionAccepted
  <2> QED BY <1>2, <2>1, PageIsSettled, ShownQuietly
<1>4. CASE VersionCurrent(page, r)
  <2>1. PICK b : b = r.base
        OBVIOUS
  <2>2. PICK e : e = "version"
        OBVIOUS
  <2>3. PICK new : new = ListsFor(b, e, r.doc, r.was)
        OBVIOUS
  <2>4. PICK c : c = IF r.was THEN Closed(page) ELSE page
        OBVIOUS
  <2>5. PICK p : p = LoadingList(c)
        OBVIOUS
  <2>6. page' = Joined(p, r) /\ requests' = InSequence(Others(r), new) /\ told' = told
    <3>1. Gives(r, p, ReloadFor(r, "version"))
          BY <1>4, <2>4, <2>5 DEF VersionAccepted
    <3>2. new = ReloadFor(r, "version")
          BY <2>1, <2>2, <2>3 DEF ListsFor, ReloadFor
    <3> QED BY <3>1, <3>2 DEF Gives
  <2>7. /\ c \in PageRecords /\ c.base = page.base /\ c.batch = page.batch
        /\ c.documents = page.documents /\ c.asked = page.asked /\ c.uploading = page.uploading
    <3>1. c = page \/ c = [page EXCEPT !.inspected = Unset, !.chunks = Unset]
          BY <2>4 DEF Closed
    <3> QED BY <1>1, <3>1 DEF PageRecords, DocumentOrNone
  <2>8. /\ p \in PageRecords /\ p.base = page.base /\ p.batch = page.batch /\ p.loading
        /\ p.documents = page.documents /\ p.asked = page.asked /\ p.uploading = page.uploading
        BY <2>5, <2>7 DEF LoadingList, PageRecords
  <2>9. r.here /\ page.uploading /\ Busy \cap Others(r) = {} /\ r.ends # "version"
        BY <1>1, <1>2, <1>4, AloneBusy DEF VersionCurrent, WritesInv, OneFlow
  <2>10. /\ page'.base = page.base /\ page'.batch = page.batch /\ page'.documents = page.documents
         /\ page'.asked \in {page.asked, Unset} /\ page'.loading /\ page'.uploading
         BY <2>6, <2>8, <2>9, JoinedKeeps
  <2>11. PICK f : /\ Follows(requests', Others(r), new, f)
                  /\ \A q \in Others(r) : f[q].last => \A n \in new : Family(n.kind) # Family(q.kind)
         BY <1>1, <2>6, InSequenceFollows
  <2>12. /\ \A n \in new : n.kind \in {"documents", "jobs"} /\ n.items = {} /\ ~n.done /\ n.ends = e
         /\ \E n \in new : n.kind = "documents"
         BY <2>3, NewListsFor
  <2>13. OneFlow'
         BY <1>1, <2>2, <2>9, <2>10, <2>11, <2>12, FlowBegins DEF WritesInv
  <2>14. told'.tried = told.tried /\ told'.up = told.up /\ \A d \in told'.gone : job[d] = "deleted"
         BY <2>6 DEF WritesInv, DeletionsFit
  <2> QED BY <1>1, <1>2, <2>10, <2>11, <2>12, <2>13, <2>14, ReadAnew
<1> QED BY <1>3, <1>4

(* A deletion that was done.                                               *)
LEMMA DeletedWrites ==
  ASSUME PageInv, WritesInv, PageInv', NEW r \in requests, DocumentDeleted(r)
  PROVE  WritesInv'
<1>1. /\ page \in PageRecords /\ requests \subseteq RequestRecords
      /\ told \in [up : SUBSET Documents, gone : SUBSET Documents, tried : SUBSET Documents]
      /\ Others(r) \in SUBSET RequestRecords /\ Others(r) \in SUBSET requests
      BY DEF PageInv, PageTypeOK, Others
<1>2. kept' = kept /\ job' = job /\ r.kind = "delete document" /\ r.done
      BY DEF DocumentDeleted, Answers, Handled
<1>3. CASE ~r.here
  <2>1. page' = page /\ requests' = Others(r) /\ told' = told
        BY <1>3 DEF DocumentDeleted
  <2>2. PICK new : new = {}
        OBVIOUS
  <2>3. PICK f : Follows(requests', Others(r), new, f)
        BY <2>1, <2>2, OthersFollow
  <2>4. Uploads \subseteq Others(r) /\ \A n \in new : Harmless(n) /\ (n.kind = "documents" => n.items = {})
        BY <1>2, <2>2 DEF Uploads, Others
  <2> QED BY <1>1, <1>2, <2>1, <2>3, <2>4, PageIsSettled, Quiet
<1>4. CASE r.here
  <2>1. PICK b : b = r.base
        OBVIOUS
  <2>2. PICK e : e = "confirm"
        OBVIOUS
  <2>3. PICK new : new = ListsFor(b, e, r.doc, r.was)
        OBVIOUS
  <2>4. /\ page' = LoadingList(page) /\ requests' = InSequence(Others(r), new)
        /\ told' = [told EXCEPT !.gone = told.gone \cup {r.doc}]
    <3>1. new = ReloadFor(r, "confirm")
          BY <2>1, <2>2, <2>3 DEF ListsFor, ReloadFor
    <3> QED BY <1>1, <1>4, <3>1 DEF DocumentDeleted
  <2>5. /\ page'.base = page.base /\ page'.batch = page.batch /\ page'.documents = page.documents
        /\ page'.asked \in {page.asked, Unset} /\ page'.loading
        /\ page'.uploading = page.uploading
        BY <1>1, <2>4 DEF LoadingList, PageRecords
  <2>6. PICK f : /\ Follows(requests', Others(r), new, f)
                 /\ \A q \in Others(r) : f[q].last => \A n \in new : Family(n.kind) # Family(q.kind)
        BY <1>1, <2>4, InSequenceFollows
  <2>7. /\ \A n \in new : n.kind \in {"documents", "jobs"} /\ n.items = {} /\ ~n.done /\ n.ends = e
        /\ \E n \in new : n.kind = "documents"
        BY <2>3, NewListsFor
  <2>8. OneFlow'
        BY <1>1, <2>2, <2>5, <2>6, <2>7, FlowGoesOn DEF WritesInv
  <2>9. job[r.doc] = "deleted" /\ \A d \in told.gone : job[d] = "deleted"
        BY <1>2 DEF WritesInv, DeletionsFit
  <2>10. told'.tried = told.tried /\ told'.up = told.up /\ \A d \in told'.gone : job[d] = "deleted"
         BY <1>1, <2>4, <2>9
  <2>11. \A d \in told'.up : d \in told.up \/ \E u \in Uploads : u.done /\ d = u.doc
         BY <2>10
  <2>12. /\ \A n \in new : n.kind \in {"documents", "jobs"} /\ n.items = {} /\ ~n.done
         /\ \E n \in new : n.kind = "documents"
         BY <2>7
  <2>13. /\ page'.base = page.base /\ page'.batch = page.batch /\ page'.documents = page.documents
         /\ page'.asked \in {page.asked, Unset} /\ page'.loading
         BY <2>5
  <2>14. Others(r) \in SUBSET requests /\ told'.tried = told.tried /\ \A d \in told'.gone : job[d] = "deleted"
         BY <1>1, <2>10
  <2> QED BY <1>2, <2>6, <2>8, <2>11, <2>12, <2>13, <2>14, ReadAnew
<1> QED BY <1>3, <1>4

(* Excluded chunks and retried jobs: something is read again.              *)
LEMMA ReadAgainWrites ==
  ASSUME PageInv, WritesInv, PageInv', NEW r \in requests, ChunkExcluded(r) \/ JobRetried(r)
  PROVE  WritesInv'
<1>1. page \in PageRecords /\ Settled(page)
      BY PageIsSettled
<1>2. kept' = kept /\ job' = job /\ r.kind # "upload"
      BY DEF ChunkExcluded, JobRetried, Answers
<1>3. PICK b : b = r.base
      OBVIOUS
<1>4. PICK d : d = r.doc
      OBVIOUS
<1>5. CASE Gives(r, page, {})
      BY <1>1, <1>2, <1>5, ShownQuietly
<1>6. ASSUME NEW p \in PageRecords, Settled(p), p.uploading = page.uploading,
             NEW k \in {"chunks", "jobs"}, NEW n \in Plainly(k, b, d), Gives(r, p, {n})
      PROVE  WritesInv'
  <2>1. k \in Kinds /\ k \notin {"upload", "version", "delete document"}
        BY DEF Kinds
  <2>2. Harmless(n) /\ n.items = {}
        BY <2>1, NewIsHarmless
  <2>3. PICK new : new = {n}
        OBVIOUS
  <2>4. Gives(r, p, new) /\ \A m \in new : Harmless(m) /\ (m.kind = "documents" => m.items = {})
        BY <1>6, <2>2, <2>3
  <2> QED BY <1>2, <1>6, <2>4, GivesQuietly
<1>7. CASE ChunkExcluded(r) /\ r.here
  <2>1. PICK n : n = [Request("chunks", b) EXCEPT !.doc = d, !.ends = "confirm"]
        OBVIOUS
  <2>2. PICK p : p = Reading(page)
        OBVIOUS
  <2>3. Gives(r, p, {n})
        BY <1>3, <1>4, <1>7, <2>1, <2>2 DEF ChunkExcluded
  <2>4. p \in PageRecords /\ Calm(p) /\ p.uploading = page.uploading
        BY <1>1, <2>2 DEF PageRecords, Reading, Calm
  <2>5. n \in Plainly("chunks", b, d)
        BY <2>1 DEF Plainly
  <2> QED BY <1>6, <2>3, <2>4, <2>5, CalmIsSettled
<1>8. CASE JobRetried(r) /\ r.here
  <2>1. Gives(r, page, {Request("jobs", b)})
        BY <1>3, <1>8 DEF JobRetried
  <2>2. Request("jobs", b) \in Plainly("jobs", b, d)
        BY DEF Plainly
  <2> QED BY <1>1, <1>6, <2>1, <2>2
<1> QED BY <1>5, <1>7, <1>8 DEF ChunkExcluded, JobRetried

(* Answers and clicks that select a base.                                  *)
LEMMA SelectionsWrite ==
  ASSUME PageInv, WritesInv, PageInv',
         \/ \E b \in KnowledgeBases : SelectBase(b)
         \/ \E r \in requests : BaseDeleted(r) \/ BaseSaved(r) \/ BasesArrive(r)
  PROVE  WritesInv'
<1>1. /\ page \in PageRecords /\ Settled(page) /\ requests \subseteq RequestRecords
      /\ \A r \in requests : Fits(r, page.base)
      BY PageIsSettled DEF PageInv, PageTypeOK, Good
<1>2. ASSUME NEW items, NEW b \in BaseOrNone, NEW r \in requests, r.kind # "upload",
             kept' = kept, job' = job, Select([page EXCEPT !.list = items], b, Others(r))
      PROVE  WritesInv'
  <2>1. PICK p : p = [page EXCEPT !.list = items]
        OBVIOUS
  <2>2. /\ p.base = page.base /\ p.batch = page.batch /\ p.documents = page.documents
        /\ p.asked = page.asked /\ p.loading = page.loading /\ p.failed = page.failed
        /\ p.uploading = page.uploading
        BY <1>1, <2>1 DEF PageRecords
  <2>3. PICK old \in SUBSET requests : old = Others(r) /\ Uploads \subseteq old
        BY <1>2 DEF Others, Uploads
  <2>4. Select(p, b, old)
        BY <1>2, <2>1, <2>3
  <2> QED BY <1>2, <2>2, <2>3, <2>4, OtherView
<1>3. ASSUME NEW b \in KnowledgeBases, SelectBase(b)
      PROVE  WritesInv'
  <2>1. Select(page, b, requests) /\ kept' = kept /\ job' = job
        BY <1>3 DEF SelectBase, Acts
  <2>2. b \in BaseOrNone /\ requests \in SUBSET requests /\ Uploads \subseteq requests
        BY DEF BaseOrNone, Uploads
  <2>3. PICK p : p = page
        OBVIOUS
  <2>4. Select(p, b, requests)
        BY <2>1, <2>3
  <2>5. /\ p.base = page.base /\ p.batch = page.batch /\ p.documents = page.documents
        /\ p.asked = page.asked /\ p.loading = page.loading /\ p.failed = page.failed
        /\ p.uploading = page.uploading
        BY <2>3
  <2> QED BY <2>1, <2>2, <2>4, <2>5, OtherView
<1>4. ASSUME NEW r \in requests, BaseDeleted(r)
      PROVE  WritesInv'
  <2>1. kept' = kept /\ job' = job /\ r.kind = "delete base" /\ r.items \subseteq KnowledgeBases
        BY <1>1, <1>4 DEF BaseDeleted, Answers, Fits
  <2>2. CASE ~r.here
    <3>1. Gives(r, page, {})
          BY <1>4, <2>2 DEF BaseDeleted
    <3> QED BY <1>1, <2>1, <3>1, ShownQuietly
  <2>3. CASE r.here
    <3>1. PICK left : left = r.items \ {r.base}
          OBVIOUS
    <3>2. PICK b \in (IF left = {} THEN {Unset} ELSE left) :
            Select([page EXCEPT !.list = left], b, Others(r))
          BY <1>4, <2>3, <3>1 DEF BaseDeleted
    <3>3. b \in BaseOrNone
          BY <2>1, <3>1, <3>2 DEF BaseOrNone
    <3> QED BY <1>2, <2>1, <3>2, <3>3
  <2> QED BY <2>2, <2>3
<1>5. ASSUME NEW r \in requests, BaseSaved(r)
      PROVE  WritesInv'
  <2>1. kept' = kept /\ job' = job /\ r.kind \in {"create", "describe"} /\ r.base \in BaseOrNone
        BY <1>1, <1>5 DEF BaseSaved, Answers, Fits, BaseOrNone
  <2>2. PICK items : items = page.list \cup {r.base}
        OBVIOUS
  <2>3. Select([page EXCEPT !.list = items], r.base, Others(r))
        BY <1>1, <1>5, <2>2 DEF BaseSaved, PageRecords
  <2> QED BY <1>2, <2>1, <2>3
<1>6. ASSUME NEW r \in requests, BasesArrive(r)
      PROVE  WritesInv'
  <2>1. kept' = kept /\ job' = job /\ r.kind = "bases" /\ r.items \subseteq KnowledgeBases
        BY <1>1, <1>6 DEF BasesArrive, Answers, Fits
  <2>2. PICK b \in (IF page.base \in r.items THEN {page.base}
                    ELSE IF r.items = {} THEN {Unset} ELSE r.items) :
          Select([page EXCEPT !.list = r.items], b, Others(r))
        BY <1>6 DEF BasesArrive
  <2>3. b \in BaseOrNone
        BY <1>1, <2>1, <2>2 DEF BaseOrNone
  <2> QED BY <1>2, <2>1, <2>2, <2>3
<1> QED BY <1>3, <1>4, <1>5, <1>6

(* A request that fails.                                                   *)
LEMMA FailureWrites ==
  ASSUME PageInv, WritesInv, PageInv', NEW r \in requests, RequestFails(r)
  PROVE  WritesInv'
<1>1. /\ page \in PageRecords /\ requests \subseteq RequestRecords
      /\ Others(r) \subseteq requests
      BY DEF PageInv, PageTypeOK, Others
<1>2. kept' = kept /\ job' = job /\ told' = told
      BY DEF RequestFails
<1>3. CASE r.kind = "upload"
  <2>1. BatchGoesOn(r) /\ told'.tried = told.tried /\ told'.gone = told.gone
        /\ \A d \in told'.up : d \in told.up \/ (r.here /\ r.done /\ d = r.doc)
        BY <1>2, <1>3 DEF RequestFails
  <2> QED BY <1>2, <1>3, <2>1, BatchWrites
<1>4. CASE r.kind # "upload"
  <2>1. PICK p : p = Failed(r)
        OBVIOUS
  <2>2. page' = Joined(p, r) /\ requests' = Others(r)
        BY <1>4, <2>1 DEF RequestFails
  <2>3. PICK c \in DocumentOrNone : c = IF r.kind = "chunks" THEN Unset ELSE page.chunks
        BY <1>1 DEF PageRecords, DocumentOrNone
  <2>4. PICK g \in BOOLEAN : g = (page.graphing /\ r.quiet)
        OBVIOUS
  <2>5. \/ p = [page EXCEPT !.failed = TRUE, !.loading = FALSE]
        \/ p = [page EXCEPT !.reading = FALSE, !.chunks = c]
        \/ p = [page EXCEPT !.searching = FALSE, !.result = Unset]
        \/ p = [page EXCEPT !.graphing = g]
        \/ p = [page EXCEPT !.uploading = FALSE] /\ r.kind = "version" /\ r.here
        \/ p = [page EXCEPT !.confirming = FALSE]
        \/ p = page
        BY <1>1, <2>1, <2>3, <2>4 DEF Failed, PageRecords, VersionCurrent
  <2>6. p \in PageRecords /\ Calm(p)
    <3>1. p \in PageRecords
      <4>1. \/ p = [page EXCEPT !.failed = TRUE, !.loading = FALSE]
            \/ p = [page EXCEPT !.reading = FALSE, !.chunks = c]
            \/ p = [page EXCEPT !.searching = FALSE, !.result = Unset]
            \/ p = [page EXCEPT !.graphing = g]
            \/ p = [page EXCEPT !.uploading = FALSE]
            \/ p = [page EXCEPT !.confirming = FALSE]
            \/ p = page
            BY <2>5
      <4>2. page \in PageRecords
            BY <1>1
      <4>3. CASE p = [page EXCEPT !.reading = FALSE, !.chunks = c]
            BY <2>3, <4>2, <4>3 DEF PageRecords
      <4>4. CASE p = [page EXCEPT !.searching = FALSE, !.result = Unset]
            BY <4>2, <4>4 DEF PageRecords, BaseOrNone
      <4>5. CASE p = [page EXCEPT !.graphing = g]
            BY <2>4, <4>2, <4>5 DEF PageRecords
      <4> QED BY <4>1, <4>2, <4>3, <4>4, <4>5, ZenonT(40) DEF PageRecords
    <3>2. /\ p.base = page.base /\ p.batch = page.batch /\ p.documents = page.documents
          /\ p.asked = page.asked
          BY <1>1, <2>5 DEF PageRecords
    <3>3. p.failed \/ (p.loading = page.loading /\ p.failed = page.failed)
          BY <1>1, <2>5 DEF PageRecords
    <3> QED BY <3>1, <3>2, <3>3 DEF Calm
  <2>7. p.uploading = page.uploading \/ (r.kind = "version" /\ r.here)
        BY <1>1, <2>5 DEF PageRecords
  <2>8. PICK new : new = {}
        OBVIOUS
  <2>9. PICK f : Follows(requests', Others(r), new, f)
        BY <2>2, <2>8, OthersFollow
  <2>10. \A n \in new : Harmless(n) /\ (n.kind = "documents" => n.items = {})
         BY <2>8
  <2> QED BY <1>2, <1>4, <2>2, <2>6, <2>7, <2>9, <2>10, CalmIsSettled, AnsweredQuietly
<1> QED BY <1>3, <1>4

-----------------------------------------------------------------------------
(* What the server does takes nothing from a view but what it asked for.   *)
LEMMA ServerKeeps ==
  ASSUME PageInv, WritesInv, NEW r \in requests, Handle(r)
  PROVE  /\ \A d \in Documents : /\ job[d] # "none" => job'[d] # "none"
                                 /\ job[d] = "deleted" => job'[d] = "deleted"
                                 /\ job'[d] # "none" => kept'[Home[d]] # "unborn"
         /\ \A d \in Documents : /\ IsStored(d)
                                 /\ d \in told.up \/ \E u \in Uploads : u.doc = d
                                 => IsStored(d)'
<1>1. /\ kept \in [KnowledgeBases -> {"unborn", "kept", "deleted"}]
      /\ job \in [Documents -> JobStates] /\ r \in RequestRecords /\ Fits(r, page.base)
      /\ Home \in [Documents -> KnowledgeBases]
      BY PageConstants DEF PageInv, PageTypeOK, Good
<1>2. \A d \in Documents : job[d] # "none" => kept[Home[d]] # "unborn"
      BY DEF WritesInv, ListsFit
<1>3. told' = told
      BY DEF Handle
<1>4. CASE r.kind \in {"upload", "version", "retry"}
  <2>1. /\ kept' = kept /\ job' = [job EXCEPT ![r.doc] = "running"] /\ r.doc \in Documents
        /\ job[r.doc] # "deleted" /\ kept[Home[r.doc]] # "unborn"
    <3>1. kept' = kept /\ job' = [job EXCEPT ![r.doc] = "running"] /\ r.doc \in Documents
          BY <1>1, <1>4 DEF Handle, Fits
    <3>2. CASE r.kind = "upload"
          BY <1>1, <3>1, <3>2 DEF Handle, Accepts, Fits, Kept
    <3>3. CASE r.kind = "version"
          BY <1>2, <3>1, <3>3 DEF Handle, Accepts, StoredIn, Of
    <3>4. CASE r.kind = "retry"
          BY <1>2, <3>1, <3>4 DEF Handle, Accepts
    <3> QED BY <1>4, <3>1, <3>2, <3>3, <3>4
  <2>2. \A d \in Documents : job'[d] = IF d = r.doc THEN "running" ELSE job[d]
        BY <1>1, <2>1
  <2> QED BY <1>2, <1>3, <2>1, <2>2 DEF IsStored
<1>5. CASE r.kind = "delete document"
  <2>1. /\ kept' = kept /\ job' = [job EXCEPT ![r.doc] = "deleted"] /\ r.doc \in Documents
        /\ job[r.doc] # "none"
        BY <1>1, <1>5 DEF Handle, Accepts, StoredIn, Fits
  <2>2. \A d \in Documents : job'[d] = IF d = r.doc THEN "deleted" ELSE job[d]
        BY <1>1, <2>1
  <2>3. /\ r.here => r.doc \in told.tried
        /\ ~r.here => r.doc \notin told.up /\ \A u \in Uploads : u.doc # r.doc
        BY <1>5 DEF WritesInv, DeletionsFit
  <2> QED BY <1>1, <1>2, <1>3, <2>1, <2>2, <2>3 DEF IsStored, RequestRecords
<1>6. CASE r.kind = "delete base"
  <2>1. /\ kept' = [kept EXCEPT ![r.base] = "deleted"] /\ r.base \in KnowledgeBases
        /\ job' = [d \in Documents |-> IF d \in StoredIn(r.base) THEN "deleted" ELSE job[d]]
        BY <1>6 DEF Handle, Accepts, Kept
  <2>2. \A d \in Documents : /\ job'[d] = IF d \in StoredIn(r.base) THEN "deleted" ELSE job[d]
                             /\ kept'[Home[d]] = IF Home[d] = r.base THEN "deleted" ELSE kept[Home[d]]
        BY <1>1, <2>1
  <2>3. \A d \in StoredIn(r.base) : Home[d] = r.base /\ job[d] # "none"
        BY DEF StoredIn, Of
  <2> QED BY <1>2, <1>3, <2>2, <2>3 DEF IsStored
<1>7. CASE r.kind = "create"
  <2>1. kept' = [kept EXCEPT ![r.base] = "kept"] /\ job' = job /\ kept[r.base] = "unborn"
        BY <1>7 DEF Handle, Accepts
  <2>2. \A d \in Documents : kept'[Home[d]] = IF Home[d] = r.base THEN "kept" ELSE kept[Home[d]]
        BY <1>1, <2>1
  <2> QED BY <1>2, <1>3, <2>1, <2>2 DEF IsStored
<1>8. CASE r.kind \notin {"upload", "version", "retry", "delete document", "delete base", "create"}
  <2>1. kept' = kept /\ job' = job
        BY <1>8 DEF Handle
  <2> QED BY <1>2, <1>3, <2>1 DEF IsStored
<1> QED BY <1>4, <1>5, <1>6, <1>7, <1>8

(* What the server does with a request leaves the view its writes.         *)
LEMMA HandlingWrites ==
  ASSUME PageInv, WritesInv, PageInv', NEW r \in requests, Handle(r)
  PROVE  WritesInv'
<1>1. /\ kept \in [KnowledgeBases -> {"unborn", "kept", "deleted"}]
      /\ job \in [Documents -> JobStates] /\ page \in PageRecords /\ r \in RequestRecords
      /\ requests \subseteq RequestRecords /\ Fits(r, page.base) /\ Remembers(page)
      /\ told \in [up : SUBSET Documents, gone : SUBSET Documents, tried : SUBSET Documents]
      /\ \A q \in requests : q \in RequestRecords /\ Fits(q, page.base)
      /\ page.documents \subseteq Documents
      BY DEF PageInv, PageTypeOK, Good, PageRecords
<1>2. /\ \A d \in Documents : /\ job[d] # "none" => job'[d] # "none"
                              /\ job[d] = "deleted" => job'[d] = "deleted"
                              /\ job'[d] # "none" => kept'[Home[d]] # "unborn"
      /\ \A d \in Documents : /\ IsStored(d)
                              /\ d \in told.up \/ \E u \in Uploads : u.doc = d
                              => IsStored(d)'
      BY ServerKeeps
<1>3. PICK items : items = CASE r.kind = "documents" -> StoredIn(r.base)
                             [] r.kind = "bases" -> Kept
                             [] OTHER -> r.items
      OBVIOUS
<1>4. PICK n : n = [r EXCEPT !.done = TRUE, !.items = items]
      OBVIOUS
<1>5. requests' = (requests \ {r}) \cup {n} /\ page' = page /\ told' = told
      BY <1>1, <1>3, <1>4 DEF Handle, RequestRecords
<1>6. /\ n.kind = r.kind /\ n.base = r.base /\ n.doc = r.doc /\ n.here = r.here /\ n.ends = r.ends
      /\ n.last = r.last /\ n.items = items /\ n.done
      BY <1>1, <1>4 DEF RequestRecords
<1>7. /\ Uploads' \subseteq Uploads \cup {n} /\ (n \in Uploads' => r \in Uploads)
      /\ Uploads \subseteq Uploads' \cup {r} /\ (r \in Uploads => n \in Uploads')
      BY <1>5, <1>6, Zenon DEF Uploads
<1>8. \A q \in Uploads' : \E u \in Uploads : u.doc = q.doc
      BY <1>6, <1>7
<1>9. UploadsFit'
  <2>1. ASSUME NEW q \in Uploads', q.done
        PROVE  IsStored(q.doc)'
    <3>1. CASE q = n
      <4>1. r \in Uploads /\ r.kind = "upload"
            BY <1>7, <3>1 DEF Uploads
      <4>2. job' = [job EXCEPT ![r.doc] = "running"] /\ r.doc \in Documents
            BY <1>1, <4>1 DEF Handle, Fits
      <4>3. job'[q.doc] = "running"
            BY <1>1, <1>6, <3>1, <4>2
      <4> QED BY <4>3 DEF IsStored
    <3>2. CASE q # n
      <4>1. q \in Uploads /\ q.kind = "upload" /\ q \in requests
            BY <1>7, <3>2 DEF Uploads
      <4>2. IsStored(q.doc) /\ q.doc \in Documents
            BY <1>1, <2>1, <4>1 DEF WritesInv, UploadsFit, Fits
      <4> QED BY <1>2, <4>1, <4>2
    <3> QED BY <3>1, <3>2
  <2>2. ASSUME NEW d \in told'.up
        PROVE  d \in Of(page'.base) /\ IsStored(d)'
    <3>1. d \in Documents /\ d \in told.up /\ IsStored(d) /\ d \in Of(page.base)
          BY <1>1, <1>5 DEF WritesInv, UploadsFit
    <3> QED BY <1>2, <1>5, <3>1
  <2> QED BY <2>1, <2>2 DEF UploadsFit
<1>10. DeletionsFit'
  <2>1. page'.asked # Unset /\ page'.asked.kind = "delete document" => job'[page'.asked.doc] # "none"
        BY <1>1, <1>2, <1>5 DEF WritesInv, DeletionsFit, Remembers
  <2>2. ASSUME NEW q \in requests', q.kind = "delete document"
        PROVE  /\ job'[q.doc] # "none"
               /\ q.done => job'[q.doc] = "deleted"
               /\ q.here => q.doc \in told'.tried
               /\ ~q.here => /\ q.doc \notin told'.up \cup page'.batch
                             /\ \A u \in Uploads' : u.doc # q.doc
    <3>1. PICK o \in requests : /\ o.kind = q.kind /\ o.doc = q.doc /\ o.here = q.here
                                /\ o = q \/ (o = r /\ q = n)
          BY <1>5, <1>6
    <3>2. /\ job[o.doc] # "none"
          /\ o.done => job[o.doc] = "deleted"
          /\ o.here => o.doc \in told.tried
          /\ ~o.here => /\ o.doc \notin told.up \cup page.batch
                        /\ \A u \in Uploads : u.doc # o.doc
          BY <2>2, <3>1 DEF WritesInv, DeletionsFit
    <3>3. o.doc \in Documents
          BY <1>1, <2>2, <3>1 DEF Fits
    <3>4. q.done => job'[q.doc] = "deleted"
      <4>1. CASE o = q
            BY <1>2, <3>2, <3>3, <4>1
      <4>2. CASE o = r
        <5>1. job' = [job EXCEPT ![r.doc] = "deleted"]
              BY <2>2, <3>1, <4>2 DEF Handle
        <5> QED BY <1>1, <3>1, <3>3, <4>2, <5>1
      <4> QED BY <3>1, <4>1, <4>2
    <3>5. ~q.here => \A u \in Uploads' : u.doc # q.doc
          BY <1>8, <3>1, <3>2
    <3>6. q.here => q.doc \in told'.tried
          BY <1>5, <3>1, <3>2
    <3>7. ~q.here => q.doc \notin told'.up \cup page'.batch
          BY <1>5, <3>1, <3>2
    <3> QED BY <1>2, <3>1, <3>2, <3>3, <3>4, <3>5, <3>6, <3>7
  <2>3. \A d \in told'.gone : job'[d] = "deleted"
        BY <1>1, <1>2, <1>5 DEF WritesInv, DeletionsFit
  <2> QED BY <2>1, <2>2, <2>3 DEF DeletionsFit
<1>11. ListsFit'
  <2>1. \A d \in page'.documents : job'[d] # "none"
        BY <1>1, <1>2, <1>5 DEF WritesInv, ListsFit
  <2>2. ASSUME NEW q \in requests', q.kind = "documents", NEW d \in q.items
        PROVE  job'[d] # "none"
    <3>1. CASE q = n
      <4>1. d \in StoredIn(r.base)
            BY <1>3, <1>6, <2>2, <3>1
      <4>2. d \in Documents /\ job[d] # "none"
            BY <4>1 DEF StoredIn, Of
      <4> QED BY <1>2, <4>2
    <3>2. CASE q # n
      <4>1. q \in requests
            BY <1>5, <3>2
      <4>2. d \in Documents /\ job[d] # "none"
            BY <1>1, <2>2, <4>1 DEF WritesInv, ListsFit, Fits, Of
      <4> QED BY <1>2, <4>2
    <3> QED BY <3>1, <3>2
  <2> QED BY <1>2, <2>1, <2>2 DEF ListsFit
<1>12. OneFlow'
  <2>1. /\ Busy' \subseteq Busy \cup {n} /\ (n \in Busy' => r \in Busy)
        BY <1>5, <1>6, Zenon DEF Busy
  <2>2. Busy' # {} => page'.uploading
        BY <1>5, <2>1 DEF WritesInv, OneFlow
  <2>3. ASSUME NEW q \in Busy', NEW p \in Busy'
        PROVE  p = q \/ (p.ends = "version" /\ q.ends = "version")
    <3>1. q \in requests' /\ p \in requests'
          BY DEF Busy
    <3>2. CASE q = n /\ p # n
      <4>1. p \in Busy /\ r \in Busy /\ p # r
            BY <1>5, <2>1, <3>1, <3>2
      <4> QED BY <1>6, <3>2, <4>1 DEF WritesInv, OneFlow
    <3>3. CASE p = n /\ q # n
      <4>1. q \in Busy /\ r \in Busy /\ q # r
            BY <1>5, <2>1, <3>1, <3>3
      <4> QED BY <1>6, <3>3, <4>1 DEF WritesInv, OneFlow
    <3>4. CASE p # n /\ q # n
          BY <2>1, <3>4 DEF WritesInv, OneFlow
    <3> QED BY <3>2, <3>3, <3>4
  <2>4. ASSUME NEW q \in requests', q.ends = "version"
        PROVE  q.kind \in {"documents", "jobs"}
        BY <1>5, <1>6, <2>4 DEF WritesInv, OneFlow
  <2> QED BY <2>2, <2>3, <2>4 DEF OneFlow
<1>13. FreshLists'
  <2>1. SUFFICES ASSUME Uploads' = {} PROVE FreshLists'
        BY DEF FreshLists
  <2>2. Uploads = {}
        BY <1>7, <2>1
  <2>3. ASSUME NEW q \in requests', q.kind = "documents", q.here, q.last, q.done
        PROVE  ShowsWrites(q.items)
    <3>1. CASE q # n
          BY <1>5, <2>2, <2>3, <3>1 DEF WritesInv, FreshLists
    <3>2. CASE q = n
      <4>1. r.kind = "documents" /\ r.here /\ r.base = page.base /\ r.base \in Kept
            BY <1>1, <1>6, <2>3, <3>2 DEF Fits, Handle, Accepts
      <4>2. q.items = StoredIn(page.base)
            BY <1>3, <1>6, <3>2, <4>1
      <4>3. ASSUME NEW d \in told.up, d \notin told.tried
            PROVE  d \in StoredIn(page.base)
        <5>1. d \in Of(page.base) /\ IsStored(d)
              BY DEF WritesInv, UploadsFit
        <5>2. kept[Home[d]] = "kept"
              BY <4>1, <5>1 DEF Of, Kept
        <5> QED BY <4>3, <5>1, <5>2 DEF IsStored, StoredIn
      <4>4. told.gone \cap StoredIn(page.base) = {}
            BY DEF WritesInv, DeletionsFit, StoredIn
      <4> QED BY <4>2, <4>3, <4>4 DEF ShowsWrites
    <3> QED BY <3>1, <3>2
  <2>4. ~page.loading /\ ~page.failed => ShowsWrites(page.documents)
        BY <2>2 DEF WritesInv, FreshLists
  <2>5. told'.up = told.up /\ told'.tried = told.tried /\ told'.gone = told.gone
        BY <1>5
  <2> QED BY <1>5, <2>3, <2>4, <2>5 DEF FreshLists, ShowsWrites
<1> QED BY <1>9, <1>10, <1>11, <1>12, <1>13 DEF WritesInv

(* An indexing job that ends.                                              *)
LEMMA IndexingWrites ==
  ASSUME PageInv, WritesInv, NEW d \in Documents, IndexingEnds(d)
  PROVE  WritesInv'
<1>1. /\ job \in [Documents -> JobStates] /\ Remembers(page)
      /\ page.documents \subseteq Documents
      /\ told \in [up : SUBSET Documents, gone : SUBSET Documents, tried : SUBSET Documents]
      /\ \A q \in requests : Fits(q, page.base)
      BY DEF PageInv, PageTypeOK, Good, PageRecords
<1>2. /\ kept' = kept /\ page' = page /\ requests' = requests /\ told' = told
      /\ job[d] = "running" /\ \E s \in {"served", "failed"} : job' = [job EXCEPT ![d] = s]
      BY DEF IndexingEnds
<1>3. \A e \in Documents : /\ job[e] # "none" <=> job'[e] # "none"
                           /\ job[e] = "deleted" <=> job'[e] = "deleted"
      BY <1>1, <1>2
<1>4. Uploads' = Uploads /\ Busy' = Busy
      BY <1>2 DEF Uploads, Busy
<1>5. \A e \in Documents : IsStored(e) => IsStored(e)'
      BY <1>2, <1>3 DEF IsStored
<1>6. UploadsFit'
      BY <1>1, <1>2, <1>4, <1>5 DEF WritesInv, UploadsFit, Fits, Uploads
<1>7. DeletionsFit'
  <2>1. page.asked # Unset /\ page.asked.kind = "delete document" => job'[page.asked.doc] # "none"
        BY <1>1, <1>3 DEF WritesInv, DeletionsFit, Remembers
  <2>2. ASSUME NEW q \in requests, q.kind = "delete document"
        PROVE  job'[q.doc] # "none" /\ (q.done => job'[q.doc] = "deleted")
    <3>1. q.doc \in Documents
          BY <1>1, <2>2 DEF Fits
    <3> QED BY <1>3, <2>2, <3>1 DEF WritesInv, DeletionsFit
  <2>3. \A e \in told.gone : job'[e] = "deleted"
        BY <1>1, <1>3 DEF WritesInv, DeletionsFit
  <2> QED BY <1>2, <1>4, <2>1, <2>2, <2>3 DEF WritesInv, DeletionsFit
<1>8. ListsFit'
  <2>1. ASSUME NEW q \in requests, q.kind = "documents", NEW e \in q.items
        PROVE  job'[e] # "none"
    <3>1. e \in Documents
          BY <1>1, <2>1 DEF Fits, Of
    <3> QED BY <1>3, <2>1, <3>1 DEF WritesInv, ListsFit
  <2> QED BY <1>1, <1>2, <1>3, <2>1 DEF WritesInv, ListsFit
<1>9. OneFlow' /\ FreshLists'
      BY <1>2, <1>4 DEF WritesInv, OneFlow, FreshLists, ShowsWrites
<1> QED BY <1>6, <1>7, <1>8, <1>9 DEF WritesInv

(* Every step leaves the view its writes.                                  *)
LEMMA WritesStep ==
  ASSUME PageInv, WritesInv, PageInv', [PageNext]_pageVars
  PROVE  WritesInv'
<1>1. CASE UNCHANGED pageVars
  <2>1. /\ kept' = kept /\ job' = job /\ page' = page /\ requests' = requests /\ told' = told
        BY <1>1 DEF pageVars
  <2>2. Uploads' = Uploads /\ Busy' = Busy
        BY <2>1 DEF Uploads, Busy
  <2> QED BY <2>1, <2>2 DEF WritesInv, UploadsFit, DeletionsFit, ListsFit, OneFlow, FreshLists,
                            IsStored, ShowsWrites
<1>2. CASE UserActs \/ PollJobs \/ PollGraph
  <2>1. ASSUME NEW b \in KnowledgeBases, SelectBase(b) \/ CreateBase(b)
        PROVE  WritesInv'
        BY <2>1, SelectionsWrite, ClicksWrite
  <2>2. ASSUME NEW d \in Documents, Inspect(d) \/ UpdateDocument(d) \/ RetryJob(d)
        PROVE  WritesInv'
        BY <2>2, UpdateWrites, ClicksWrite
  <2>3. ASSUME NEW k \in {"delete document", "delete chunk", "delete base"},
               NEW d \in Documents \cup {Unset}, AskDelete([kind |-> k, doc |-> d])
        PROVE  WritesInv'
        BY <2>3, DeletionWrites DEF DocumentOrNone
  <2>4. ASSUME NEW D \in SUBSET Documents, UploadFiles(D)
        PROVE  WritesInv'
        BY <2>4, UploadWrites
  <2>5. CASE Refresh \/ Confirm \/ SaveGraph
        BY <2>5, RefreshWrites, DeletionWrites, SaveWrites
  <2>6. CASE LoadMore \/ CloseChunks \/ Cancel \/ Describe \/ Search \/ RefreshGraph
             \/ PollJobs \/ PollGraph
        BY <2>6, ClicksWrite
  <2> QED BY <1>2, <2>1, <2>2, <2>3, <2>4, <2>5, <2>6 DEF UserActs
<1>3. ASSUME NEW r \in requests, Arrives(r)
      PROVE  WritesInv'
      BY <1>3, ListsAreFresh, SavedQuietly, UploadedWrites, VersionWrites, DeletedWrites,
         ReadAgainWrites, SelectionsWrite, FailureWrites DEF Arrives
<1> QED BY <1>1, <1>2, <1>3, HandlingWrites, IndexingWrites DEF PageNext

(* The page opens with nothing told.                                       *)
LEMMA WritesStart == PageInit => WritesInv
<1> SUFFICES ASSUME PageInit PROVE WritesInv
    OBVIOUS
<1>1. /\ page = EmptyPage /\ told = NothingTold
      /\ \A d \in Documents : job[d] # "none" => kept[Home[d]] = "kept"
      BY DEF PageInit, Kept
<1>2. PICK r : r = Request("bases", Unset)
      OBVIOUS
<1>3. r = [kind |-> "bases", base |-> Unset, doc |-> Unset, here |-> TRUE, last |-> TRUE,
           ends |-> "none", was |-> FALSE, quiet |-> FALSE, done |-> FALSE, items |-> {}]
      BY <1>2 DEF Request
<1>4. requests = {r} /\ r.kind = "bases" /\ r.ends = "none"
      BY <1>2, <1>3 DEF PageInit
<1>5. Uploads = {} /\ Busy = {}
      BY <1>4 DEF Uploads, Busy
<1>6. /\ page.documents = {} /\ page.asked = Unset /\ told.up = {} /\ told.gone = {}
      BY <1>1 DEF EmptyPage, NothingTold
<1> QED BY <1>1, <1>4, <1>5, <1>6 DEF WritesInv, UploadsFit, DeletionsFit, ListsFit, OneFlow,
                                       FreshLists, ShowsWrites

(* What the server acknowledged shows once the loads are through.          *)
THEOREM WritesStayShown == PageSpec => []WritesAreShown
<1>1. WritesInv => WritesAreShown
  <2>1. SUFFICES ASSUME WritesInv, ~page.loading, ~page.failed, ~page.uploading
                 PROVE  ShowsWrites(page.documents)
        BY DEF WritesAreShown, ShowsWrites
  <2>2. Uploads \subseteq Busy /\ Busy = {}
        BY <2>1 DEF WritesInv, OneFlow, Uploads, Busy
  <2> QED BY <2>1, <2>2 DEF WritesInv, FreshLists
<1>2. PageInit => PageInv /\ WritesInv
      BY PageStart, WritesStart
<1>3. PageInv /\ WritesInv /\ [PageNext]_pageVars => PageInv' /\ WritesInv'
      BY PageStep, WritesStep
<1> QED BY <1>1, <1>2, <1>3, PTL DEF PageSpec

-----------------------------------------------------------------------------
(* The chat page.                                                          *)

(* What the page and the server know of turns and sessions.                *)
TurnRecords == [scope : SUBSET Bases, key : Nat, done : BOOLEAN]
TurnLists   == [Sessions -> Seq(TurnRecords)]
ShownTurns  == [session : Sessions, turn : Nat, done : BOOLEAN]
Headers     == [session : Sessions, scope : SUBSET Bases]

CallKinds == {"sessions", "messages", "restore", "scope", "all", "open", "create"}
CallRecords ==
  [kind : CallKinds, fresh : BOOLEAN, base : Bases \cup {None},
   session : Sessions \cup {None}, scope : SUBSET Bases, before : SUBSET Bases,
   page : Nat, turn : Nat, key : Nat, ends : BOOLEAN, served : BOOLEAN, ok : BOOLEAN,
   items : SUBSET (ShownTurns \cup Headers)]
TabRecords ==
  [base : Bases \cup {None}, session : Sessions \cup {None}, scope : SUBSET Bases,
   known : SUBSET Headers, shown : SUBSET ShownTurns, more : Nat, loading : BOOLEAN,
   error : BOOLEAN, current : ShownTurns \cup {None},
   pending : [session : Sessions, scope : SUBSET Bases, key : Nat] \cup {None},
   submitting : BOOLEAN, failed : BOOLEAN, saving : BOOLEAN,
   stream : {"off", "events", "polling", "both"}, tries : Nat,
   calls : SUBSET CallRecords]

(* A turn of session s as the server has or had it in T.                   *)
Genuine(m, s, T) ==
  /\ m \in ShownTurns /\ m.session = s
  /\ m.turn \in DOMAIN T[s] /\ (m.done => T[s][m.turn].done)

(* What is decided in X is not generating in Y.                            *)
Agree(X, Y) == \A m \in X, n \in Y : m.turn = n.turn /\ m.done => n.done

(* What a call carries and what its answer brings.                         *)
CallOK(c, T) ==
  /\ c.kind \in {"messages", "restore", "create"} =>
       /\ c.session \in Sessions
       /\ \A m \in c.items : Genuine(m, c.session, T)
  /\ c.kind = "messages" => Agree(c.items, c.items)
  /\ c.kind = "sessions" => c.items \subseteq Headers
  /\ c.kind = "open" /\ c.served => c.session \in Sessions
  /\ c.kind = "create" /\ c.served /\ c.ok => c.items # {}

Loads(c) == c.kind = "messages" /\ c.fresh

ShownOK(t, T) ==
  /\ \A m \in t.shown : Genuine(m, t.session, T)
  /\ Agree(t.shown, t.shown)
  /\ t.current # None => Genuine(t.current, t.session, T)

(* One load counts, and it is younger than all that is shown.              *)
LoadsOK(t) ==
  /\ \A c, d \in t.calls : Loads(c) /\ Loads(d) => c = d
  /\ \A c \in t.calls : Loads(c) /\ c.session = t.session => Agree(t.shown, c.items)

TabOK(t, T) ==
  /\ t \in TabRecords
  /\ ShownOK(t, T) /\ LoadsOK(t)
  /\ \A c \in t.calls : CallOK(c, T)

ServerOK ==
  /\ turns  \in TurnLists
  /\ scopes \in [Sessions -> SUBSET Bases]
  /\ budget \in [questions : Nat, clicks : Nat, failures : Nat]

ClientInv == ServerOK /\ TabOK(tab, turns)

-----------------------------------------------------------------------------
(* Lemmas about the functions of the tab.                                  *)

(* From t to u nothing that was shown as decided is shown otherwise.       *)
ViewStays(t, u) == (u.session = t.session /\ u.shown = t.shown) \/ u.shown = {}

(* No load under way counts.                                               *)
NoLoads(t) == \A c \in t.calls : ~Loads(c)

(* A new call.                                                             *)
LEMMA CallType ==
  ASSUME NEW k \in CallKinds
  PROVE  /\ Call(k) \in CallRecords /\ Call(k).kind = k /\ Call(k).items = {}
         /\ ~Call(k).served /\ Call(k).session = None /\ Call(k).fresh
BY DEF Call, CallRecords

(* A call whose fields are set and that has not been handled.              *)
LEMMA UnservedIsOK ==
  ASSUME NEW c, NEW T, c.items = {}, ~c.served, c.kind # "sessions",
         c.kind \in {"messages", "restore", "create"} => c.session \in Sessions
  PROVE  CallOK(c, T)
BY DEF CallOK, Agree

(* Fields that are not about what is shown or asked.                       *)
LEMMA OthersKeep ==
  ASSUME NEW t, NEW T, TabOK(t, T), NEW u \in TabRecords,
         u.session = t.session, u.shown = t.shown, u.current = t.current,
         u.calls \subseteq t.calls
  PROVE  TabOK(u, T) /\ ViewStays(t, u)
BY Zenon DEF TabOK, ShownOK, LoadsOK, ViewStays

(* A view that was left shows nothing.                                     *)
LEMMA LeavingKeeps ==
  ASSUME NEW t, NEW T, TabOK(t, T), NEW u \in TabRecords,
         u.shown = {}, u.current = None, u.calls \subseteq t.calls
  PROVE  TabOK(u, T) /\ ViewStays(t, u)
BY Zenon DEF TabOK, ShownOK, LoadsOK, ViewStays, Agree

(* Calls that are outdated.                                                *)
LEMMA OutdateOK ==
  ASSUME NEW t, NEW T, TabOK(t, T), NEW kinds, NEW u, u = Outdate(t, kinds)
  PROVE  /\ TabOK(u, T) /\ ViewStays(t, u)
         /\ u = [t EXCEPT !.calls = u.calls]
         /\ u.session = t.session /\ u.shown = t.shown /\ u.current = t.current
         /\ "messages" \in kinds => NoLoads(u)
         /\ NoLoads(t) => NoLoads(u)
<1>1. ASSUME NEW c \in t.calls, NEW d, d = [c EXCEPT !.fresh = FALSE]
      PROVE  d \in CallRecords /\ CallOK(d, T) /\ ~Loads(d) /\ d.kind = c.kind
  <2>1. c \in CallRecords
        BY DEF TabOK, TabRecords
  <2>2. /\ d \in CallRecords /\ d.kind = c.kind /\ d.session = c.session /\ d.items = c.items
        /\ d.served = c.served /\ d.ok = c.ok /\ ~d.fresh
        BY <1>1, <2>1 DEF CallRecords
  <2>3. CallOK(c, T)
        BY DEF TabOK
  <2> QED BY <2>2, <2>3, Zenon DEF CallOK, Loads
<1>2. PICK C : C = {IF c.kind \in kinds THEN [c EXCEPT !.fresh = FALSE] ELSE c : c \in t.calls}
      OBVIOUS
<1>3. u = [t EXCEPT !.calls = C]
      BY <1>2, Zenon DEF Outdate
<1>4. ASSUME NEW d \in C
      PROVE  /\ d \in CallRecords /\ CallOK(d, T)
             /\ Loads(d) => d \in t.calls /\ d.kind \notin kinds
  <2>1. PICK c \in t.calls : d = IF c.kind \in kinds THEN [c EXCEPT !.fresh = FALSE] ELSE c
        BY <1>2, <1>4
  <2>2. c \in CallRecords /\ CallOK(c, T)
        BY DEF TabOK, TabRecords
  <2>3. CASE c.kind \in kinds
        BY <1>1, <2>1, <2>3
  <2>4. CASE c.kind \notin kinds
        BY <2>1, <2>2, <2>4
  <2> QED BY <2>3, <2>4
<1>5. /\ u \in TabRecords /\ u.calls = C /\ u.session = t.session /\ u.shown = t.shown
      /\ u.current = t.current
  <2>1. C \subseteq CallRecords
        BY <1>4
  <2> QED BY <1>3, <2>1 DEF TabOK, TabRecords
<1>6. TabOK(u, T)
      BY <1>4, <1>5, Zenon DEF TabOK, ShownOK, LoadsOK
<1>7. "messages" \in kinds => NoLoads(u)
      BY <1>4, <1>5 DEF NoLoads, Loads
<1>8. NoLoads(t) => NoLoads(u)
      BY <1>4, <1>5 DEF NoLoads
<1> QED BY <1>3, <1>5, <1>6, <1>7, <1>8 DEF ViewStays

(* A call that is sent.                                                    *)
LEMMA WithOK ==
  ASSUME NEW t, NEW T, TabOK(t, T), NEW c \in CallRecords, CallOK(c, T),
         Loads(c) => NoLoads(t) /\ c.items = {}, NEW u, u = With(t, c)
  PROVE  /\ TabOK(u, T) /\ ViewStays(t, u)
         /\ u.session = t.session /\ u.shown = t.shown /\ u.current = t.current
<1>1. /\ u \in TabRecords /\ u.calls = t.calls \cup {c} /\ u.session = t.session
      /\ u.shown = t.shown /\ u.current = t.current
      BY DEF With, TabOK, TabRecords
<1>2. \A d \in u.calls : CallOK(d, T)
      BY <1>1 DEF TabOK
<1>3. LoadsOK(u)
  <2>1. \A d, e \in u.calls : Loads(d) /\ Loads(e) => d = e
        BY <1>1 DEF TabOK, LoadsOK, NoLoads
  <2>2. Loads(c) => Agree(u.shown, c.items)
        BY DEF Agree
  <2>3. \A d \in u.calls : Loads(d) /\ d.session = u.session => Agree(u.shown, d.items)
        BY <1>1, <2>2 DEF TabOK, LoadsOK
  <2> QED BY <2>1, <2>3 DEF LoadsOK
<1>4. ShownOK(u, T)
      BY <1>1, Zenon DEF TabOK, ShownOK
<1> QED BY <1>1, <1>2, <1>3, <1>4 DEF TabOK, ViewStays

(* A load of messages.                                                     *)
LEMMA LoadingOK ==
  ASSUME NEW t, NEW T, TabOK(t, T), NEW c \in CallRecords, c.kind = "messages",
         c.session \in Sessions, c.items = {}, ~c.served, NEW u, u = Loading(t, c)
  PROVE  /\ TabOK(u, T) /\ ViewStays(t, u)
         /\ u.session = t.session /\ u.shown = t.shown /\ u.current = t.current
<1>1. PICK v : v = Outdate(t, {"messages"})
      OBVIOUS
<1>2. /\ TabOK(v, T) /\ NoLoads(v)
      /\ v.session = t.session /\ v.shown = t.shown /\ v.current = t.current
      BY <1>1, OutdateOK
<1>3. PICK w : w = [v EXCEPT !.loading = TRUE, !.error = FALSE]
      OBVIOUS
<1>4. /\ w \in TabRecords /\ w.session = v.session /\ w.shown = v.shown
      /\ w.current = v.current /\ w.calls = v.calls
      BY <1>2, <1>3 DEF TabOK, TabRecords
<1>5. TabOK(w, T) /\ NoLoads(w)
      BY <1>2, <1>4, OthersKeep DEF NoLoads
<1>6. u = With(w, c)
      BY <1>1, <1>3 DEF Loading, NextMessageSequence
<1>7. CallOK(c, T)
      BY UnservedIsOK
<1>8. /\ TabOK(u, T) /\ u.session = w.session /\ u.shown = w.shown /\ u.current = w.current
      BY <1>5, <1>6, <1>7, WithOK
<1> QED BY <1>2, <1>4, <1>8 DEF ViewStays

(* A load of a page of a session.                                          *)
LEMMA LoadMessagesOK ==
  ASSUME NEW t, NEW T, TabOK(t, T), NEW s \in Sessions, NEW p \in Nat,
         NEW u, u = LoadMessages(t, s, p)
  PROVE  /\ TabOK(u, T) /\ ViewStays(t, u)
         /\ u.session = t.session /\ u.shown = t.shown /\ u.current = t.current
<1>1. PICK c : c = Call("messages")
      OBVIOUS
<1>2. c \in CallRecords /\ c.kind = "messages" /\ c.items = {} /\ ~c.served
      BY <1>1, CallType DEF CallKinds
<1>3. PICK d : d = [c EXCEPT !.session = s, !.page = p]
      OBVIOUS
<1>4. /\ d \in CallRecords /\ d.kind = "messages" /\ d.items = {} /\ ~d.served
      /\ d.session = s
      BY <1>2, <1>3 DEF CallRecords
<1>5. u = Loading(t, d)
      BY <1>1, <1>3 DEF LoadMessages
<1> QED BY <1>4, <1>5, LoadingOK

(* The load at the end of a submission.                                    *)
LEMMA LoadSubmittedOK ==
  ASSUME NEW t, NEW T, TabOK(t, T), NEW c \in CallRecords, c.session \in Sessions,
         NEW u, u = LoadSubmitted(t, c)
  PROVE  /\ TabOK(u, T) /\ ViewStays(t, u)
         /\ u.session = t.session /\ u.shown = t.shown /\ u.current = t.current
<1>1. PICK b : b = Call("messages")
      OBVIOUS
<1>2. b \in CallRecords /\ b.kind = "messages" /\ b.items = {} /\ ~b.served
      BY <1>1, CallType DEF CallKinds
<1>3. PICK d : d = [b EXCEPT !.session = c.session, !.page = 1,
                       !.scope = c.scope, !.base = c.base, !.ends = TRUE]
      OBVIOUS
<1>4. /\ d \in CallRecords /\ d.kind = "messages" /\ d.items = {} /\ ~d.served
      /\ d.session = c.session
      BY <1>2, <1>3 DEF CallRecords
<1>5. u = Loading(t, d)
      BY <1>1, <1>3 DEF LoadSubmitted
<1> QED BY <1>4, <1>5, LoadingOK

(* A load of the sessions.                                                 *)
LEMMA LoadSessionsOK ==
  ASSUME NEW t, NEW T, TabOK(t, T), NEW u, u = LoadSessions(t)
  PROVE  /\ TabOK(u, T) /\ ViewStays(t, u)
         /\ u.session = t.session /\ u.shown = t.shown /\ u.current = t.current
<1>1. PICK v : v = Outdate(t, {"sessions"})
      OBVIOUS
<1>2. /\ TabOK(v, T) /\ v.session = t.session /\ v.shown = t.shown /\ v.current = t.current
      BY <1>1, OutdateOK
<1>3. PICK b : b = Call("sessions")
      OBVIOUS
<1>4. b \in CallRecords /\ b.kind = "sessions" /\ b.items = {} /\ ~b.served
      BY <1>3, CallType DEF CallKinds
<1>5. PICK c : c = [b EXCEPT !.base = t.base]
      OBVIOUS
<1>6. t.base \in Bases \cup {None}
      BY DEF TabOK, TabRecords
<1>7. c \in CallRecords /\ c.kind = "sessions" /\ c.items = {} /\ ~c.served
      BY <1>4, <1>5, <1>6 DEF CallRecords
<1>8. CallOK(c, T) /\ ~Loads(c)
      BY <1>7 DEF CallOK, Loads
<1>9. u = With(v, c)
      BY <1>1, <1>3, <1>5 DEF LoadSessions
<1> QED BY <1>2, <1>7, <1>8, <1>9, WithOK DEF ViewStays

(* Another session, or none.                                               *)
LEMMA ShowSessionOK ==
  ASSUME NEW t, NEW T, TabOK(t, T), NEW s \in Sessions \cup {None},
         NEW u, u = ShowSession(t, s)
  PROVE  TabOK(u, T) /\ ViewStays(t, u) /\ u.session = s
<1>1. CASE s = t.session
      BY <1>1 DEF ShowSession, ViewStays
<1>2. CASE s # t.session
  <2>1. PICK v : v = NewGeneration(t)
        OBVIOUS
  <2>2. TabOK(v, T)
        BY <2>1, OutdateOK DEF NewGeneration
  <2>3. PICK w : w = [v EXCEPT !.session = s, !.shown = {}, !.more = 0,
                               !.current = None, !.stream = "off"]
        OBVIOUS
  <2>4. /\ w \in TabRecords /\ w.session = s /\ w.shown = {} /\ w.current = None
        /\ w.calls = v.calls
        BY <2>2, <2>3 DEF TabOK, TabRecords
  <2>5. TabOK(w, T)
        BY <2>2, <2>4, LeavingKeeps
  <2>6. u = IF s = None THEN w ELSE LoadMessages(w, s, 1)
        BY <1>2, <2>1, <2>3 DEF ShowSession
  <2>7. CASE s = None
        BY <2>4, <2>5, <2>6, <2>7 DEF ViewStays
  <2>8. CASE s # None
    <3>1. u = LoadMessages(w, s, 1) /\ s \in Sessions /\ 1 \in Nat
          BY <2>6, <2>8
    <3>2. TabOK(u, T) /\ u.session = w.session /\ u.shown = w.shown
          BY <2>5, <3>1, LoadMessagesOK
    <3> QED BY <2>4, <3>2 DEF ViewStays
  <2> QED BY <2>7, <2>8
<1> QED BY <1>1, <1>2

(* Another knowledge base.                                                 *)
LEMMA ShowBaseOK ==
  ASSUME NEW t, NEW T, TabOK(t, T), NEW b \in Bases, NEW u, u = ShowBase(t, b)
  PROVE  TabOK(u, T) /\ ViewStays(t, u)
<1>1. PICK v : v = NewGeneration(t)
      OBVIOUS
<1>2. TabOK(v, T)
      BY <1>1, OutdateOK DEF NewGeneration
<1>3. PICK w : w = [v EXCEPT
        !.base = b, !.scope = {b}, !.session = None, !.known = {}, !.shown = {},
        !.loading = FALSE, !.error = FALSE, !.current = None, !.pending = None,
        !.submitting = FALSE, !.failed = FALSE, !.stream = "off"]
      OBVIOUS
<1>4. /\ w \in TabRecords /\ w.session = None /\ w.shown = {} /\ w.current = None
      /\ w.calls = v.calls
      BY <1>2, <1>3, ZenonT(40) DEF TabOK, TabRecords
<1>5. TabOK(w, T)
      BY <1>2, <1>4, LeavingKeeps
<1>6. u = LoadSessions(w)
      BY <1>1, <1>3 DEF ShowBase
<1>7. TabOK(u, T) /\ u.shown = w.shown
      BY <1>5, <1>6, LoadSessionsOK
<1> QED BY <1>4, <1>7 DEF ViewStays

(* A run is followed.                                                      *)
LEMMA FollowRunOK ==
  ASSUME NEW t, NEW T, TabOK(t, T), NEW run, Genuine(run, t.session, T),
         NEW u, u = FollowRun(t, run)
  PROVE  /\ TabOK(u, T) /\ ViewStays(t, u)
         /\ u.session = t.session /\ u.shown = t.shown
<1>1. run \in ShownTurns /\ run.session = t.session /\ run.session \in Sessions
      BY DEF Genuine, ShownTurns
<1>2. ASSUME NEW v \in TabRecords, v.session = t.session, v.shown = t.shown,
             v.current = run, v.calls = t.calls
      PROVE  TabOK(v, T)
      BY <1>2, Zenon DEF TabOK, ShownOK, LoadsOK
<1>3. CASE t.current = run
      BY <1>3 DEF FollowRun, ViewStays
<1>4. CASE t.current # run /\ run.done
  <2>1. PICK w : w = [t EXCEPT !.current = run]
        OBVIOUS
  <2>2. PICK v : v = [w EXCEPT !.stream = "off"]
        OBVIOUS
  <2>3. /\ w \in TabRecords /\ w.session = t.session /\ w.shown = t.shown
        /\ w.current = run /\ w.calls = t.calls
        BY <1>1, <2>1 DEF TabOK, TabRecords
  <2>4. /\ v \in TabRecords /\ v.session = t.session /\ v.shown = t.shown
        /\ v.current = run /\ v.calls = t.calls
        BY <2>2, <2>3 DEF TabRecords
  <2>5. TabOK(v, T)
        BY <1>2, <2>4
  <2>6. u = LoadMessages(v, run.session, 1) /\ 1 \in Nat
        BY <1>4, <2>1, <2>2 DEF FollowRun
  <2>7. TabOK(u, T) /\ u.session = v.session /\ u.shown = v.shown
        BY <1>1, <2>5, <2>6, LoadMessagesOK
  <2> QED BY <2>4, <2>7 DEF ViewStays
<1>5. CASE t.current # run /\ ~run.done
  <2>1. PICK w : w = [t EXCEPT !.current = run]
        OBVIOUS
  <2>2. PICK v : v = [w EXCEPT !.stream = "events"]
        OBVIOUS
  <2>3. /\ w \in TabRecords /\ w.session = t.session /\ w.shown = t.shown
        /\ w.current = run /\ w.calls = t.calls
        BY <1>1, <2>1 DEF TabOK, TabRecords
  <2>4. u = [v EXCEPT !.tries = 0]
        BY <1>5, <2>1, <2>2 DEF FollowRun
  <2>5. /\ v \in TabRecords /\ v.session = t.session /\ v.shown = t.shown
        /\ v.current = run /\ v.calls = t.calls
        BY <2>2, <2>3 DEF TabRecords
  <2>6. /\ u \in TabRecords /\ u.session = t.session /\ u.shown = t.shown
        /\ u.current = run /\ u.calls = t.calls
        BY <2>4, <2>5 DEF TabRecords
  <2> QED BY <1>2, <2>6 DEF ViewStays
<1> QED BY <1>3, <1>4, <1>5

(* A bounded set of naturals that is not empty has a greatest member.      *)
LEMMA GreatestNatural ==
  ASSUME NEW N \in Nat, NEW S, S \subseteq 1 .. N, S # {}
  PROVE  \E n \in S : \A m \in S : m <= n
<1>1. PICK D : D = {N - n : n \in S}
      OBVIOUS
<1>2. D \subseteq Nat /\ D # {}
  <2>1. \A n \in S : n \in 1 .. N /\ N - n \in Nat
        OBVIOUS
  <2>2. \A d \in D : \E n \in S : d = N - n
        BY <1>1
  <2>3. PICK n : n \in S
        OBVIOUS
  <2>4. N - n \in D
        BY <1>1, <2>3
  <2> QED BY <2>1, <2>2, <2>4
<1>3. PICK d \in D : \A e \in D : ~ (<<e, d>> \in OpToRel(<, Nat))
      BY <1>2, WFMin, NatLessThanWellFounded
<1>4. \A e \in D : ~ (e < d)
      BY <1>2, <1>3, Zenon DEF OpToRel
<1>5. PICK n \in S : d = N - n
      BY <1>1, <1>3
<1>6. ASSUME NEW m \in S PROVE m <= n
  <2>1. N - m \in D
        BY <1>1
  <2>2. ~ (N - m < N - n)
        BY <1>4, <1>5, <2>1
  <2> QED BY <2>2
<1> QED BY <1>6

(* A turn that is shown as generating is taken up.                         *)
LEMMA RestoreOK ==
  ASSUME NEW t, NEW T \in TurnLists, TabOK(t, T), NEW u, u = Restore(t)
  PROVE  /\ TabOK(u, T) /\ ViewStays(t, u)
         /\ u.session = t.session /\ u.shown = t.shown
<1>1. PICK open : open = {m.turn : m \in {x \in t.shown : ~x.done}}
      OBVIOUS
<1>2. CASE t.session = None \/ t.current # None \/ t.loading \/ open = {}
  <2>1. u = t
        BY <1>1, <1>2 DEF Restore
  <2> QED BY <2>1 DEF ViewStays
<1>3. CASE ~(t.session = None \/ t.current # None \/ t.loading \/ open = {})
  <2>1. PICK N : N = Len(T[t.session])
        OBVIOUS
  <2>2. t.session \in Sessions
        BY <1>3 DEF TabOK, TabRecords
  <2>3. T[t.session] \in Seq(TurnRecords)
        BY <2>2 DEF TurnLists
  <2>4. N \in Nat /\ DOMAIN T[t.session] = 1 .. N
        BY <2>1, <2>3
  <2>5. open \subseteq 1 .. N
        BY <1>1, <2>4 DEF TabOK, ShownOK, Genuine
  <2>6. \E n \in open : \A m \in open : m <= n
        BY <1>3, <2>4, <2>5, GreatestNatural
  <2>7. PICK n : n = CHOOSE k \in open : \A m \in open : m <= k
        OBVIOUS
  <2>8. n \in Nat
    <3>1. n \in open
          BY <2>6, <2>7, Zenon
    <3>2. n \in 1 .. N
          BY <2>5, <3>1, Zenon
    <3>3. N \in Nat
          BY <2>4
    <3> QED BY <3>2, <3>3
  <2>9. PICK b : b = Call("restore")
        OBVIOUS
  <2>10. b \in CallRecords /\ b.kind = "restore" /\ b.items = {} /\ ~b.served
        BY <2>9, CallType DEF CallKinds
  <2>11. PICK c : c = [b EXCEPT !.session = t.session, !.turn = n]
        OBVIOUS
  <2>12. /\ c \in CallRecords /\ c.kind = "restore" /\ c.items = {} /\ ~c.served
         /\ c.session = t.session
        BY <2>2, <2>8, <2>10, <2>11 DEF CallRecords
  <2>13. CallOK(c, T) /\ ~Loads(c)
        BY <2>2, <2>12, UnservedIsOK DEF Loads
  <2>14. u = With(t, c)
        BY <1>1, <1>3, <2>7, <2>9, <2>11, Zenon DEF Restore
  <2> QED BY <2>12, <2>13, <2>14, WithOK
<1> QED BY <1>2, <1>3

(* A question is sent.                                                     *)
LEMMA CreateRunOK ==
  ASSUME NEW t, NEW T, TabOK(t, T), NEW outer \in Bases \cup {None},
         NEW p \in [session : Sessions, scope : SUBSET Bases, key : Nat],
         NEW u, u = CreateRun(t, p, outer)
  PROVE  TabOK(u, T) /\ ViewStays(t, u) /\ u.session = t.session
<1>1. PICK w : w = [t EXCEPT !.submitting = TRUE, !.failed = FALSE, !.pending = p]
      OBVIOUS
<1>2. /\ w \in TabRecords /\ w.session = t.session /\ w.shown = t.shown
      /\ w.current = t.current /\ w.calls = t.calls
      BY <1>1 DEF TabOK, TabRecords
<1>3. TabOK(w, T)
      BY <1>2, OthersKeep
<1>4. PICK b : b = Call("create")
      OBVIOUS
<1>5. b \in CallRecords /\ b.kind = "create" /\ b.items = {} /\ ~b.served
      BY <1>4, CallType DEF CallKinds
<1>6. PICK c : c = [b EXCEPT !.session = p.session, !.scope = p.scope,
                             !.key = p.key, !.base = outer]
      OBVIOUS
<1>7. /\ c \in CallRecords /\ c.kind = "create" /\ c.items = {} /\ ~c.served
      /\ c.session \in Sessions
      BY <1>5, <1>6 DEF CallRecords
<1>8. CallOK(c, T) /\ ~Loads(c)
      BY <1>7, UnservedIsOK DEF Loads
<1>9. u = With(w, c)
      BY <1>1, <1>4, <1>6 DEF CreateRun
<1>10. TabOK(u, T) /\ u.session = w.session /\ u.shown = w.shown
      BY <1>3, <1>7, <1>8, <1>9, WithOK
<1> QED BY <1>2, <1>10 DEF ViewStays

(* The end of a submission.                                                *)
LEMMA SubmittedOK ==
  ASSUME NEW t, NEW T, TabOK(t, T), NEW u, u \in {t, [t EXCEPT !.submitting = FALSE]}
  PROVE  /\ TabOK(u, T) /\ ViewStays(t, u)
         /\ u.session = t.session /\ u.shown = t.shown /\ u.current = t.current
         /\ u.calls = t.calls
<1>1. CASE u = t
      BY <1>1 DEF ViewStays
<1>2. CASE u = [t EXCEPT !.submitting = FALSE]
  <2>1. /\ u \in TabRecords /\ u.session = t.session /\ u.shown = t.shown
        /\ u.current = t.current /\ u.calls = t.calls
        BY <1>2 DEF TabOK, TabRecords
  <2> QED BY <2>1, OthersKeep
<1> QED BY <1>1, <1>2

(* A call is taken off.                                                    *)
LEMMA WithoutOK ==
  ASSUME NEW t, NEW T, TabOK(t, T), NEW c, NEW u, u = [t EXCEPT !.calls = t.calls \ {c}]
  PROVE  /\ TabOK(u, T) /\ ViewStays(t, u)
         /\ u.session = t.session /\ u.shown = t.shown /\ u.current = t.current
         /\ u.calls = t.calls \ {c}
<1>1. /\ u \in TabRecords /\ u.session = t.session /\ u.shown = t.shown
      /\ u.current = t.current /\ u.calls = t.calls \ {c}
      BY DEF TabOK, TabRecords
<1> QED BY <1>1, OthersKeep

-----------------------------------------------------------------------------
(* The user.                                                               *)

(* One function of the tab after another.                                  *)
LEMMA ViewStaysOn ==
  ASSUME NEW t, NEW u, NEW v, ViewStays(t, u), ViewStays(u, v)
  PROVE  ViewStays(t, v)
BY DEF ViewStays

(* A base is chosen.                                                       *)
LEMMA BaseStep ==
  ASSUME ClientInv, NEW b \in Bases, ChooseKnowledgeBase(b) \/ MoveKnowledgeBase(b)
  PROVE  TabOK(tab', turns) /\ ViewStays(tab, tab')
<1>1. PICK t, T, u : t = tab /\ T = turns /\ u = tab'
      OBVIOUS
<1>2. TabOK(t, T)
      BY <1>1 DEF ClientInv
<1>3. u = ShowBase(t, b)
      BY <1>1 DEF ChooseKnowledgeBase, MoveKnowledgeBase
<1>4. TabOK(u, T) /\ ViewStays(t, u)
      BY <1>2, <1>3, ShowBaseOK
<1> QED BY <1>1, <1>4

(* A session is chosen.                                                    *)
LEMMA ChooseSessionStep ==
  ASSUME ClientInv, NEW k \in tab.known, ChooseSession(k)
  PROVE  TabOK(tab', turns) /\ ViewStays(tab, tab')
<1>1. PICK t, T, u : t = tab /\ T = turns /\ u = tab'
      OBVIOUS
<1>2. TabOK(t, T) /\ k \in t.known
      BY <1>1 DEF ClientInv
<1>3. k \in Headers
      BY <1>2 DEF TabOK, TabRecords
<1>4. PICK w : w = [t EXCEPT !.scope = k.scope]
      OBVIOUS
<1>5. u = ShowSession(w, k.session)
      BY <1>1, <1>4 DEF ChooseSession
<1>6. /\ w \in TabRecords /\ w.session = t.session /\ w.shown = t.shown
      /\ w.current = t.current /\ w.calls = t.calls
      BY <1>2, <1>3, <1>4 DEF TabOK, TabRecords, Headers
<1>7. TabOK(w, T) /\ ViewStays(t, w)
      BY <1>2, <1>6, OthersKeep
<1>8. k.session \in Sessions \cup {None}
      BY <1>3 DEF Headers
<1>9. TabOK(u, T) /\ ViewStays(w, u)
      BY <1>5, <1>7, <1>8, ShowSessionOK
<1>10. ViewStays(t, u)
      BY <1>7, <1>9, ViewStaysOn
<1> QED BY <1>1, <1>9, <1>10

(* A new conversation is begun.                                            *)
LEMMA BeginStep ==
  ASSUME ClientInv, BeginNewConversation
  PROVE  TabOK(tab', turns) /\ ViewStays(tab, tab')
<1>1. PICK t, T, u : t = tab /\ T = turns /\ u = tab'
      OBVIOUS
<1>2. TabOK(t, T)
      BY <1>1 DEF ClientInv
<1>3. PICK w : w = [t EXCEPT !.failed = FALSE]
      OBVIOUS
<1>4. u = ShowSession(w, None)
      BY <1>1, <1>3 DEF BeginNewConversation
<1>5. /\ w \in TabRecords /\ w.session = t.session /\ w.shown = t.shown
      /\ w.current = t.current /\ w.calls = t.calls
      BY <1>2, <1>3 DEF TabOK, TabRecords
<1>6. TabOK(w, T) /\ ViewStays(t, w)
      BY <1>2, <1>5, OthersKeep
<1>7. TabOK(u, T) /\ ViewStays(w, u)
      BY <1>4, <1>6, ShowSessionOK
<1>8. ViewStays(t, u)
      BY <1>6, <1>7, ViewStaysOn
<1> QED BY <1>1, <1>7, <1>8

(* The scope is changed.                                                   *)
LEMMA ChangeScopeStep ==
  ASSUME ClientInv, NEW S \in SUBSET Bases, ChangeScope(S)
  PROVE  TabOK(tab', turns) /\ ViewStays(tab, tab')
<1>1. PICK t, T, u : t = tab /\ T = turns /\ u = tab'
      OBVIOUS
<1>2. TabOK(t, T)
      BY <1>1 DEF ClientInv
<1>3. PICK w : w = [t EXCEPT !.scope = S, !.failed = FALSE]
      OBVIOUS
<1>4. PICK v : v = [w EXCEPT !.saving = TRUE]
      OBVIOUS
<1>5. PICK b : b = Call("scope")
      OBVIOUS
<1>6. PICK c : c = [b EXCEPT !.session = t.session, !.scope = S, !.before = t.scope]
      OBVIOUS
<1>7. u = IF t.session = None \/ S = {} THEN w ELSE With(v, c)
      BY <1>1, <1>3, <1>4, <1>5, <1>6 DEF ChangeScope
<1>8. /\ w \in TabRecords /\ w.session = t.session /\ w.shown = t.shown
      /\ w.current = t.current /\ w.calls = t.calls
      BY <1>2, <1>3 DEF TabOK, TabRecords
<1>9. /\ v \in TabRecords /\ v.session = t.session /\ v.shown = t.shown
      /\ v.current = t.current /\ v.calls = t.calls
      BY <1>4, <1>8 DEF TabRecords
<1>10. TabOK(w, T) /\ ViewStays(t, w) /\ TabOK(v, T) /\ ViewStays(t, v)
      BY <1>2, <1>8, <1>9, OthersKeep
<1>11. b \in CallRecords /\ b.kind = "scope" /\ b.items = {} /\ ~b.served
      BY <1>5, CallType DEF CallKinds
<1>12. t.session \in Sessions \cup {None} /\ t.scope \in SUBSET Bases
      BY <1>2 DEF TabOK, TabRecords
<1>13. c \in CallRecords /\ c.kind = "scope" /\ c.items = {} /\ ~c.served
      BY <1>6, <1>11, <1>12 DEF CallRecords
<1>14. CallOK(c, T) /\ ~Loads(c)
      BY <1>13, UnservedIsOK DEF Loads
<1>15. PICK x : x = With(v, c)
      OBVIOUS
<1>16. TabOK(x, T) /\ ViewStays(v, x)
      BY <1>10, <1>13, <1>14, <1>15, WithOK
<1>17. ViewStays(t, x)
      BY <1>10, <1>16, ViewStaysOn
<1> QED BY <1>1, <1>7, <1>10, <1>15, <1>16, <1>17

(* All bases are selected.                                                 *)
LEMMA SelectAllStep ==
  ASSUME ClientInv, SelectAllScopes
  PROVE  TabOK(tab', turns) /\ ViewStays(tab, tab')
<1>1. PICK t, T, u : t = tab /\ T = turns /\ u = tab'
      OBVIOUS
<1>2. TabOK(t, T)
      BY <1>1 DEF ClientInv
<1>3. PICK w : w = [t EXCEPT !.saving = TRUE]
      OBVIOUS
<1>4. PICK b : b = Call("all")
      OBVIOUS
<1>5. PICK c : c = [b EXCEPT !.session = t.session, !.scope = Bases]
      OBVIOUS
<1>6. u = With(w, c)
      BY <1>1, <1>3, <1>4, <1>5 DEF SelectAllScopes
<1>7. /\ w \in TabRecords /\ w.session = t.session /\ w.shown = t.shown
      /\ w.current = t.current /\ w.calls = t.calls
      BY <1>2, <1>3 DEF TabOK, TabRecords
<1>8. TabOK(w, T) /\ ViewStays(t, w)
      BY <1>2, <1>7, OthersKeep
<1>9. b \in CallRecords /\ b.kind = "all" /\ b.items = {} /\ ~b.served
      BY <1>4, CallType DEF CallKinds
<1>10. t.session \in Sessions \cup {None}
      BY <1>2 DEF TabOK, TabRecords
<1>11. c \in CallRecords /\ c.kind = "all" /\ c.items = {} /\ ~c.served
      BY <1>5, <1>9, <1>10 DEF CallRecords
<1>12. CallOK(c, T) /\ ~Loads(c)
      BY <1>11, UnservedIsOK DEF Loads
<1>13. TabOK(u, T) /\ ViewStays(w, u)
      BY <1>6, <1>8, <1>11, <1>12, WithOK
<1>14. ViewStays(t, u)
      BY <1>8, <1>13, ViewStaysOn
<1> QED BY <1>1, <1>13, <1>14

(* Messages or sessions are asked for again.                               *)
LEMMA LoadStep ==
  ASSUME ClientInv, LoadEarlier \/ RetryMessages \/ RetrySessions
  PROVE  TabOK(tab', turns) /\ ViewStays(tab, tab')
<1>1. PICK t, T, u : t = tab /\ T = turns /\ u = tab'
      OBVIOUS
<1>2. TabOK(t, T)
      BY <1>1 DEF ClientInv
<1>3. CASE LoadEarlier
  <2>1. u = LoadMessages(t, t.session, t.more) /\ t.session # None
        BY <1>1, <1>3 DEF LoadEarlier
  <2>2. t.session \in Sessions /\ t.more \in Nat
        BY <1>2, <2>1 DEF TabOK, TabRecords
  <2>3. TabOK(u, T) /\ ViewStays(t, u)
        BY <1>2, <2>1, <2>2, LoadMessagesOK
  <2> QED BY <1>1, <2>3
<1>4. CASE RetryMessages
  <2>1. u = LoadMessages(t, t.session, 1) /\ t.shown # {} /\ 1 \in Nat
        BY <1>1, <1>4 DEF RetryMessages
  <2>2. t.session \in Sessions
        BY <1>2, <2>1 DEF TabOK, ShownOK, Genuine, ShownTurns
  <2>3. TabOK(u, T) /\ ViewStays(t, u)
        BY <1>2, <2>1, <2>2, LoadMessagesOK
  <2> QED BY <1>1, <2>3
<1>5. CASE RetrySessions
  <2>1. u = LoadSessions(t)
        BY <1>1, <1>5 DEF RetrySessions
  <2>2. TabOK(u, T) /\ ViewStays(t, u)
        BY <1>2, <2>1, LoadSessionsOK
  <2> QED BY <1>1, <2>2
<1> QED BY <1>3, <1>4, <1>5

(* A question is asked, or asked again.                                    *)
LEMMA AskStep ==
  ASSUME ClientInv, Submit \/ RetryRun
  PROVE  TabOK(tab', turns) /\ ViewStays(tab, tab')
<1>1. PICK t, T, u : t = tab /\ T = turns /\ u = tab'
      OBVIOUS
<1>2. TabOK(t, T)
      BY <1>1 DEF ClientInv
<1>3. PICK key : key = budget.questions
      OBVIOUS
<1>4. key \in Nat
      BY <1>3 DEF ClientInv, ServerOK
<1>5. /\ t.base \in Bases \cup {None} /\ t.session \in Sessions \cup {None}
      /\ t.scope \in SUBSET Bases
      /\ t.pending \in [session : Sessions, scope : SUBSET Bases, key : Nat] \cup {None}
      BY <1>2 DEF TabOK, TabRecords
<1>6. CASE Submit /\ t.session = None
  <2>1. PICK w : w = [t EXCEPT !.submitting = TRUE, !.failed = FALSE]
        OBVIOUS
  <2>2. PICK b : b = Call("open")
        OBVIOUS
  <2>3. PICK c : c = [b EXCEPT !.base = t.base, !.scope = t.scope, !.key = key]
        OBVIOUS
  <2>4. u = With(w, c)
        BY <1>1, <1>3, <1>6, <2>1, <2>2, <2>3 DEF Submit
  <2>5. /\ w \in TabRecords /\ w.session = t.session /\ w.shown = t.shown
        /\ w.current = t.current /\ w.calls = t.calls
        BY <1>2, <2>1 DEF TabOK, TabRecords
  <2>6. TabOK(w, T) /\ ViewStays(t, w)
        BY <1>2, <2>5, OthersKeep
  <2>7. b \in CallRecords /\ b.kind = "open" /\ b.items = {} /\ ~b.served
        BY <2>2, CallType DEF CallKinds
  <2>8. c \in CallRecords /\ c.kind = "open" /\ c.items = {} /\ ~c.served
        BY <1>4, <1>5, <2>3, <2>7 DEF CallRecords
  <2>9. CallOK(c, T) /\ ~Loads(c)
        BY <2>8, UnservedIsOK DEF Loads
  <2>10. TabOK(u, T) /\ ViewStays(w, u)
        BY <2>4, <2>6, <2>8, <2>9, WithOK
  <2>11. ViewStays(t, u)
        BY <2>6, <2>10, ViewStaysOn
  <2> QED BY <1>1, <2>10, <2>11
<1>7. CASE Submit /\ t.session # None
  <2>1. PICK p : p = [session |-> t.session, scope |-> t.scope, key |-> key]
        OBVIOUS
  <2>2. p \in [session : Sessions, scope : SUBSET Bases, key : Nat]
        BY <1>4, <1>5, <1>7, <2>1
  <2>3. u = CreateRun(t, p, t.base)
        BY <1>1, <1>3, <1>7, <2>1 DEF Submit
  <2>4. TabOK(u, T) /\ ViewStays(t, u)
        BY <1>2, <1>5, <2>2, <2>3, CreateRunOK
  <2> QED BY <1>1, <2>4
<1>8. CASE RetryRun
  <2>1. u = CreateRun(t, t.pending, None) /\ t.pending # None
        BY <1>1, <1>8 DEF RetryRun
  <2>2. None \in Bases \cup {None}
        OBVIOUS
  <2>3. TabOK(u, T) /\ ViewStays(t, u)
        BY <1>2, <1>5, <2>1, <2>2, CreateRunOK
  <2> QED BY <1>1, <2>3
<1> QED BY <1>6, <1>7, <1>8

(* A failed request is given up; the event stream breaks and is reopened.  *)
LEMMA OtherStep ==
  ASSUME ClientInv, ChangeOptions \/ StreamBreaks \/ Reconnect
  PROVE  TabOK(tab', turns) /\ ViewStays(tab, tab')
<1>1. PICK t, T, u : t = tab /\ T = turns /\ u = tab'
      OBVIOUS
<1>2. TabOK(t, T)
      BY <1>1 DEF ClientInv
<1>3. \/ u = [t EXCEPT !.pending = None, !.failed = FALSE]
      \/ u = [t EXCEPT !.stream = "polling"]
      \/ u = [t EXCEPT !.stream = "both", !.tries = t.tries + 1]
      BY <1>1 DEF ChangeOptions, StreamBreaks, Reconnect
<1>4. /\ u \in TabRecords /\ u.session = t.session /\ u.shown = t.shown
      /\ u.current = t.current /\ u.calls = t.calls
  <2>1. CASE u = [t EXCEPT !.pending = None, !.failed = FALSE]
        BY <1>2, <2>1 DEF TabOK, TabRecords
  <2>2. CASE u = [t EXCEPT !.stream = "polling"]
        BY <1>2, <2>2 DEF TabOK, TabRecords
  <2>3. CASE u = [t EXCEPT !.stream = "both", !.tries = t.tries + 1]
    <3>1. PICK n : n = t.tries + 1
          OBVIOUS
    <3>2. PICK v : v = [t EXCEPT !.stream = "both"]
          OBVIOUS
    <3>3. u = [v EXCEPT !.tries = n]
          BY <2>3, <3>1, <3>2
    <3>4. n \in Nat
          BY <1>2, <3>1 DEF TabOK, TabRecords
    <3>5. /\ v \in TabRecords /\ v.session = t.session /\ v.shown = t.shown
          /\ v.current = t.current /\ v.calls = t.calls
          BY <1>2, <3>2 DEF TabOK, TabRecords
    <3> QED BY <3>3, <3>4, <3>5 DEF TabRecords
  <2> QED BY <1>3, <2>1, <2>2, <2>3
<1>5. TabOK(u, T) /\ ViewStays(t, u)
      BY <1>2, <1>4, OthersKeep
<1> QED BY <1>1, <1>5

(* The end of a run is seen.                                               *)
LEMMA WatchStep ==
  ASSUME ClientInv, StreamSettles \/ Poll
  PROVE  TabOK(tab', turns) /\ ViewStays(tab, tab')
<1>1. PICK t, T, u, run : t = tab /\ T = turns /\ u = tab' /\ run = Watched
      OBVIOUS
<1>2. TabOK(t, T)
      BY <1>1 DEF ClientInv
<1>3. u = FollowRun(t, run) /\ t.current # None /\ T[t.current.session][t.current.turn].done
      BY <1>1 DEF StreamSettles, Poll, PollSeesTheEnd, TerminalKnown
<1>4. run = [session |-> t.current.session, turn |-> t.current.turn, done |-> TRUE]
      BY <1>1 DEF Watched
<1>5. Genuine(t.current, t.session, T)
      BY <1>2, <1>3 DEF TabOK, ShownOK
<1>6. Genuine(run, t.session, T)
      BY <1>3, <1>4, <1>5 DEF Genuine, ShownTurns
<1>7. TabOK(u, T) /\ ViewStays(t, u)
      BY <1>2, <1>3, <1>6, FollowRunOK
<1> QED BY <1>1, <1>7

-----------------------------------------------------------------------------
(* The server.                                                             *)

(* Turns are added and decided, nothing else becomes of them.              *)
Grows(T, U) ==
  \A s \in Sessions : \A n \in DOMAIN T[s] :
    n \in DOMAIN U[s] /\ (T[s][n].done => U[s][n].done)

(* What was genuine stays so.                                              *)
LEMMA StaysGenuine ==
  ASSUME NEW T, NEW U, Grows(T, U), NEW s, NEW m, Genuine(m, s, T)
  PROVE  Genuine(m, s, U)
BY DEF Genuine, ShownTurns, Grows

(* So what a call carries does.                                            *)
LEMMA CallStaysOK ==
  ASSUME NEW T, NEW U, Grows(T, U), NEW c, CallOK(c, T)
  PROVE  CallOK(c, U)
<1>1. ASSUME NEW m, Genuine(m, c.session, T) PROVE Genuine(m, c.session, U)
      BY <1>1, StaysGenuine
<1> QED BY <1>1, Zenon DEF CallOK

(* So does the tab.                                                        *)
LEMMA TabStaysOK ==
  ASSUME NEW T, NEW U, Grows(T, U), NEW t, TabOK(t, T)
  PROVE  TabOK(t, U)
<1>1. \A c \in t.calls : CallOK(c, U)
      BY CallStaysOK DEF TabOK
<1>2. ShownOK(t, U)
  <2>1. ASSUME NEW m, Genuine(m, t.session, T) PROVE Genuine(m, t.session, U)
        BY <2>1, StaysGenuine
  <2> QED BY <2>1, Zenon DEF TabOK, ShownOK
<1> QED BY <1>1, <1>2, Zenon DEF TabOK

(* The turns of a session are genuine, and read once each.                 *)
LEMMA StoredAreGenuine ==
  ASSUME NEW T, T = turns, T \in TurnLists, NEW s \in Sessions
  PROVE  /\ \A m \in Stored(s) : Genuine(m, s, T)
         /\ \A m \in Stored(s) : m.done = T[s][m.turn].done
<1>1. T[s] \in Seq(TurnRecords)
      BY DEF TurnLists
<1>2. ASSUME NEW n \in DOMAIN T[s]
      PROVE  n \in Nat /\ T[s][n].done \in BOOLEAN
  <2>1. n \in Nat /\ T[s][n] \in TurnRecords
        BY <1>1
  <2> QED BY <2>1 DEF TurnRecords
<1>3. ASSUME NEW m \in Stored(s)
      PROVE  Genuine(m, s, T) /\ m.done = T[s][m.turn].done
  <2>1. PICK n \in DOMAIN T[s] : m = [session |-> s, turn |-> n, done |-> T[s][n].done]
        BY <1>3 DEF Stored
  <2>2. PICK b \in BOOLEAN : b = T[s][n].done
        BY <1>2
  <2>3. m = [session |-> s, turn |-> n, done |-> b]
        BY <2>1, <2>2
  <2>4. m \in ShownTurns /\ m.session = s /\ m.turn = n /\ m.done = b
        BY <1>2, <2>3 DEF ShownTurns
  <2>5. m.done = T[s][m.turn].done
        BY <2>2, <2>4, Zenon
  <2> QED BY <2>4, <2>5 DEF Genuine
<1> QED BY <1>3

(* They are as new as anything that is shown.                              *)
LEMMA StoredAreNew ==
  ASSUME NEW T, T = turns, T \in TurnLists, NEW s \in Sessions,
         NEW X, \A m \in X : Genuine(m, s, T)
  PROVE  Agree(X, Stored(s))
BY StoredAreGenuine DEF Agree, Genuine

(* A call is answered.                                                     *)
LEMMA AnswerOK ==
  ASSUME NEW t, NEW T, TabOK(t, T), NEW c \in t.calls, NEW d \in CallRecords,
         CallOK(d, T), d.kind = c.kind, d.fresh = c.fresh,
         d.kind = "messages" /\ d.session = t.session => Agree(t.shown, d.items),
         NEW u, u = [t EXCEPT !.calls = (t.calls \ {c}) \cup {d}]
  PROVE  TabOK(u, T) /\ ViewStays(t, u)
<1>1. /\ u \in TabRecords /\ u.session = t.session /\ u.shown = t.shown
      /\ u.current = t.current /\ u.calls = (t.calls \ {c}) \cup {d}
      BY DEF TabOK, TabRecords
<1>2. \A e \in u.calls : CallOK(e, T)
      BY <1>1 DEF TabOK
<1>3. Loads(d) => Loads(c)
      BY DEF Loads
<1>4. \A e, f \in u.calls : Loads(e) /\ Loads(f) => e = f
      BY <1>1, <1>3 DEF TabOK, LoadsOK
<1>5. \A e \in u.calls : Loads(e) /\ e.session = u.session => Agree(u.shown, e.items)
      BY <1>1 DEF TabOK, LoadsOK, Loads
<1>6. LoadsOK(u)
      BY <1>4, <1>5 DEF LoadsOK
<1>7. ShownOK(u, T)
      BY <1>1, Zenon DEF TabOK, ShownOK
<1> QED BY <1>1, <1>2, <1>6, <1>7 DEF TabOK, ViewStays

(* A call that was handled.                                                *)
LEMMA DoneType ==
  ASSUME NEW c \in CallRecords, NEW d, d = Done(c)
  PROVE  /\ d \in CallRecords /\ d.kind = c.kind /\ d.fresh = c.fresh /\ d.items = c.items
         /\ d.session = c.session /\ d.served /\ d.ok = c.ok /\ d.scope = c.scope
BY DEF Done, CallRecords

(* Sessions or messages are read.                                          *)
LEMMA ReadStep ==
  ASSUME ClientInv, NEW c \in tab.calls, Read(c)
  PROVE  TabOK(tab', turns) /\ ViewStays(tab, tab')
<1>1. PICK t, T, u : t = tab /\ T = turns /\ u = tab'
      OBVIOUS
<1>2. TabOK(t, T) /\ T \in TurnLists /\ c \in t.calls
      BY <1>1 DEF ClientInv, ServerOK
<1>3. c \in CallRecords /\ CallOK(c, T)
      BY <1>2 DEF TabOK, TabRecords
<1>4. PICK headers : headers = {[session |-> s, scope |-> scopes[s]] :
                                  s \in {x \in Sessions : c.base \in scopes[x]}}
      OBVIOUS
<1>5. PICK once : once = {m \in Stored(c.session) : m.turn = c.turn}
      OBVIOUS
<1>6. PICK items : items = CASE c.kind = "sessions" -> headers
                             [] c.kind = "messages" -> MessagePage(c)
                             [] c.kind = "restore"  -> once
      OBVIOUS
<1>7. PICK ok \in BOOLEAN :
        ok = (c.kind = "messages" => Len(turns[c.session]) > c.page * PageSize)
      OBVIOUS
<1>8. PICK d : d = Done(c)
      OBVIOUS
<1>9. PICK e : e = [d EXCEPT !.items = items, !.ok = ok]
      OBVIOUS
<1>10. u = [t EXCEPT !.calls = (t.calls \ {c}) \cup {e}] /\ c.kind \in {"sessions", "messages", "restore"}
  <2>1. Answer(c, [Done(c) EXCEPT !.items =
       CASE c.kind = "sessions" -> {[session |-> s, scope |-> scopes[s]] :
                                      s \in {x \in Sessions : c.base \in scopes[x]}}
         [] c.kind = "messages" -> MessagePage(c)
         [] c.kind = "restore"  -> {m \in Stored(c.session) : m.turn = c.turn},
       !.ok = c.kind = "messages" => Len(turns[c.session]) > c.page * PageSize])
        BY Zenon DEF Read
  <2>2. Answer(c, [Done(c) EXCEPT !.items = items,
       !.ok = c.kind = "messages" => Len(turns[c.session]) > c.page * PageSize])
        BY <1>4, <1>5, <1>6, <2>1, Zenon
  <2>3. Answer(c, e)
        BY <1>7, <1>8, <1>9, <2>2, Zenon
  <2>4. c.kind \in {"sessions", "messages", "restore"}
        BY DEF Read
  <2> QED BY <1>1, <2>3, <2>4 DEF Answer
<1>11. /\ d \in CallRecords /\ d.kind = c.kind /\ d.fresh = c.fresh
       /\ d.session = c.session
       BY <1>3, <1>8, DoneType
<1>12. ASSUME items \in SUBSET (ShownTurns \cup Headers)
       PROVE  /\ e \in CallRecords /\ e.kind = c.kind /\ e.fresh = c.fresh
              /\ e.session = c.session /\ e.items = items
       BY <1>7, <1>9, <1>11, <1>12 DEF CallRecords
<1>13. CASE c.kind = "sessions"
  <2>1. items = headers
        BY <1>6, <1>13
  <2>2. headers \subseteq Headers
        BY <1>4 DEF ClientInv, ServerOK, Headers
  <2>3. e \in CallRecords /\ e.kind = "sessions" /\ e.fresh = c.fresh /\ e.items \subseteq Headers
        BY <1>12, <1>13, <2>1, <2>2
  <2>4. CallOK(e, T)
        BY <2>3 DEF CallOK
  <2>5. TabOK(u, T) /\ ViewStays(t, u)
        BY <1>2, <1>10, <1>13, <2>3, <2>4, AnswerOK
  <2> QED BY <1>1, <2>5
<1>14. CASE c.kind \in {"messages", "restore"}
  <2>1. c.session \in Sessions
        BY <1>3, <1>14 DEF CallOK
  <2>2. items \subseteq Stored(c.session)
        BY <1>5, <1>6, <1>14 DEF MessagePage
  <2>3. \A m \in items : Genuine(m, c.session, T)
        BY <1>1, <1>2, <2>1, <2>2, StoredAreGenuine
  <2>4. items \in SUBSET (ShownTurns \cup Headers)
        BY <2>3 DEF Genuine
  <2>5. /\ e \in CallRecords /\ e.kind = c.kind /\ e.fresh = c.fresh
        /\ e.session = c.session /\ e.items = items
        BY <1>12, <2>4
  <2>6. ASSUME NEW X, \A m \in X : Genuine(m, c.session, T)
        PROVE  Agree(X, items)
    <3>1. Agree(X, Stored(c.session))
          BY <1>1, <1>2, <2>1, <2>6, StoredAreNew
    <3> QED BY <2>2, <3>1 DEF Agree
  <2>7. CallOK(e, T)
    <3>1. Agree(items, items)
          BY <2>3, <2>6
    <3> QED BY <1>14, <2>1, <2>3, <2>5, <3>1, Zenon DEF CallOK
  <2>8. e.session = t.session => Agree(t.shown, e.items)
        BY <1>2, <2>5, <2>6 DEF TabOK, ShownOK
  <2>9. TabOK(u, T) /\ ViewStays(t, u)
        BY <1>2, <1>10, <2>5, <2>7, <2>8, AnswerOK
  <2> QED BY <1>1, <2>9
<1> QED BY <1>10, <1>13, <1>14

(* A scope is stored, a session opened.                                    *)
LEMMA StoreStep ==
  ASSUME ClientInv, NEW c \in tab.calls, Store(c) \/ OpenSession(c)
  PROVE  /\ TabOK(tab', turns) /\ ViewStays(tab, tab')
         /\ scopes' \in [Sessions -> SUBSET Bases]
<1>1. PICK t, T, u : t = tab /\ T = turns /\ u = tab'
      OBVIOUS
<1>2. TabOK(t, T) /\ c \in t.calls
      BY <1>1 DEF ClientInv
<1>3. c \in CallRecords /\ CallOK(c, T)
      BY <1>2 DEF TabOK, TabRecords
<1>4. PICK d : d = Done(c)
      OBVIOUS
<1>5. /\ d \in CallRecords /\ d.kind = c.kind /\ d.fresh = c.fresh
      /\ d.session = c.session
      BY <1>3, <1>4, DoneType
<1>6. c.scope \in SUBSET Bases
      BY <1>3 DEF CallRecords
<1>7. scopes' \in [Sessions -> SUBSET Bases]
      BY <1>6 DEF Store, OpenSession, ClientInv, ServerOK
<1>8. CASE Store(c)
  <2>1. c.kind \in {"scope", "all"} /\ u = [t EXCEPT !.calls = (t.calls \ {c}) \cup {d}]
        BY <1>1, <1>4, <1>8 DEF Store, Answer
  <2>2. CallOK(d, T)
        BY <1>5, <2>1 DEF CallOK
  <2>3. TabOK(u, T) /\ ViewStays(t, u)
        BY <1>2, <1>5, <2>1, <2>2, AnswerOK
  <2> QED BY <1>1, <1>7, <2>3
<1>9. CASE OpenSession(c)
  <2>1. PICK s \in Sessions : Answer(c, [Done(c) EXCEPT !.session = s])
        BY <1>9 DEF OpenSession
  <2>2. PICK e : e = [d EXCEPT !.session = s]
        OBVIOUS
  <2>3. c.kind = "open" /\ u = [t EXCEPT !.calls = (t.calls \ {c}) \cup {e}]
        BY <1>1, <1>4, <1>9, <2>1, <2>2 DEF OpenSession, Answer
  <2>4. e \in CallRecords /\ e.kind = c.kind /\ e.fresh = c.fresh /\ e.session = s
        BY <1>5, <2>2 DEF CallRecords
  <2>5. CallOK(e, T)
        BY <2>3, <2>4 DEF CallOK
  <2>6. TabOK(u, T) /\ ViewStays(t, u)
        BY <1>2, <2>3, <2>4, <2>5, AnswerOK
  <2> QED BY <1>1, <1>7, <2>6
<1> QED BY <1>8, <1>9

(* A question reaches the server.                                          *)
LEMMA AskedStep ==
  ASSUME ClientInv, NEW c \in tab.calls, Ask(c)
  PROVE  /\ TabOK(tab', turns') /\ ViewStays(tab, tab')
         /\ turns' \in TurnLists /\ scopes' \in [Sessions -> SUBSET Bases]
<1>1. PICK t, T, u, U : t = tab /\ T = turns /\ u = tab' /\ U = turns'
      OBVIOUS
<1>2. TabOK(t, T) /\ c \in t.calls /\ T \in TurnLists
      BY <1>1 DEF ClientInv, ServerOK
<1>3. c \in CallRecords /\ CallOK(c, T) /\ c.kind = "create"
      BY <1>2 DEF TabOK, TabRecords, Ask
<1>4. PICK s : s = c.session
      OBVIOUS
<1>5. s \in Sessions
      BY <1>3, <1>4 DEF CallOK
<1>6. PICK d : d = Done(c)
      OBVIOUS
<1>7. /\ d \in CallRecords /\ d.kind = "create" /\ d.fresh = c.fresh
      /\ d.session = s /\ d.items = c.items /\ d.served
      BY <1>3, <1>4, <1>6, DoneType
<1>8. c.scope \in SUBSET Bases /\ c.key \in Nat
      BY <1>3 DEF CallRecords
<1>9. T[s] \in Seq(TurnRecords)
      BY <1>2, <1>5 DEF TurnLists
<1>10. scopes \in [Sessions -> SUBSET Bases]
      BY DEF ClientInv, ServerOK
<1>11. PICK prior : prior = {n \in DOMAIN turns[s] : turns[s][n].key = c.key}
      OBVIOUS
<1>12. PICK old : old = {m \in Stored(s) : m.turn \in prior}
      OBVIOUS
<1>13. PICK turn : turn = [scope |-> c.scope, key |-> c.key, done |-> FALSE]
      OBVIOUS
<1>14. PICK new : new = {[session |-> s, turn |-> Len(T[s]) + 1, done |-> FALSE]}
      OBVIOUS
<1>15. \/ /\ prior # {} /\ Answer(c, [d EXCEPT !.items = old])
          /\ UNCHANGED <<turns, scopes>>
       \/ Answer(c, [d EXCEPT !.ok = FALSE]) /\ UNCHANGED <<turns, scopes>>
       \/ /\ turns' = [turns EXCEPT ![s] = Append(T[s], turn)]
          /\ scopes' = [scopes EXCEPT ![s] = c.scope]
          /\ Answer(c, [d EXCEPT !.items = new])
       BY <1>1, <1>4, <1>6, <1>11, <1>12, <1>13, <1>14, Zenon DEF Ask
<1>16. CASE prior # {} /\ Answer(c, [d EXCEPT !.items = old]) /\ UNCHANGED <<turns, scopes>>
  <2>1. PICK e : e = [d EXCEPT !.items = old]
        OBVIOUS
  <2>2. \A m \in old : Genuine(m, s, T)
        BY <1>1, <1>2, <1>5, <1>12, StoredAreGenuine
  <2>3. old \in SUBSET (ShownTurns \cup Headers)
        BY <2>2 DEF Genuine
  <2>4. /\ e \in CallRecords /\ e.kind = "create" /\ e.fresh = c.fresh
        /\ e.session = s /\ e.items = old
        BY <1>7, <2>1, <2>3 DEF CallRecords
  <2>5. old # {}
    <3>1. PICK n : n \in prior
          BY <1>16
    <3>2. PICK m : m = [session |-> s, turn |-> n, done |-> turns[s][n].done]
          OBVIOUS
    <3>3. m.turn = n /\ n \in DOMAIN turns[s]
          BY <1>11, <3>1, <3>2
    <3>4. m \in Stored(s)
          BY <3>2, <3>3 DEF Stored
    <3> QED BY <1>12, <3>1, <3>3, <3>4
  <2>6. CallOK(e, T)
        BY <1>5, <2>2, <2>4, <2>5 DEF CallOK
  <2>7. u = [t EXCEPT !.calls = (t.calls \ {c}) \cup {e}]
        BY <1>1, <1>16, <2>1 DEF Answer
  <2>8. TabOK(u, T) /\ ViewStays(t, u)
        BY <1>2, <1>3, <2>4, <2>6, <2>7, AnswerOK
  <2> QED BY <1>1, <1>2, <1>10, <1>16, <2>8
<1>17. CASE Answer(c, [d EXCEPT !.ok = FALSE]) /\ UNCHANGED <<turns, scopes>>
  <2>1. PICK e : e = [d EXCEPT !.ok = FALSE]
        OBVIOUS
  <2>2. /\ e \in CallRecords /\ e.kind = "create" /\ e.fresh = c.fresh
        /\ e.session = s /\ e.items = c.items /\ ~e.ok
        BY <1>7, <2>1 DEF CallRecords
  <2>3. CallOK(e, T)
        BY <1>3, <1>4, <2>2 DEF CallOK
  <2>4. u = [t EXCEPT !.calls = (t.calls \ {c}) \cup {e}]
        BY <1>1, <1>17, <2>1 DEF Answer
  <2>5. TabOK(u, T) /\ ViewStays(t, u)
        BY <1>2, <1>3, <2>2, <2>3, <2>4, AnswerOK
  <2> QED BY <1>1, <1>2, <1>10, <1>17, <2>5
<1>18. CASE /\ turns' = [turns EXCEPT ![s] = Append(T[s], turn)]
            /\ scopes' = [scopes EXCEPT ![s] = c.scope]
            /\ Answer(c, [d EXCEPT !.items = new])
  <2>1. PICK q : q = Append(T[s], turn)
        OBVIOUS
  <2>2. turn \in TurnRecords
        BY <1>8, <1>13 DEF TurnRecords
  <2>3. /\ q \in Seq(TurnRecords) /\ DOMAIN q = 1 .. Len(T[s]) + 1
        /\ DOMAIN T[s] = 1 .. Len(T[s]) /\ \A n \in DOMAIN T[s] : q[n] = T[s][n]
        BY <1>9, <2>1, <2>2
  <2>4. U = [T EXCEPT ![s] = q]
        BY <1>1, <1>18, <2>1
  <2>5. U \in TurnLists /\ U[s] = q
        BY <1>2, <1>5, <2>3, <2>4 DEF TurnLists
  <2>6. Grows(T, U)
    <3>1. ASSUME NEW r \in Sessions, NEW n \in DOMAIN T[r]
          PROVE  n \in DOMAIN U[r] /\ U[r][n] = T[r][n]
      <4>1. CASE r = s
            BY <1>9, <2>3, <2>5, <3>1, <4>1
      <4>2. CASE r # s
            BY <1>2, <2>4, <4>2 DEF TurnLists
      <4> QED BY <4>1, <4>2
    <3> QED BY <3>1 DEF Grows
  <2>7. PICK m : m = [session |-> s, turn |-> Len(T[s]) + 1, done |-> FALSE]
        OBVIOUS
  <2>8. Len(T[s]) + 1 \in Nat /\ Len(T[s]) + 1 \in DOMAIN q
        BY <1>9, <2>3
  <2>9. m \in ShownTurns /\ m.session = s /\ m.turn = Len(T[s]) + 1 /\ ~m.done
        BY <1>5, <2>7, <2>8 DEF ShownTurns
  <2>10. Genuine(m, s, U)
        BY <2>5, <2>8, <2>9 DEF Genuine
  <2>11. new = {m}
        BY <1>14, <2>7
  <2>12. PICK e : e = [d EXCEPT !.items = new]
        OBVIOUS
  <2>13. new \in SUBSET (ShownTurns \cup Headers)
        BY <2>9, <2>11
  <2>14. /\ e \in CallRecords /\ e.kind = "create" /\ e.fresh = c.fresh
         /\ e.session = s /\ e.items = new
        BY <1>7, <2>12, <2>13 DEF CallRecords
  <2>15. CallOK(e, U)
        BY <1>5, <2>10, <2>11, <2>14 DEF CallOK
  <2>16. u = [t EXCEPT !.calls = (t.calls \ {c}) \cup {e}]
        BY <1>1, <1>18, <2>12 DEF Answer
  <2>17. TabOK(t, U)
        BY <1>2, <2>6, TabStaysOK
  <2>18. TabOK(u, U) /\ ViewStays(t, u)
        BY <1>2, <1>3, <2>14, <2>15, <2>16, <2>17, AnswerOK
  <2>19. scopes' \in [Sessions -> SUBSET Bases]
        BY <1>8, <1>10, <1>18
  <2> QED BY <1>1, <2>5, <2>18, <2>19
<1> QED BY <1>15, <1>16, <1>17, <1>18

(* A turn is decided.                                                      *)
LEMMA DecideStep ==
  ASSUME ClientInv, NEW s \in Sessions, Decide(s)
  PROVE  TabOK(tab', turns') /\ ViewStays(tab, tab') /\ turns' \in TurnLists
<1>1. PICK t, T, U : t = tab /\ T = turns /\ U = turns'
      OBVIOUS
<1>2. TabOK(t, T) /\ T \in TurnLists /\ tab' = t
      BY <1>1 DEF ClientInv, ServerOK, Decide
<1>3. PICK n \in DOMAIN T[s] : U = [T EXCEPT ![s][n].done = TRUE]
      BY <1>1 DEF Decide
<1>4. T[s] \in Seq(TurnRecords)
      BY <1>2 DEF TurnLists
<1>5. PICK r : r = [T[s][n] EXCEPT !.done = TRUE]
      OBVIOUS
<1>6. r \in TurnRecords /\ r.done
  <2>1. T[s][n] \in TurnRecords
        BY <1>3, <1>4
  <2> QED BY <1>5, <2>1 DEF TurnRecords
<1>7. PICK q : q = [T[s] EXCEPT ![n] = r]
      OBVIOUS
<1>8. /\ q \in Seq(TurnRecords) /\ DOMAIN q = DOMAIN T[s]
      /\ \A k \in DOMAIN T[s] : T[s][k].done => q[k].done
      BY <1>4, <1>6, <1>7
<1>9. U = [T EXCEPT ![s] = q]
      BY <1>3, <1>5, <1>7
<1>10. U \in TurnLists
      BY <1>2, <1>8, <1>9 DEF TurnLists
<1>11. Grows(T, U)
  <2>1. ASSUME NEW z \in Sessions, NEW k \in DOMAIN T[z]
        PROVE  k \in DOMAIN U[z] /\ (T[z][k].done => U[z][k].done)
    <3>1. CASE z = s
      <4>1. U[z] = q
            BY <1>2, <1>9, <3>1 DEF TurnLists
      <4> QED BY <1>8, <2>1, <3>1, <4>1
    <3>2. CASE z # s
      <4>1. U[z] = T[z]
            BY <1>2, <1>9, <3>2 DEF TurnLists
      <4> QED BY <2>1, <4>1
    <3> QED BY <3>1, <3>2
  <2> QED BY <2>1 DEF Grows
<1>12. TabOK(t, U)
      BY <1>2, <1>11, TabStaysOK
<1> QED BY <1>1, <1>2, <1>10, <1>12 DEF ViewStays

-----------------------------------------------------------------------------
(* Answers.                                                                *)

(* What was shown as decided is not shown as generating.                   *)
Keeps(t, u) == u.session = t.session => Agree(t.shown, u.shown)

(* The page forgets or keeps what it shows.                                *)
LEMMA ViewKeeps ==
  ASSUME NEW t, NEW T, TabOK(t, T), NEW u, ViewStays(t, u)
  PROVE  Keeps(t, u)
<1>1. Agree(t.shown, t.shown)
      BY DEF TabOK, ShownOK
<1> QED BY <1>1 DEF ViewStays, Keeps, Agree

(* An answer is taken off before it is used.                               *)
LEMMA TakenOff ==
  ASSUME ClientInv, NEW c \in tab.calls,
         NEW t, NEW T, NEW w, t = tab, T = turns, w = Without(c)
  PROVE  /\ TabOK(t, T) /\ TabOK(w, T) /\ ViewStays(t, w)
         /\ w.session = t.session /\ w.shown = t.shown /\ w.current = t.current
         /\ w.calls = t.calls \ {c} /\ c \in t.calls
         /\ c \in CallRecords /\ CallOK(c, T) /\ T \in TurnLists
<1>1. TabOK(t, T) /\ c \in t.calls /\ T \in TurnLists
      BY DEF ClientInv, ServerOK
<1>2. w = [t EXCEPT !.calls = t.calls \ {c}]
      BY DEF Without
<1>3. c \in CallRecords /\ CallOK(c, T)
      BY <1>1 DEF TabOK, TabRecords
<1> QED BY <1>1, <1>2, <1>3, WithoutOK

(* The sessions.                                                           *)
LEMMA SessionsArriveStep ==
  ASSUME ClientInv, NEW c \in tab.calls, c.kind = "sessions", SessionsArrive(c)
  PROVE  TabOK(tab', turns) /\ ViewStays(tab, tab')
<1>1. PICK t, T, u, w : t = tab /\ T = turns /\ u = tab' /\ w = Without(c)
      OBVIOUS
<1>2. /\ TabOK(w, T) /\ ViewStays(t, w) /\ c.items \subseteq Headers
  <2>1. TabOK(w, T) /\ ViewStays(t, w) /\ CallOK(c, T)
        BY <1>1, TakenOff
  <2> QED BY <2>1 DEF CallOK
<1>3. CASE u = w
      BY <1>1, <1>2, <1>3
<1>4. CASE u = ShowSession([w EXCEPT !.known = {}], None)
  <2>1. PICK v : v = [w EXCEPT !.known = {}]
        OBVIOUS
  <2>2. /\ v \in TabRecords /\ v.session = w.session /\ v.shown = w.shown
        /\ v.current = w.current /\ v.calls = w.calls
        BY <1>2, <2>1 DEF TabOK, TabRecords
  <2>3. TabOK(v, T) /\ ViewStays(w, v)
        BY <1>2, <2>2, OthersKeep
  <2>4. TabOK(u, T) /\ ViewStays(v, u)
        BY <1>4, <2>1, <2>3, ShowSessionOK
  <2>5. ViewStays(t, u)
        BY <1>2, <2>3, <2>4, ViewStaysOn
  <2> QED BY <1>1, <2>4, <2>5
<1>5. CASE \E k \in c.items :
             u = ShowSession([w EXCEPT !.known = c.items, !.scope = k.scope], k.session)
  <2>1. PICK k \in c.items :
          u = ShowSession([w EXCEPT !.known = c.items, !.scope = k.scope], k.session)
        BY <1>5
  <2>2. k.session \in Sessions \cup {None} /\ k.scope \in SUBSET Bases
        BY <1>2 DEF Headers
  <2>3. PICK v : v = [w EXCEPT !.known = c.items, !.scope = k.scope]
        OBVIOUS
  <2>4. /\ v \in TabRecords /\ v.session = w.session /\ v.shown = w.shown
        /\ v.current = w.current /\ v.calls = w.calls
        BY <1>2, <2>2, <2>3 DEF TabOK, TabRecords
  <2>5. TabOK(v, T) /\ ViewStays(w, v)
        BY <1>2, <2>4, OthersKeep
  <2>6. TabOK(u, T) /\ ViewStays(v, u)
        BY <2>1, <2>2, <2>3, <2>5, ShowSessionOK
  <2>7. ViewStays(t, u)
        BY <1>2, <2>5, <2>6, ViewStaysOn
  <2> QED BY <1>1, <2>6, <2>7
<1> QED BY <1>1, <1>3, <1>4, <1>5 DEF SessionsArrive

(* The end of a submission, whatever call it belongs to.                   *)
LEMMA ReleaseOK ==
  ASSUME NEW t, NEW T, TabOK(t, T), NEW c,
         NEW u, u = Release(t, c) \/ u = Submitted(t, c)
  PROVE  /\ TabOK(u, T) /\ ViewStays(t, u)
         /\ u.session = t.session /\ u.shown = t.shown /\ u.calls = t.calls
<1>1. u \in {t, [t EXCEPT !.submitting = FALSE]}
      BY DEF Release, Submitted
<1> QED BY <1>1, SubmittedOK

(* A page of messages: it was read when all that is shown was there.       *)
LEMMA MessagesArriveStep ==
  ASSUME ClientInv, NEW c \in tab.calls, c.kind = "messages", MessagesArrive(c)
  PROVE  TabOK(tab', turns) /\ Keeps(tab, tab')
<1>1. PICK t, T, u, w : t = tab /\ T = turns /\ u = tab' /\ w = Without(c)
      OBVIOUS
<1>2. /\ TabOK(t, T) /\ TabOK(w, T) /\ ViewStays(t, w)
      /\ w.session = t.session /\ w.shown = t.shown /\ w.current = t.current
      /\ w.calls = t.calls \ {c} /\ c \in t.calls
      /\ c \in CallRecords /\ CallOK(c, T) /\ T \in TurnLists
      BY <1>1, TakenOff
<1>3. CASE ~IsCurrent(c)
  <2>1. u = Release(w, c)
        BY <1>1, <1>3 DEF MessagesArrive
  <2>2. TabOK(u, T) /\ ViewStays(w, u)
        BY <1>2, <2>1, ReleaseOK
  <2>3. ViewStays(t, u)
        BY <1>2, <2>2, ViewStaysOn
  <2>4. Keeps(t, u)
        BY <1>2, <2>3, ViewKeeps
  <2> QED BY <1>1, <2>2, <2>4
<1>4. CASE IsCurrent(c)
  <2>1. c.fresh /\ c.session = t.session
        BY <1>1, <1>4 DEF IsCurrent
  <2>2. PICK shown : shown = IF c.page = 1 THEN c.items ELSE MergeMessages(w.shown, c.items)
        OBVIOUS
  <2>3. PICK more : more = IF c.ok THEN c.page + 1 ELSE 0
        OBVIOUS
  <2>4. PICK v : v = [w EXCEPT !.shown = shown, !.more = more, !.loading = FALSE]
        OBVIOUS
  <2>5. u = Restore(Release(v, c))
        BY <1>1, <1>4, <2>2, <2>3, <2>4 DEF MessagesArrive
  <2>6. /\ \A m \in c.items : Genuine(m, t.session, T)
        /\ Agree(c.items, c.items) /\ Agree(t.shown, c.items)
        BY <1>2, <2>1 DEF CallOK, TabOK, LoadsOK, Loads
  <2>7. /\ \A m \in t.shown : Genuine(m, t.session, T)
        /\ Agree(t.shown, t.shown)
        BY <1>2 DEF TabOK, ShownOK
  <2>8. \A m \in shown : Genuine(m, t.session, T)
        BY <1>2, <2>2, <2>6, <2>7 DEF MergeMessages
  <2>9. Agree(shown, shown) /\ Agree(t.shown, shown)
        BY <1>2, <2>2, <2>6, <2>7 DEF MergeMessages, Agree
  <2>10. more \in Nat
        BY <1>2, <2>3 DEF CallRecords
  <2>11. /\ v \in TabRecords /\ v.session = t.session /\ v.shown = shown
         /\ v.current = t.current /\ v.calls = t.calls \ {c}
    <3>1. shown \in SUBSET ShownTurns
          BY <2>8 DEF Genuine
    <3> QED BY <1>2, <2>4, <2>10, <3>1 DEF TabOK, TabRecords
  <2>12. TabOK(v, T)
    <3>1. NoLoads(v)
          BY <1>2, <2>1, <2>11 DEF NoLoads, Loads, TabOK, LoadsOK
    <3>2. LoadsOK(v)
          BY <3>1 DEF NoLoads, LoadsOK
    <3>3. ShownOK(v, T)
          BY <1>2, <2>8, <2>9, <2>11, Zenon DEF TabOK, ShownOK
    <3>4. \A d \in v.calls : CallOK(d, T)
          BY <1>2, <2>11 DEF TabOK
    <3> QED BY <2>11, <3>2, <3>3, <3>4 DEF TabOK
  <2>13. PICK x : x = Release(v, c)
        OBVIOUS
  <2>14. TabOK(x, T) /\ x.session = v.session /\ x.shown = v.shown
        BY <2>12, <2>13, ReleaseOK
  <2>15. u = Restore(x)
        BY <2>5, <2>13
  <2>16. TabOK(u, T) /\ u.session = x.session /\ u.shown = x.shown
        BY <1>2, <2>14, <2>15, RestoreOK
  <2>17. Keeps(t, u)
        BY <2>9, <2>11, <2>14, <2>16 DEF Keeps
  <2> QED BY <1>1, <2>16, <2>17
<1> QED BY <1>3, <1>4

(* The run that is taken up.                                               *)
LEMMA RestoreArrivesStep ==
  ASSUME ClientInv, NEW c \in tab.calls, c.kind = "restore", RestoreArrives(c)
  PROVE  TabOK(tab', turns) /\ ViewStays(tab, tab')
<1>1. PICK t, T, u, w : t = tab /\ T = turns /\ u = tab' /\ w = Without(c)
      OBVIOUS
<1>2. /\ TabOK(w, T) /\ ViewStays(t, w) /\ w.session = t.session /\ CallOK(c, T)
      BY <1>1, TakenOff
<1>3. PICK m \in c.items : u = IF IsCurrent(c) /\ SameScope(c) THEN FollowRun(w, m) ELSE w
      BY <1>1 DEF RestoreArrives
<1>4. CASE u = w
      BY <1>1, <1>2, <1>4
<1>5. CASE u = FollowRun(w, m) /\ IsCurrent(c)
  <2>1. c.session = w.session
        BY <1>1, <1>2, <1>5 DEF IsCurrent
  <2>2. Genuine(m, w.session, T)
        BY <1>2, <1>3, <2>1 DEF CallOK
  <2>3. TabOK(u, T) /\ ViewStays(w, u)
        BY <1>2, <1>5, <2>2, FollowRunOK
  <2>4. ViewStays(t, u)
        BY <1>2, <2>3, ViewStaysOn
  <2> QED BY <1>1, <2>3, <2>4
<1> QED BY <1>3, <1>4, <1>5

(* The header of a session whose scope was stored.                         *)
LEMMA HeaderType ==
  ASSUME NEW c \in CallRecords, c.session # None, NEW known \in SUBSET Headers
  PROVE  {k \in known : k.session # c.session} \cup
           {[session |-> c.session, scope |-> c.scope]} \in SUBSET Headers
BY DEF CallRecords, Headers

(* A scope was stored.                                                     *)
LEMMA ScopeArrivesStep ==
  ASSUME ClientInv, NEW c \in tab.calls, ScopeArrives(c) \/ AllArrives(c)
  PROVE  TabOK(tab', turns) /\ ViewStays(tab, tab')
<1>1. PICK t, T, u, w : t = tab /\ T = turns /\ u = tab' /\ w = Without(c)
      OBVIOUS
<1>2. TabOK(w, T) /\ ViewStays(t, w) /\ c \in CallRecords
      BY <1>1, TakenOff
<1>3. PICK known : known = {k \in w.known : k.session # c.session} \cup
                              {[session |-> c.session, scope |-> c.scope]}
      OBVIOUS
<1>4. w.known \in SUBSET Headers /\ c.scope \in SUBSET Bases
      BY <1>2 DEF TabOK, TabRecords, CallRecords
<1>5. c.session # None => known \in SUBSET Headers
      BY <1>2, <1>3, <1>4, HeaderType
<1>6. PICK v : v = [w EXCEPT !.saving = FALSE]
      OBVIOUS
<1>7. \/ u = v
      \/ c.session # None /\ u = [v EXCEPT !.known = known]
      \/ u = [v EXCEPT !.scope = c.scope]
      \/ c.session # None /\ u = [v EXCEPT !.scope = c.scope, !.known = known]
  <2>1. /\ v \in TabRecords /\ v.known = w.known
        BY <1>2, <1>6 DEF TabOK, TabRecords
  <2>2. w \in TabRecords
        BY <1>2 DEF TabOK
  <2>3. CASE ScopeArrives(c)
    <3>1. CASE tab.session = c.session /\ c.session # None
      <4>1. u = [w EXCEPT !.saving = FALSE,
                   !.known = {k \in w.known : k.session # c.session} \cup
                               {[session |-> c.session, scope |-> c.scope]}]
            BY <1>1, <2>3, <3>1, Zenon DEF ScopeArrives
      <4>2. u = [w EXCEPT !.saving = FALSE, !.known = known]
            BY <1>3, <4>1
      <4> QED BY <1>6, <3>1, <4>2
    <3>2. CASE ~(tab.session = c.session /\ c.session # None)
      <4>1. u = [w EXCEPT !.saving = FALSE]
            BY <1>1, <2>3, <3>2, Zenon DEF ScopeArrives
      <4> QED BY <1>6, <4>1
    <3> QED BY <3>1, <3>2
  <2>4. CASE AllArrives(c)
    <3>1. CASE IsCurrent(c) /\ c.session = None
      <4>1. u = [w EXCEPT !.saving = FALSE, !.scope = c.scope, !.known = w.known]
            BY <1>1, <2>4, <3>1 DEF AllArrives
      <4>2. u = [v EXCEPT !.scope = c.scope]
            BY <1>6, <2>1, <2>2, <4>1 DEF TabRecords
      <4> QED BY <4>2
    <3>2. CASE IsCurrent(c) /\ c.session # None
      <4>1. u = [w EXCEPT !.saving = FALSE, !.scope = c.scope, !.known = known]
            BY <1>1, <1>3, <2>4, <3>2 DEF AllArrives
      <4> QED BY <1>6, <3>2, <4>1
    <3>3. CASE ~IsCurrent(c)
          BY <1>1, <1>6, <2>4, <3>3 DEF AllArrives
    <3> QED BY <3>1, <3>2, <3>3
  <2> QED BY <2>3, <2>4
<1>8. /\ v \in TabRecords /\ v.session = w.session /\ v.shown = w.shown
      /\ v.current = w.current /\ v.calls = w.calls
      BY <1>2, <1>6 DEF TabOK, TabRecords
<1>9. /\ u \in TabRecords /\ u.session = w.session /\ u.shown = w.shown
      /\ u.current = w.current /\ u.calls = w.calls
  <2>1. CASE u = v
        BY <1>8, <2>1
  <2>2. CASE c.session # None /\ u = [v EXCEPT !.known = known]
        BY <1>5, <1>8, <2>2 DEF TabRecords
  <2>3. CASE u = [v EXCEPT !.scope = c.scope]
        BY <1>4, <1>8, <2>3 DEF TabRecords
  <2>4. CASE c.session # None /\ u = [v EXCEPT !.scope = c.scope, !.known = known]
        BY <1>4, <1>5, <1>8, <2>4 DEF TabRecords
  <2> QED BY <1>7, <2>1, <2>2, <2>3, <2>4
<1>10. TabOK(u, T) /\ ViewStays(w, u)
      BY <1>2, <1>9, OthersKeep
<1>11. ViewStays(t, u)
      BY <1>2, <1>10, ViewStaysOn
<1> QED BY <1>1, <1>10, <1>11

(* A session was opened for a question.                                    *)
LEMMA OpenArrivesStep ==
  ASSUME ClientInv, NEW c \in tab.calls, c.kind = "open", c.served, OpenArrives(c)
  PROVE  TabOK(tab', turns) /\ ViewStays(tab, tab')
<1>1. PICK t, T, u, w : t = tab /\ T = turns /\ u = tab' /\ w = Without(c)
      OBVIOUS
<1>2. TabOK(w, T) /\ ViewStays(t, w) /\ c \in CallRecords /\ CallOK(c, T)
      BY <1>1, TakenOff
<1>3. PICK h : h = [session |-> c.session, scope |-> c.scope]
      OBVIOUS
<1>4. PICK v : v = [w EXCEPT !.known = w.known \cup {h}]
      OBVIOUS
<1>5. PICK x : x = ShowSession(v, c.session)
      OBVIOUS
<1>6. PICK p : p = [session |-> c.session, scope |-> c.scope, key |-> c.key]
      OBVIOUS
<1>7. u = w \/ u = CreateRun(x, p, c.base)
      BY <1>1, <1>3, <1>4, <1>5, <1>6 DEF OpenArrives
<1>8. c.session \in Sessions /\ c.scope \in SUBSET Bases /\ c.key \in Nat /\ c.base \in Bases \cup {None}
      BY <1>2 DEF CallOK, CallRecords
<1>9. /\ v \in TabRecords /\ v.session = w.session /\ v.shown = w.shown
      /\ v.current = w.current /\ v.calls = w.calls
  <2>1. h \in Headers
        BY <1>3, <1>8 DEF Headers
  <2> QED BY <1>2, <1>4, <2>1 DEF TabOK, TabRecords
<1>10. TabOK(v, T) /\ ViewStays(w, v)
      BY <1>2, <1>9, OthersKeep
<1>11. TabOK(x, T) /\ ViewStays(v, x)
      BY <1>5, <1>8, <1>10, ShowSessionOK
<1>12. p \in [session : Sessions, scope : SUBSET Bases, key : Nat]
      BY <1>6, <1>8
<1>13. CASE u = w
      BY <1>1, <1>2, <1>13
<1>14. CASE u = CreateRun(x, p, c.base)
  <2>1. TabOK(u, T) /\ ViewStays(x, u)
        BY <1>8, <1>11, <1>12, <1>14, CreateRunOK
  <2>2. ViewStays(w, x)
        BY <1>10, <1>11, ViewStaysOn
  <2>3. ViewStays(w, u)
        BY <2>1, <2>2, ViewStaysOn
  <2>4. ViewStays(t, u)
        BY <1>2, <2>3, ViewStaysOn
  <2> QED BY <1>1, <2>1, <2>4
<1> QED BY <1>7, <1>13, <1>14

(* A question was answered with its run, or refused.                       *)
LEMMA CreateArrivesStep ==
  ASSUME ClientInv, NEW c \in tab.calls, c.kind = "create", c.served, CreateArrives(c)
  PROVE  TabOK(tab', turns) /\ ViewStays(tab, tab')
<1>1. PICK t, T, u, w : t = tab /\ T = turns /\ u = tab' /\ w = Without(c)
      OBVIOUS
<1>2. /\ TabOK(w, T) /\ ViewStays(t, w) /\ w.session = t.session
      /\ c \in CallRecords /\ CallOK(c, T)
      BY <1>1, TakenOff
<1>3. CASE u = Submitted(w, c)
  <2>1. TabOK(u, T) /\ ViewStays(w, u)
        BY <1>2, <1>3, ReleaseOK
  <2>2. ViewStays(t, u)
        BY <1>2, <2>1, ViewStaysOn
  <2> QED BY <1>1, <2>1, <2>2
<1>4. CASE u = Submitted([w EXCEPT !.failed = TRUE], c)
  <2>1. PICK v : v = [w EXCEPT !.failed = TRUE]
        OBVIOUS
  <2>2. /\ v \in TabRecords /\ v.session = w.session /\ v.shown = w.shown
        /\ v.current = w.current /\ v.calls = w.calls
        BY <1>2, <2>1 DEF TabOK, TabRecords
  <2>3. TabOK(v, T) /\ ViewStays(w, v)
        BY <1>2, <2>2, OthersKeep
  <2>4. TabOK(u, T) /\ ViewStays(v, u)
        BY <1>4, <2>1, <2>3, ReleaseOK
  <2>5. ViewStays(t, u)
        BY <1>2, <2>3, <2>4, ViewStaysOn
  <2> QED BY <1>1, <2>4, <2>5
<1>5. CASE /\ StillAsked(c) /\ c.ok
           /\ u = FollowRun(LoadSubmitted([w EXCEPT !.pending = None], c),
                            CHOOSE m \in c.items : TRUE)
  <2>1. PICK v : v = [w EXCEPT !.pending = None]
        OBVIOUS
  <2>2. PICK x : x = LoadSubmitted(v, c)
        OBVIOUS
  <2>3. PICK run : run = CHOOSE m \in c.items : TRUE
        OBVIOUS
  <2>4. /\ v \in TabRecords /\ v.session = w.session /\ v.shown = w.shown
        /\ v.current = w.current /\ v.calls = w.calls
        BY <1>2, <2>1 DEF TabOK, TabRecords
  <2>5. TabOK(v, T) /\ ViewStays(w, v)
        BY <1>2, <2>4, OthersKeep
  <2>6. c.session = t.session /\ c.session \in Sessions /\ c.items # {}
        BY <1>1, <1>2, <1>5 DEF StillAsked, CallOK
  <2>7. TabOK(x, T) /\ ViewStays(v, x) /\ x.session = v.session
        BY <1>2, <2>2, <2>5, <2>6, LoadSubmittedOK
  <2>8. run \in c.items
        BY <2>3, <2>6
  <2>9. Genuine(run, x.session, T)
        BY <1>2, <2>4, <2>6, <2>7, <2>8 DEF CallOK
  <2>10. TabOK(u, T) /\ ViewStays(x, u)
        BY <1>5, <2>1, <2>2, <2>3, <2>7, <2>9, FollowRunOK
  <2>11. ViewStays(w, x)
        BY <2>5, <2>7, ViewStaysOn
  <2>12. ViewStays(w, u)
        BY <2>10, <2>11, ViewStaysOn
  <2>13. ViewStays(t, u)
        BY <1>2, <2>12, ViewStaysOn
  <2> QED BY <1>1, <2>10, <2>13
<1> QED BY <1>1, <1>3, <1>4, <1>5, Zenon DEF CreateArrives

(* A flag of the tab that is set.                                          *)
LEMMA FlagsKeep ==
  ASSUME NEW t, NEW T, TabOK(t, T), NEW b \in BOOLEAN, NEW s \in SUBSET Bases,
         NEW u, \/ u = [t EXCEPT !.saving = FALSE]
                \/ u = [t EXCEPT !.error = TRUE]
                \/ u = [t EXCEPT !.error = TRUE, !.loading = FALSE]
                \/ u = [t EXCEPT !.failed = b]
                \/ u = [t EXCEPT !.saving = FALSE, !.failed = b]
                \/ u = [t EXCEPT !.submitting = FALSE, !.failed = TRUE]
                \/ u = [t EXCEPT !.saving = FALSE, !.scope = s, !.failed = TRUE]
  PROVE  TabOK(u, T) /\ ViewStays(t, u) /\ u.session = t.session
<1>1. t \in TabRecords
      BY DEF TabOK
<1>2. /\ u \in TabRecords /\ u.session = t.session /\ u.shown = t.shown
      /\ u.current = t.current /\ u.calls = t.calls
  <2>1. CASE u = [t EXCEPT !.saving = FALSE]
        BY <1>1, <2>1 DEF TabRecords
  <2>2. CASE u = [t EXCEPT !.error = TRUE]
        BY <1>1, <2>2 DEF TabRecords
  <2>3. CASE u = [t EXCEPT !.error = TRUE, !.loading = FALSE]
        BY <1>1, <2>3 DEF TabRecords
  <2>4. CASE u = [t EXCEPT !.failed = b]
        BY <1>1, <2>4 DEF TabRecords
  <2>5. CASE u = [t EXCEPT !.saving = FALSE, !.failed = b]
        BY <1>1, <2>5 DEF TabRecords
  <2>6. CASE u = [t EXCEPT !.submitting = FALSE, !.failed = TRUE]
        BY <1>1, <2>6 DEF TabRecords
  <2>7. CASE u = [t EXCEPT !.saving = FALSE, !.scope = s, !.failed = TRUE]
        BY <1>1, <2>7 DEF TabRecords
  <2> QED BY <2>1, <2>2, <2>3, <2>4, <2>5, <2>6, <2>7
<1> QED BY <1>2, OthersKeep

(* No answer comes.                                                        *)
LEMMA FailStep ==
  ASSUME ClientInv, NEW c \in tab.calls, CallFails(c)
  PROVE  TabOK(tab', turns) /\ ViewStays(tab, tab')
<1>1. PICK t, T, u, w : t = tab /\ T = turns /\ u = tab' /\ w = Without(c)
      OBVIOUS
<1>2. /\ TabOK(w, T) /\ ViewStays(t, w) /\ c \in CallRecords /\ T \in TurnLists
      BY <1>1, TakenOff
<1>3. c.kind \in CallKinds /\ c.before \in SUBSET Bases
      BY <1>2 DEF CallRecords
<1>4. u = CASE c.kind = "sessions" -> w
            [] c.kind = "messages" -> IF IsCurrent(c)
                 THEN Restore(Release([w EXCEPT !.error = TRUE, !.loading = FALSE], c))
                 ELSE Release(w, c)
            [] c.kind = "restore" -> IF IsCurrent(c) THEN [w EXCEPT !.error = TRUE]
                                     ELSE w
            [] c.kind = "scope" -> IF tab.session = c.session
                 THEN [w EXCEPT !.saving = FALSE, !.scope = c.before, !.failed = TRUE]
                 ELSE [w EXCEPT !.saving = FALSE]
            [] c.kind = "all" -> [w EXCEPT !.saving = FALSE, !.failed = @ \/ c.fresh]
            [] c.kind = "open" -> IF tab.base = c.base
                 THEN [w EXCEPT !.submitting = FALSE, !.failed = TRUE] ELSE w
            [] c.kind = "create" -> Submitted([w EXCEPT !.failed =
                 @ \/ StillAsked(c) \/ (c.base # None /\ tab.base = c.base)], c)
      BY <1>1, Zenon DEF CallFails
<1>5. CASE c.kind = "sessions"
  <2>1. u = w
        BY <1>4, <1>5
  <2> QED BY <1>1, <1>2, <2>1
<1>6. CASE c.kind = "messages"
  <2>1. CASE IsCurrent(c)
    <3>1. PICK v : v = [w EXCEPT !.error = TRUE, !.loading = FALSE]
          OBVIOUS
    <3>2. PICK x : x = Release(v, c)
          OBVIOUS
    <3>3. u = Restore(x)
          BY <1>4, <1>6, <2>1, <3>1, <3>2
    <3>4. TabOK(v, T) /\ ViewStays(w, v)
          BY <1>2, <3>1, FlagsKeep
    <3>5. TabOK(x, T) /\ ViewStays(v, x)
          BY <3>2, <3>4, ReleaseOK
    <3>6. TabOK(u, T) /\ ViewStays(x, u)
          BY <1>2, <3>3, <3>5, RestoreOK
    <3>7. ViewStays(w, x)
          BY <3>4, <3>5, ViewStaysOn
    <3>8. ViewStays(w, u)
          BY <3>6, <3>7, ViewStaysOn
    <3>9. ViewStays(t, u)
          BY <1>2, <3>8, ViewStaysOn
    <3> QED BY <1>1, <3>6, <3>9
  <2>2. CASE ~IsCurrent(c)
    <3>1. u = Release(w, c)
          BY <1>4, <1>6, <2>2
    <3>2. TabOK(u, T) /\ ViewStays(w, u)
          BY <1>2, <3>1, ReleaseOK
    <3>3. ViewStays(t, u)
          BY <1>2, <3>2, ViewStaysOn
    <3> QED BY <1>1, <3>2, <3>3
  <2> QED BY <2>1, <2>2
<1>7. CASE c.kind \in {"restore", "scope", "all", "open"}
  <2>1. PICK b \in BOOLEAN : b = (w.failed \/ c.fresh)
        OBVIOUS
  <2>2. [w EXCEPT !.saving = FALSE, !.failed = @ \/ c.fresh]
          = [w EXCEPT !.saving = FALSE, !.failed = b]
    <3>1. PICK v : v = [w EXCEPT !.saving = FALSE]
          OBVIOUS
    <3>2. v.failed = w.failed
          BY <1>2, <3>1 DEF TabOK, TabRecords
    <3>3. [v EXCEPT !.failed = v.failed \/ c.fresh] = [v EXCEPT !.failed = b]
          BY <2>1, <3>2, Zenon
    <3> QED BY <3>1, <3>3
  <2>3. u = w \/ \/ u = [w EXCEPT !.saving = FALSE]
                 \/ u = [w EXCEPT !.error = TRUE]
                 \/ u = [w EXCEPT !.saving = FALSE, !.failed = b]
                 \/ u = [w EXCEPT !.submitting = FALSE, !.failed = TRUE]
                 \/ u = [w EXCEPT !.saving = FALSE, !.scope = c.before, !.failed = TRUE]
    <3>1. CASE c.kind = "restore"
          BY <1>4, <3>1
    <3>2. CASE c.kind = "scope"
          BY <1>4, <3>2
    <3>3. CASE c.kind = "all"
      <4>1. u = [w EXCEPT !.saving = FALSE, !.failed = @ \/ c.fresh]
            BY <1>4, <3>3
      <4> QED BY <2>2, <4>1
    <3>4. CASE c.kind = "open"
          BY <1>4, <3>4
    <3> QED BY <1>7, <3>1, <3>2, <3>3, <3>4
  <2>4. CASE u = w
        BY <1>1, <1>2, <2>4
  <2>5. CASE u # w
    <3>1. TabOK(u, T) /\ ViewStays(w, u)
          BY <1>2, <1>3, <2>3, <2>5, FlagsKeep
    <3>2. ViewStays(t, u)
          BY <1>2, <3>1, ViewStaysOn
    <3> QED BY <1>1, <3>1, <3>2
  <2> QED BY <2>4, <2>5
<1>8. CASE c.kind = "create"
  <2>1. PICK b \in BOOLEAN :
          b = (w.failed \/ StillAsked(c) \/ (c.base # None /\ tab.base = c.base))
        OBVIOUS
  <2>2. PICK v : v = [w EXCEPT !.failed = b]
        OBVIOUS
  <2>3. u = Submitted([w EXCEPT !.failed =
              w.failed \/ StillAsked(c) \/ (c.base # None /\ tab.base = c.base)], c)
        BY <1>4, <1>8
  <2>4. u = Submitted(v, c)
        BY <2>1, <2>2, <2>3, Zenon
  <2>5. TabOK(v, T) /\ ViewStays(w, v)
        BY <1>2, <2>2, FlagsKeep
  <2>6. TabOK(u, T) /\ ViewStays(v, u)
        BY <2>4, <2>5, ReleaseOK
  <2>7. ViewStays(w, u)
        BY <2>5, <2>6, ViewStaysOn
  <2>8. ViewStays(t, u)
        BY <1>2, <2>7, ViewStaysOn
  <2> QED BY <1>1, <2>6, <2>8
<1> QED BY <1>3, <1>5, <1>6, <1>7, <1>8 DEF CallKinds

-----------------------------------------------------------------------------
(* All steps.                                                              *)

(* The user's clicks spend the budget and leave the server alone.          *)
ChatClicks ==
  \/ \E b \in Bases : ChooseKnowledgeBase(b) \/ MoveKnowledgeBase(b)
  \/ \E k \in tab.known : ChooseSession(k)
  \/ BeginNewConversation
  \/ \E S \in SUBSET Bases : ChangeScope(S)
  \/ SelectAllScopes
  \/ LoadEarlier \/ RetryMessages \/ RetrySessions
  \/ Submit \/ RetryRun \/ ChangeOptions

(* A step of the user.                                                     *)
LEMMA UserStep ==
  ASSUME ClientInv, ChatClicks
  PROVE  ClientInv' /\ Keeps(tab, tab')
<1>1. TabOK(tab', turns) /\ ViewStays(tab, tab')
      BY BaseStep, ChooseSessionStep, BeginStep, ChangeScopeStep, SelectAllStep,
         LoadStep, AskStep, OtherStep DEF ChatClicks
<1>2. Click \/ Submit
      BY DEF ChatClicks, ChooseKnowledgeBase, MoveKnowledgeBase, ChooseSession,
             BeginNewConversation, ChangeScope, SelectAllScopes, LoadEarlier,
             RetryMessages, RetrySessions, RetryRun, ChangeOptions
<1>3. ServerOK'
  <2>1. CASE Click
        BY <2>1 DEF Click, ClientInv, ServerOK
  <2>2. CASE Submit
        BY <2>2 DEF Submit, ClientInv, ServerOK
  <2> QED BY <1>2, <2>1, <2>2
<1>4. turns' = turns
      BY <1>2 DEF Click, Submit
<1>5. Keeps(tab, tab')
  <2>1. PICK t, T, u : t = tab /\ T = turns /\ u = tab'
        OBVIOUS
  <2>2. TabOK(t, T) /\ ViewStays(t, u)
        BY <1>1, <2>1 DEF ClientInv
  <2>3. Keeps(t, u)
        BY <2>2, ViewKeeps
  <2> QED BY <2>1, <2>3
<1> QED BY <1>1, <1>3, <1>4, <1>5 DEF ClientInv

(* A step of the server, the network or the chat lane.                     *)
LEMMA CallStep ==
  ASSUME ClientInv, NEW c \in tab.calls, Serve(c) \/ Arrive(c) \/ CallFails(c)
  PROVE  ClientInv' /\ Keeps(tab, tab')
<1>1. PICK t, T, u : t = tab /\ T = turns /\ u = tab'
      OBVIOUS
<1>2. TabOK(t, T)
      BY <1>1 DEF ClientInv
<1>3. ASSUME ViewStays(tab, tab') PROVE Keeps(tab, tab')
  <2>1. Keeps(t, u)
        BY <1>1, <1>2, <1>3, ViewKeeps
  <2> QED BY <1>1, <2>1
<1>4. CASE Serve(c)
  <2>1. budget' = budget /\ (Read(c) \/ Store(c) \/ OpenSession(c) \/ Ask(c))
        BY <1>4 DEF Serve
  <2>2. CASE Read(c)
    <3>1. TabOK(tab', turns) /\ ViewStays(tab, tab')
          BY <2>2, ReadStep
    <3>2. UNCHANGED <<turns, scopes>>
          BY <2>2 DEF Read
    <3> QED BY <1>3, <2>1, <3>1, <3>2 DEF ClientInv, ServerOK
  <2>3. CASE Store(c) \/ OpenSession(c)
    <3>1. /\ TabOK(tab', turns) /\ ViewStays(tab, tab')
          /\ scopes' \in [Sessions -> SUBSET Bases]
          BY <2>3, StoreStep
    <3>2. turns' = turns
          BY <2>3 DEF Store, OpenSession
    <3> QED BY <1>3, <2>1, <3>1, <3>2 DEF ClientInv, ServerOK
  <2>4. CASE Ask(c)
    <3>1. /\ TabOK(tab', turns') /\ ViewStays(tab, tab')
          /\ turns' \in TurnLists /\ scopes' \in [Sessions -> SUBSET Bases]
          BY <2>4, AskedStep
    <3> QED BY <1>3, <2>1, <3>1 DEF ClientInv, ServerOK
  <2> QED BY <2>1, <2>2, <2>3, <2>4
<1>5. CASE Arrive(c)
  <2>1. UNCHANGED <<turns, scopes, budget>> /\ c.served
        BY <1>5 DEF Arrive
  <2>2. TabOK(tab', turns) /\ Keeps(tab, tab')
        BY <1>3, <1>5, SessionsArriveStep, MessagesArriveStep, RestoreArrivesStep,
           ScopeArrivesStep, OpenArrivesStep, CreateArrivesStep DEF Arrive
  <2> QED BY <2>1, <2>2 DEF ClientInv, ServerOK
<1>6. CASE CallFails(c)
  <2>1. TabOK(tab', turns) /\ ViewStays(tab, tab')
        BY <1>6, FailStep
  <2>2. ServerOK' /\ turns' = turns
        BY <1>6 DEF CallFails, ClientInv, ServerOK
  <2> QED BY <1>3, <2>1, <2>2 DEF ClientInv
<1> QED BY <1>4, <1>5, <1>6

(* Every step keeps the invariant, and what was decided stays decided.     *)
LEMMA ClientStep ==
  ASSUME ClientInv, ClientNext
  PROVE  ClientInv' /\ Keeps(tab, tab')
<1>1. PICK t, T, u : t = tab /\ T = turns /\ u = tab'
      OBVIOUS
<1>2. TabOK(t, T)
      BY <1>1 DEF ClientInv
<1>3. ASSUME ViewStays(tab, tab') PROVE Keeps(tab, tab')
  <2>1. Keeps(t, u)
        BY <1>1, <1>2, <1>3, ViewKeeps
  <2> QED BY <1>1, <2>1
<1>4. \/ ChatClicks
      \/ \E c \in tab.calls : Serve(c) \/ Arrive(c) \/ CallFails(c)
      \/ \E s \in Sessions : Decide(s)
      \/ StreamSettles \/ StreamBreaks \/ Reconnect \/ Poll
      BY Zenon DEF ClientNext, ChatClicks
<1>5. CASE ChatClicks
      BY <1>5, UserStep
<1>6. CASE \E c \in tab.calls : Serve(c) \/ Arrive(c) \/ CallFails(c)
      BY <1>6, CallStep
<1>7. CASE \E s \in Sessions : Decide(s)
  <2>1. TabOK(tab', turns') /\ ViewStays(tab, tab') /\ turns' \in TurnLists
        BY <1>7, DecideStep
  <2>2. UNCHANGED <<scopes, budget>>
        BY <1>7 DEF Decide
  <2> QED BY <1>3, <2>1, <2>2 DEF ClientInv, ServerOK
<1>8. CASE StreamSettles \/ Poll \/ StreamBreaks \/ Reconnect
  <2>1. TabOK(tab', turns) /\ ViewStays(tab, tab')
        BY <1>8, WatchStep, OtherStep
  <2>2. UNCHANGED <<turns, scopes, budget>>
        BY <1>8 DEF StreamSettles, Poll, StreamBreaks, Reconnect
  <2> QED BY <1>3, <2>1, <2>2 DEF ClientInv, ServerOK
<1> QED BY <1>4, <1>5, <1>6, <1>7, <1>8

(* A page that opens.                                                      *)
LEMMA ClientStarts == ClientInit => ClientInv
<1> SUFFICES ASSUME ClientInit PROVE ClientInv
    OBVIOUS
<1>1. ServerOK
  <2>1. ASSUME NEW b \in Bases
        PROVE  <<[scope |-> {b}, key |-> 0, done |-> FALSE]>> \in Seq(TurnRecords)
    <3>1. [scope |-> {b}, key |-> 0, done |-> FALSE] \in TurnRecords
          BY DEF TurnRecords
    <3> QED BY <3>1
  <2>2. <<>> \in Seq(TurnRecords)
        OBVIOUS
  <2>3. turns \in TurnLists
    <3>1. PICK F : F = {<<>>} \cup {<<[scope |-> {b}, key |-> 0, done |-> FALSE]>> : b \in Bases}
          OBVIOUS
    <3>2. F \subseteq Seq(TurnRecords)
          BY <2>1, <2>2, <3>1
    <3>3. turns \in [Sessions -> F]
          BY <3>1, Zenon DEF ClientInit
    <3> QED BY <3>2, <3>3 DEF TurnLists
  <2>4. scopes \in [Sessions -> SUBSET Bases]
        BY DEF ClientInit
  <2>5. budget \in [questions : Nat, clicks : Nat, failures : Nat]
        BY ClientConstants DEF ClientInit
  <2> QED BY <2>3, <2>4, <2>5 DEF ServerOK
<1>2. PICK T : T = turns
      OBVIOUS
<1>3. NewTab \in TabRecords
      BY DEF NewTab, TabRecords
<1>4. TabOK(NewTab, T)
      BY <1>3 DEF NewTab, TabOK, ShownOK, LoadsOK, Agree
<1>5. PICK b \in Bases : tab = ShowBase(NewTab, b)
      BY DEF ClientInit
<1>6. PICK t, u : t = NewTab /\ u = ShowBase(t, b)
      OBVIOUS
<1>7. TabOK(u, T)
      BY <1>4, <1>6, ShowBaseOK
<1> QED BY <1>1, <1>2, <1>5, <1>6, <1>7 DEF ClientInv

(* The inductive invariant of the chat page.                               *)
THEOREM ClientInvariant == ClientSpec => []ClientInv
<1>1. ClientInv /\ UNCHANGED clientVars => ClientInv'
      BY DEF clientVars, ClientInv, ServerOK
<1>2. ClientInv /\ [ClientNext]_clientVars => ClientInv'
      BY <1>1, ClientStep
<1> QED BY <1>2, ClientStarts, PTL DEF ClientSpec

(* The page shows turns of the session it names and of no other, and what  *)
(* it has shown as decided it does not show as generating again.           *)
THEOREM ViewsFollowTheirSession == ClientSpec => ViewFollowsTheSession
<1>1. ClientInv /\ ClientInv' /\ [ClientNext]_clientVars =>
        [/\ \A m \in tab'.shown : m.session = tab'.session
         /\ tab'.current # None => tab'.current.session = tab'.session
         /\ tab'.session = tab.session =>
              \A m \in tab.shown : m.done =>
                ~\E n \in tab'.shown : n.turn = m.turn /\ ~n.done]_clientVars
  <2>1. SUFFICES ASSUME ClientInv, ClientInv', ClientNext
        PROVE  /\ \A m \in tab'.shown : m.session = tab'.session
               /\ tab'.current # None => tab'.current.session = tab'.session
               /\ tab'.session = tab.session =>
                    \A m \in tab.shown : m.done =>
                      ~\E n \in tab'.shown : n.turn = m.turn /\ ~n.done
        OBVIOUS
  <2>2. Keeps(tab, tab')
        BY <2>1, ClientStep
  <2>3. /\ \A m \in tab'.shown : m.session = tab'.session
        /\ tab'.current # None => tab'.current.session = tab'.session
        BY <2>1 DEF ClientInv, TabOK, ShownOK, Genuine
  <2> QED BY <2>2, <2>3 DEF Keeps, Agree
<1> QED BY <1>1, ClientInvariant, PTL DEF ClientSpec, ViewFollowsTheSession
=============================================================================
