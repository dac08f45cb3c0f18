----------------------------- MODULE MCVersions -----------------------------
(* The versions of documents, what the attempts to build one leave behind, *)
(* the catalog of knowledge bases and the listings: part says which of     *)
(* them a behaviour is about.                                              *)
EXTENDS IndexingJobs, IndexArtifacts, Catalog, Listings, TLC

(* Workers, executors, and versions before they are reserved, are          *)
(* interchangeable.                                                        *)
Symmetry == Permutations(Workers) \cup Permutations(Versions)
            \cup Permutations(Attempters)

(* A small instance of IndexArtifacts for TLC: drafts whose units differ   *)
(* in their text, in their key and the image they show, or in their text   *)
(* alone, as where a model describes an image once more.                   *)
CONSTANTS draft, redraft, recaption

Unit(key, text, shown) == [key |-> key, text |-> text, asset |-> shown]

MCUnitsOf ==
  draft :> {Unit("k1", "x", Unset), Unit("k2", "x", "a")}
  @@ redraft :> {Unit("k1", "y", Unset), Unit("k3", "x", "b")}
  @@ recaption :> {Unit("k1", "x", Unset), Unit("k2", "y", "a")}

(* A small instance of Catalog for TLC: two text revisions of one          *)
(* fingerprint, requests for one name with either, for another name in two *)
(* spaces, renames to the first name and every deletion.                   *)
CONSTANTS k1, t1, t2, m1, inbox, archive

MCPrintOf == t1 :> "f1" @@ t2 :> "f1" @@ m1 :> "f2"

MCWanted ==
  Tickets \X {Request("create", NoBase, inbox, "text_only", t1),
              Request("create", NoBase, inbox, "text_only", t2),
              Request("create", NoBase, archive, "dual_space", None)}
  \cup {k1} \X ({Request("update", b, inbox, None, None) : b \in Bases}
                 \cup DeleteRequests)

VARIABLE part

AnyListing == CHOOSE l \in ServingDocuments : TRUE
ListIdle ==
  /\ listing = AnyListing
  /\ entries = [i \in Ids |-> [state |-> "new", value |-> 0]]
  /\ walk = NewWalk
CatalogIdle == CatalogInit /\ settings.selected = [kind \in Kinds |->
                                 IF kind = "text" THEN t1 ELSE m1]

VersionsInit ==
  /\ IndexInit
  /\ \/ part = "versions" /\ ArtifactInit /\ CatalogIdle /\ ListIdle
     \/ part = "artifacts" /\ ArtifactInit /\ CatalogIdle /\ ListIdle
     \/ part = "catalog" /\ ArtifactInit /\ CatalogInit /\ ListIdle
     \/ part = "listings" /\ ArtifactInit /\ CatalogIdle /\ ListInit

VersionsNext ==
  /\ UNCHANGED part
  /\ \/ part = "versions" /\ IndexNext /\ UNCHANGED <<artifactVars, catalogVars, listVars>>
     \/ part = "artifacts" /\ ArtifactNext /\ UNCHANGED <<vars, catalogVars, listVars>>
     \/ part = "catalog" /\ CatalogNext /\ UNCHANGED <<vars, artifactVars, listVars>>
     \/ part = "listings" /\ ListNext /\ UNCHANGED <<vars, artifactVars, catalogVars>>

VersionsSpec ==
  VersionsInit /\ [][VersionsNext]_<<part, vars, artifactVars, catalogVars, listVars>>
=============================================================================
