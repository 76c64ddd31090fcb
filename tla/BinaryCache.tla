----------------------------- MODULE BinaryCache -----------------------------
(***************************************************************************)
(* The S3 bucket that serves store paths, as the queue runner's client     *)
(* (S3BinaryCacheClient) and the builder's client (PresignedUploadClient)  *)
(* see it: a set of objects that are only ever written.  A path is served  *)
(* once its narinfo is there; the narinfo names the NAR, whose key is the  *)
(* hash of its content, so two paths with one content share the object.    *)
(***************************************************************************)
EXTENDS Naturals, FiniteSets

CONSTANTS
    Paths,        \* store paths
    Refs,         \* path -> the paths it refers to
    NarHash,      \* path -> hash of its NAR
    DebugIds,     \* path -> build ids of the debug files in it
    WriteListing, \* write_nar_listing of the store's configuration
    WriteDebug    \* write_debug_info of the store's configuration

ASSUME CacheAssumption ==
    /\ Refs \in [Paths -> SUBSET Paths]
    /\ DOMAIN NarHash = Paths
    /\ DOMAIN DebugIds = Paths
    /\ {WriteListing, WriteDebug} \subseteq BOOLEAN

VARIABLE bucket

(* Keys of the objects. *)
Nar(p)     == <<"nar", NarHash[p]>>
Listing(p) == <<"ls", p>>
Debug(id)  == <<"debuginfo", id>>
NarInfo(p) == <<"narinfo", p>>

AllDebug == UNION {DebugIds[p] : p \in Paths}
Objects  == {Nar(p) : p \in Paths} \cup {Listing(p) : p \in Paths}
            \cup {NarInfo(p) : p \in Paths} \cup {Debug(id) : id \in AllDebug}

has_narinfo(p) == NarInfo(p) \in bucket

(* The least set with the paths of S and the references of its members. *)
query_requisites(S) ==
    {p \in Paths : \A T \in SUBSET Paths :
        (S \subseteq T /\ \A q \in T : Refs[q] \subseteq T) => p \in T}

(* Mutant of Turn: the list is not sorted. *)
AnyTurn(todo) == todo

(* The list is sorted, references first: the paths of todo whose turn it is. *)
Turn(todo) == {p \in todo : Refs[p] \cap todo \subseteq {p}}

(* The debug links of p that generate_nar_upload_presigned_url signs a URL  *)
(* for: none that the bucket has; a HEAD that fails (blind) counts as no.   *)
UnlinkedDebug(p, blind) ==
    IF WriteDebug THEN {id \in DebugIds[p] : Debug(id) \notin bucket \/ id \in blind} ELSE {}

(* What a client may leave in the bucket when it writes the objects in the *)
(* order listing, debug links (all at once), NAR, and stops on the way.    *)
ListingOf(p) == IF WriteListing THEN {Listing(p)} ELSE {}
SomeLinks(links) == SUBSET {Debug(id) : id \in links}
Interrupted(p, links) == {{}} \cup {ListingOf(p) \cup D : D \in SomeLinks(links)}
Complete(p, links) == ListingOf(p) \cup {Debug(id) : id \in links} \cup {Nar(p)}

(* upload_narinfo_after_presigned_upload looks for what the builder wrote. *)
UploadFound(p) == ListingOf(p) \cup {Nar(p)} \subseteq bucket

-----------------------------------------------------------------------------
(* A path is served only with its NAR, its listing and all it refers to:   *)
(* whoever finds a narinfo can download the closure.                       *)
ClosureServed ==
    \A p \in Paths : NarInfo(p) \in bucket =>
        /\ ListingOf(p) \cup {Nar(p)} \subseteq bucket
        /\ \A q \in Refs[p] : NarInfo(q) \in bucket
=============================================================================
