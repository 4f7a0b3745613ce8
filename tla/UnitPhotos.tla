------------------------------ MODULE UnitPhotos ------------------------------
(***************************************************************************)
(* The photos of the units: bytes on disk under generated names, which     *)
(* carry the unit, and the list of each unit in units.photos.  There is no *)
(* transaction over the two, so each call writes them in an order that a   *)
(* failure in between can live with.                                       *)
(***************************************************************************)
EXTENDS Naturals, FiniteSets

CONSTANTS
    Photo,      \* the names that uploads will come up with
    Unit,       \* the units
    UnitOf,     \* the unit in a name, units/<unitId>/<uuid>
    Editor,     \* calls of the host and of operators
    NoPhoto,
    MaxPhotos   \* MAX_PHOTOS_PER_UNIT

ASSUME PhotoAssumption ==
    NoPhoto \notin Photo /\ UnitOf \in [Photo -> Unit] /\ MaxPhotos \in Nat

VARIABLES
    listed,   \* units.photos of all units; a name is only ever listed by its own
    bytes,    \* files under MEDIA_ROOT
    known,    \* names some page may have rendered, deleted since or not
    edit,     \* the call of each editor
    stranded, \* history: files whose call failed half-way
    crossed   \* history: names whose removal was asked of another unit

photoVars == <<listed, bytes, known, edit, stranded, crossed>>

EditStep == {"idle", "allowed", "saved", "rejected", "unlisted"}

ListOf(u) == {p \in listed : UnitOf[p] = u}

PhotosTypeOK ==
    /\ listed \subseteq Photo /\ \A u \in Unit : Cardinality(ListOf(u)) <= MaxPhotos
    /\ bytes \subseteq Photo /\ known \subseteq Photo
    /\ stranded \subseteq Photo /\ crossed \subseteq Photo
    /\ edit \in [Editor -> [step : EditStep, photo : Photo \cup {NoPhoto}]]

Resting == [step |-> "idle", photo |-> NoPhoto]

PhotosInit ==
    /\ listed = {} /\ bytes = {} /\ known = {} /\ stranded = {} /\ crossed = {}
    /\ edit = [e \in Editor |-> Resting]

EditGoes(e, step, p) == edit' = [edit EXCEPT ![e] = [step |-> step, photo |-> p]]
EditEnds(e) == edit' = [edit EXCEPT ![e] = Resting]

-----------------------------------------------------------------------------
(* assertMayEdit, the size and the magic bytes; a refusal changes nothing. *)
StartUpload(e) ==
    /\ edit[e].step = "idle"
    /\ EditGoes(e, "allowed", NoPhoto)
    /\ UNCHANGED <<listed, bytes, known, stranded, crossed>>

SavePhoto(e, p) ==
    /\ edit[e].step = "allowed"
    /\ p \notin bytes \cup known \cup stranded
    /\ p \notin {edit[x].photo : x \in Editor}
    /\ bytes' = bytes \cup {p}
    /\ EditGoes(e, "saved", p)
    /\ UNCHANGED <<listed, known, stranded, crossed>>

SaveFails(e) ==
    /\ edit[e].step = "allowed"
    /\ EditEnds(e)
    /\ UNCHANGED <<listed, bytes, known, stranded, crossed>>

(* Mutant: the append does not look at the length. *)
AppendUncapped(e) ==
    /\ edit[e].step = "saved"
    /\ listed' = listed \cup {edit[e].photo}
    /\ known' = known \cup {edit[e].photo}
    /\ EditEnds(e)
    /\ UNCHANGED <<bytes, stranded, crossed>>

(* The UPDATE that appends and checks the cap in one statement. *)
AppendPhoto(e) ==
    /\ edit[e].step = "saved"
    /\ IF Cardinality(ListOf(UnitOf[edit[e].photo])) < MaxPhotos
       THEN /\ listed' = listed \cup {edit[e].photo}
            /\ known' = known \cup {edit[e].photo}
            /\ EditEnds(e)
       ELSE EditGoes(e, "rejected", edit[e].photo) /\ UNCHANGED <<listed, known>>
    /\ UNCHANGED <<bytes, stranded, crossed>>

(* The cap rejected it: the file goes. *)
Reclaim(e) ==
    /\ edit[e].step = "rejected"
    /\ bytes' = bytes \ {edit[e].photo}
    /\ EditEnds(e)
    /\ UNCHANGED <<listed, known, stranded, crossed>>

(* Mutant: the file goes first, the row after it. *)
EraseThenUnlist(e, u, p) ==
    /\ edit[e].step = "idle"
    /\ p \in known
    /\ bytes' = bytes \ {p}
    /\ EditGoes(e, "unlisted", p)
    /\ UNCHANGED <<listed, known, stranded, crossed>>

(* remove of unit u, which the caller may edit: from its list first.  The  *)
(* page may be an old one, and nothing compares the unit with the name: it *)
(* may be on no list, or on that of another unit, which then stays as it   *)
(* is.                                                                     *)
Unlist(e, u, p) ==
    /\ edit[e].step = "idle"
    /\ p \in known
    /\ IF UnitOf[p] = u THEN listed' = listed \ {p} /\ UNCHANGED crossed
       ELSE crossed' = crossed \cup {p} /\ UNCHANGED listed
    /\ EditGoes(e, "unlisted", p)
    /\ UNCHANGED <<bytes, known, stranded>>

(* The file of that name goes, whichever list it is on. *)
EraseBytes(e) ==
    /\ edit[e].step = "unlisted"
    /\ bytes' = bytes \ {edit[e].photo}
    /\ EditEnds(e)
    /\ UNCHANGED <<listed, known, stranded, crossed>>

(* The process dies, the database refuses, or rm fails and is swallowed. *)
EditBreaks(e) ==
    /\ edit[e].step \in {"saved", "rejected", "unlisted"}
    /\ stranded' = stranded \cup ({edit[e].photo} \cap bytes)
    /\ EditEnds(e)
    /\ UNCHANGED <<listed, bytes, known, crossed>>

PhotosNext ==
    \E e \in Editor :
        \/ StartUpload(e) \/ SaveFails(e) \/ AppendPhoto(e) \/ Reclaim(e)
        \/ EraseBytes(e) \/ EditBreaks(e)
        \/ \E p \in Photo : SavePhoto(e, p) \/ \E u \in Unit : Unlist(e, u, p)

-----------------------------------------------------------------------------
(* A photo a page can render has its file, at every moment of every        *)
(* upload, removal and failure, unless a removal named it to another unit; *)
(* and no file is left behind except by a call that failed half-way.       *)
FilesMatchList ==
    /\ listed \subseteq bytes \cup crossed
    /\ bytes \subseteq listed \cup stranded \cup {edit[e].photo : e \in Editor}
===============================================================================
