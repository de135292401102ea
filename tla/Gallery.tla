------------------------------ MODULE Gallery ------------------------------
(***************************************************************************)
(* The photos of one product (ProductImagesService): rows in the database, *)
(* files in the storage, and which row is the primary one.  No operation   *)
(* but setPrimary() runs in a transaction and none takes a lock, so the    *)
(* calls of two editors interleave between any two statements.             *)
(*                                                                         *)
(* Simplifications: one product; a row is named as its file is; texts and  *)
(* sizes are left out, an invalid file is refused before the first step.   *)
(***************************************************************************)
EXTENDS Integers, FiniteSets

CONSTANTS
    Images,      \* ids of ProductImage rows, never used twice
    Editors,     \* API calls in flight
    NoImage,
    MaxImages    \* MAX_PRODUCT_IMAGES

ASSUME GalleryAssumption ==
    /\ IsFiniteSet(Images) /\ IsFiniteSet(Editors)
    /\ NoImage \notin Images
    /\ MaxImages \in Nat \ {0}

VARIABLES
    image,    \* ProductImage rows
    file,     \* objects in the storage
    editor,   \* the calls in flight
    mixed     \* history: two calls have overlapped or one was cut short

galleryVars == <<image, file, editor, mixed>>

ImageRow == [state   : {"new", "live", "gone"},
             primary : BOOLEAN,
             place   : Nat]      \* sortOrder

Editor == [op      : {"idle", "store", "insert", "count", "delete", "clean", "next", "raise",
                      "clear", "choose"},
           on      : Images \cup {NoImage},
           count   : Nat,               \* rows counted
           primary : BOOLEAN,           \* isPrimary, as it was read
           cleared : SUBSET Images]     \* rows the first statement of setPrimary() found primary

GalleryTypeOK ==
    /\ image \in [Images -> ImageRow]
    /\ file \subseteq Images
    /\ editor \in [Editors -> Editor]
    /\ mixed \in BOOLEAN
    /\ \A e \in Editors : editor[e].op # "idle" => editor[e].on \in Images

------------------------------------------------------------------------------
NoEditor == [op |-> "idle", on |-> NoImage, count |-> 0, primary |-> FALSE, cleared |-> {}]

GalleryInit ==
    /\ image = [i \in Images |-> [state |-> "new", primary |-> FALSE, place |-> 0]]
    /\ file = {}
    /\ editor = [e \in Editors |-> NoEditor]
    /\ mixed = FALSE

EditorAt(e, op) == editor[e].op = op
EditorBecomes(e, c) == editor' = [editor EXCEPT ![e] = c]
EditorGoes(e, op) == EditorBecomes(e, [editor[e] EXCEPT !.op = op])
EditorEnds(e) == EditorBecomes(e, NoEditor)

EditorStarts(e, c) ==
    /\ EditorAt(e, "idle")
    /\ EditorBecomes(e, c)
    /\ mixed' = (mixed \/ \E d \in Editors \ {e} : ~ EditorAt(d, "idle"))

Live == {i \in Images : image[i].state = "live"}

------------------------------------------------------------------------------
(* upload(): count, store the file, insert the row. *)
BeginUpload(e, i) ==
    /\ image[i].state = "new" /\ \A d \in Editors : editor[d].on # i
    /\ i \notin file
    /\ Cardinality(Live) < MaxImages
    /\ EditorStarts(e, [NoEditor EXCEPT !.op = "store", !.on = i, !.count = Cardinality(Live)])
    /\ UNCHANGED <<image, file>>

StoreFile(e) ==
    /\ EditorAt(e, "store")
    /\ file' = file \cup {editor[e].on}
    /\ EditorGoes(e, "insert")
    /\ UNCHANGED <<image, mixed>>

InsertImage(e) ==
    /\ EditorAt(e, "insert")
    /\ image' = [image EXCEPT ![editor[e].on] = [state   |-> "live",
                                                 primary |-> editor[e].count = 0,
                                                 place   |-> editor[e].count]]
    /\ EditorEnds(e)
    /\ UNCHANGED <<file, mixed>>

------------------------------------------------------------------------------
(* remove(): read the row, count, delete the row, then the file, and make  *)
(* the first of the others primary if this one was.                        *)
BeginRemove(e, i) ==
    /\ i \in Live
    /\ EditorStarts(e, [NoEditor EXCEPT !.op = "count", !.on = i, !.primary = image[i].primary])
    /\ UNCHANGED <<image, file>>

CountForRemove(e) ==
    /\ EditorAt(e, "count")
    /\ IF Cardinality(Live) > 1 THEN EditorGoes(e, "delete") ELSE EditorEnds(e)
    /\ UNCHANGED <<image, file, mixed>>

(* Fault: the file is deleted before its row. *)
DeleteImageFileFirst(e) ==
    /\ EditorAt(e, "delete")
    /\ file' = file \ {editor[e].on}
    /\ EditorGoes(e, "clean")
    /\ UNCHANGED <<image, mixed>>

(* A row that is gone by now makes the delete throw. *)
DeleteImage(e) ==
    LET i == editor[e].on IN
    /\ EditorAt(e, "delete")
    /\ IF i \in Live
       THEN image' = [image EXCEPT ![i].state = "gone", ![i].primary = FALSE] /\ EditorGoes(e, "clean")
       ELSE UNCHANGED image /\ EditorEnds(e)
    /\ UNCHANGED <<file, mixed>>

(* safeDelete(): an error of the storage is logged. *)
DeleteFile(e) ==
    /\ EditorAt(e, "clean")
    /\ file' = file \ {editor[e].on} \/ UNCHANGED file
    /\ IF editor[e].primary THEN EditorGoes(e, "next") ELSE EditorEnds(e)
    /\ UNCHANGED <<image, mixed>>

FindNext(e) ==
    /\ EditorAt(e, "next")
    /\ \/ /\ Live = {}
          /\ EditorEnds(e)
       \/ \E i \in Live :
             /\ \A j \in Live : image[i].place <= image[j].place
             /\ EditorBecomes(e, [editor[e] EXCEPT !.op = "raise", !.on = i])
    /\ UNCHANGED <<image, file, mixed>>

RaiseNext(e) ==
    LET i == editor[e].on IN
    /\ EditorAt(e, "raise")
    /\ image' = IF i \in Live THEN [image EXCEPT ![i].primary = TRUE] ELSE image
    /\ EditorEnds(e)
    /\ UNCHANGED <<file, mixed>>

------------------------------------------------------------------------------
(* setPrimary(): the row is read, then a transaction of two statements.    *)
(* The first sees the primary rows of its own moment, so that two of these *)
(* transactions may both find the same old one and miss each other's.      *)
BeginSetPrimary(e, i) ==
    /\ i \in Live
    /\ EditorStarts(e, [NoEditor EXCEPT !.op = "clear", !.on = i])
    /\ UNCHANGED <<image, file>>

ClearPrimary(e) ==
    /\ EditorAt(e, "clear")
    /\ EditorBecomes(e, [editor[e] EXCEPT !.op = "choose",
                                          !.cleared = {i \in Live : image[i].primary}])
    /\ UNCHANGED <<image, file, mixed>>

(* The second statement and the commit; a row that is gone rolls it back. *)
ChoosePrimary(e) ==
    LET i == editor[e].on IN
    /\ EditorAt(e, "choose")
    /\ image' = IF i \in Live
                THEN [j \in Images |->
                        [image[j] EXCEPT !.primary = (j = i) \/ (@ /\ j \notin editor[e].cleared)]]
                ELSE image
    /\ EditorEnds(e)
    /\ UNCHANGED <<file, mixed>>

(* reorder(), of one row. *)
Reorder(i, n) ==
    /\ i \in Live
    /\ image' = [image EXCEPT ![i].place = n]
    /\ UNCHANGED <<file, editor, mixed>>

(* The process stops, or the database or the storage fails the call. *)
CutEditor(e) ==
    /\ ~ EditorAt(e, "idle")
    /\ EditorEnds(e)
    /\ mixed' = TRUE
    /\ UNCHANGED <<image, file>>

GalleryNext ==
    \/ \E e \in Editors, i \in Images : BeginUpload(e, i) \/ BeginRemove(e, i) \/ BeginSetPrimary(e, i)
    \/ \E e \in Editors :
          \/ StoreFile(e) \/ InsertImage(e)
          \/ CountForRemove(e) \/ DeleteImage(e) \/ DeleteFile(e) \/ FindNext(e) \/ RaiseNext(e)
          \/ ClearPrimary(e) \/ ChoosePrimary(e)
          \/ CutEditor(e)
    \/ \E i \in Images, n \in 0 .. MaxImages : Reorder(i, n)

GallerySpec == GalleryInit /\ [][GalleryNext]_galleryVars

------------------------------------------------------------------------------
(* Whatever overlaps and wherever a call is cut short, a row in the        *)
(* gallery has its file, and the gallery exceeds its limit by no more than *)
(* the calls that can be in flight next to one another.                    *)
GalleryIsBacked ==
    /\ Live \subseteq file
    /\ Cardinality(Live) < MaxImages + Cardinality(Editors)

(* One call after the other, and none cut short: a product that has had    *)
(* photos has between one and MaxImages of them and exactly one is primary,*)
(* after every removal and choice of another.                              *)
GalleryIsOrderly ==
    (~ mixed /\ \A e \in Editors : EditorAt(e, "idle")) =>
        /\ Cardinality(Live) <= MaxImages
        /\ (\E i \in Images : image[i].state # "new") =>
              Cardinality({i \in Live : image[i].primary}) = 1

(* What the shop shows of a product is there to be shown, and one call at  *)
(* a time leaves exactly one photo for the listing.                        *)
GalleryIsSound == GalleryIsBacked /\ GalleryIsOrderly
==============================================================================
