---------------------------- MODULE MCBackOffice ----------------------------
(***************************************************************************)
(* Three parts of the shop that share no state, in which staff and the     *)
(* background work on the goods: a behaviour exercises one of them, and    *)
(* the others stay as they began.  Their state spaces add up.              *)
(***************************************************************************)
EXTENDS Inventory, Gallery, Catalogue, TLC

CONSTANT o1    \* the order of all lines

VARIABLE part  \* the part that is exercised

officeVars == <<part, vars, galleryVars, catalogueVars>>

MCLineOrder == [l \in Lines |-> o1]

MCInit ==
    /\ part \in {"inventory", "gallery", "catalogue"}
    /\ Init /\ GalleryInit /\ CatalogueInit

MCNext ==
    /\ UNCHANGED part
    /\ part # "inventory" => UNCHANGED vars
    /\ part # "gallery" => UNCHANGED galleryVars
    /\ part # "catalogue" => UNCHANGED catalogueVars
    /\ \/ part = "inventory" /\ Next
       \/ part = "gallery" /\ GalleryNext
       \/ part = "catalogue" /\ CatalogueNext

MCSpec == MCInit /\ [][MCNext]_officeVars

(* The calls and the rows of every part have the same names. *)
MCSymmetry == Permutations(Requests) \cup Permutations(Reservations)
==============================================================================
