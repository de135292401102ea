---------------------------- MODULE CategoryTree ----------------------------
(***************************************************************************)
(* The category tree (CategoriesService): a category names its parent, and *)
(* a move is refused if the walk up from the new parent meets the category.*)
(* The walk reads one row after the other, outside any transaction, and    *)
(* the move is written after it; an edit of anything else writes back the  *)
(* parent it has read.                                                     *)
(*                                                                         *)
(* Simplifications: slugs, order and texts are left out; products keep a   *)
(* category from being removed, which a removal that fails stands for.     *)
(***************************************************************************)
EXTENDS Integers

CONSTANTS
    Categories,
    Root,         \* the parent of a category that has none
    Curators,     \* API calls in flight
    MaxAncestors  \* MAX_ANCESTOR_DEPTH: how many rows a walk reads at most

ASSUME CategoryAssumption ==
    /\ Root \notin Categories
    /\ MaxAncestors \in Nat \ {0}

VARIABLES
    category,  \* Category rows
    curator,   \* the calls in flight
    crossed,   \* history: a parent was written while another call meant to write one
    gaveUp     \* history: a parent was written after a walk that ended at the limit

categoryVars == <<category, curator, crossed, gaveUp>>

CategoryRow == [state : {"none", "live", "deleted"}, parent : Categories \cup {Root}]

Curator == [op     : {"idle", "create", "climb", "write", "drop"},
            on     : Categories \cup {Root},
            parent : Categories \cup {Root},   \* to be written
            at     : Categories \cup {Root},   \* the row the walk reads next; Root at its end
            depth  : Nat,
            walked : SUBSET Categories]        \* history: the rows the walk has passed

CategoryTypeOK ==
    /\ category \in [Categories -> CategoryRow]
    /\ curator \in [Curators -> Curator]
    /\ crossed \in BOOLEAN /\ gaveUp \in BOOLEAN
    /\ \A m \in Curators : curator[m].op # "idle" => curator[m].on \in Categories

------------------------------------------------------------------------------
Call(op, c, p, at) == [op |-> op, on |-> c, parent |-> p, at |-> at, depth |-> 0, walked |-> {}]

NoCurator == Call("idle", Root, Root, Root)

CategoryInit ==
    /\ category = [c \in Categories |-> [state |-> "none", parent |-> Root]]
    /\ curator = [m \in Curators |-> NoCurator]
    /\ crossed = FALSE /\ gaveUp = FALSE

CuratorAt(m, op) == curator[m].op = op
CuratorBecomes(m, c) == curator' = [curator EXCEPT ![m] = c]
CuratorEnds(m) == CuratorBecomes(m, NoCurator)

LiveCategory(c) == c \in Categories /\ category[c].state = "live"

(* create(): the parent is looked up, then the row inserted. *)
BeginCategory(m, c, p) ==
    /\ CuratorAt(m, "idle")
    /\ category[c].state = "none" /\ \A n \in Curators : curator[n].on # c
    /\ p = Root \/ LiveCategory(p)
    /\ CuratorBecomes(m, Call("create", c, p, Root))
    /\ UNCHANGED <<category, crossed, gaveUp>>

InsertCategory(m) ==
    /\ CuratorAt(m, "create")
    /\ category' = [category EXCEPT ![curator[m].on] = [state |-> "live", parent |-> curator[m].parent]]
    /\ CuratorEnds(m)
    /\ UNCHANGED <<crossed, gaveUp>>

(* update() with a new parent: Root needs no walk, any other a live row.   *)
(* Its two reads are one step: what the second adds, the write ignores.    *)
BeginMove(m, c, p) ==
    /\ CuratorAt(m, "idle")
    /\ LiveCategory(c) /\ p # category[c].parent /\ p # c
    /\ \/ p = Root /\ CuratorBecomes(m, Call("write", c, p, Root))
       \/ /\ LiveCategory(p)
          /\ CuratorBecomes(m, Call("climb", c, p, p))
    /\ UNCHANGED <<category, crossed, gaveUp>>

(* update() of anything else. *)
BeginUpdate(m, c) ==
    /\ CuratorAt(m, "idle") /\ LiveCategory(c)
    /\ CuratorBecomes(m, Call("write", c, category[c].parent, Root))
    /\ UNCHANGED <<category, crossed, gaveUp>>

(* Fault: the walk ends at the first parent. *)
ClimbOnce(m) ==
    /\ CuratorAt(m, "climb")
    /\ IF curator[m].at = curator[m].on
       THEN CuratorEnds(m)
       ELSE CuratorBecomes(m, [curator[m] EXCEPT !.op = "write", !.at = Root])
    /\ UNCHANGED <<category, crossed, gaveUp>>

(* assertNoCycle(): one turn of the loop.  It also walks over deleted rows, *)
(* and gives up at the limit as if it had reached the root: the move is     *)
(* written although the rows above have not been looked at.                 *)
Climb(m) ==
    LET q == curator[m]
        up == category[q.at].parent
    IN  /\ CuratorAt(m, "climb")
        /\ IF q.at = q.on THEN CuratorEnds(m)
           ELSE CuratorBecomes(m, [op |-> IF up = Root \/ q.depth + 1 = MaxAncestors
                                          THEN "write" ELSE "climb",
                                   on |-> q.on, parent |-> q.parent, at |-> up,
                                   depth |-> q.depth + 1, walked |-> q.walked \cup {q.at}])
        /\ UNCHANGED <<category, crossed, gaveUp>>

WriteParent(m) ==
    LET q == curator[m] IN
    /\ CuratorAt(m, "write")
    /\ category' = [category EXCEPT ![q.on] = [state |-> category[q.on].state, parent |-> q.parent]]
    /\ crossed' = (crossed \/ \E n \in Curators \ {m} : curator[n].op \in {"climb", "write"})
    /\ gaveUp' = (gaveUp \/ q.at # Root)
    /\ CuratorEnds(m)

(* remove(): refused while a live category names this one. *)
BeginDrop(m, c) ==
    /\ CuratorAt(m, "idle") /\ LiveCategory(c)
    /\ \A d \in Categories : LiveCategory(d) => category[d].parent # c
    /\ CuratorBecomes(m, Call("drop", c, Root, Root))
    /\ UNCHANGED <<category, crossed, gaveUp>>

DropCategory(m) ==
    /\ CuratorAt(m, "drop")
    /\ category' = [category EXCEPT ![curator[m].on] =
                                 [state |-> "deleted", parent |-> category[curator[m].on].parent]]
    /\ CuratorEnds(m)
    /\ UNCHANGED <<crossed, gaveUp>>

CutCurator(m) ==
    /\ ~ CuratorAt(m, "idle")
    /\ CuratorEnds(m)
    /\ UNCHANGED <<category, crossed, gaveUp>>

CategoryNext ==
    \E m \in Curators :
        \/ \E c \in Categories :
              \/ \E p \in Categories \cup {Root} : BeginCategory(m, c, p) \/ BeginMove(m, c, p)
              \/ BeginUpdate(m, c) \/ BeginDrop(m, c)
        \/ InsertCategory(m) \/ Climb(m) \/ WriteParent(m) \/ DropCategory(m)
        \/ CutCurator(m)

CategorySpec == CategoryInit /\ [][CategoryNext]_categoryVars

------------------------------------------------------------------------------
(* A set of categories each of which has its parent in the set is a cycle  *)
(* or hangs from one.                                                      *)
Acyclic == \A S \in (SUBSET Categories) \ {{}} : \E c \in S : category[c].parent \notin S

(* Every parent was written alone and after a walk that came to the root.  *)
WrittenWithCare == ~ crossed /\ ~ gaveUp

(* The tree stays a tree, so that every category is shown somewhere, under *)
(* any overlap of creations, removals and one move.  Two things alone can  *)
(* close a cycle: two calls that both write a parent, one of them perhaps  *)
(* a mere renaming, since the walk and the write are apart; and a walk     *)
(* that gives up below a category that is deeper than the limit.           *)
TreeStaysATree == WrittenWithCare => Acyclic
==============================================================================
