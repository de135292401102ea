------------------------------ MODULE Reviews ------------------------------
(***************************************************************************)
(* Product reviews and their moderation (ReviewsService): a customer       *)
(* writes, edits and deletes a review, admins decide on what they have on  *)
(* their screens, and each decision is announced by an outbox event in the *)
(* same transaction.                                                       *)
(*                                                                         *)
(* Simplifications: a text is the number of the edit that wrote it; votes  *)
(* and reports are left out; a call that reads the row and then updates it *)
(* is two steps only where something read is used.                         *)
(***************************************************************************)
EXTENDS Integers, FiniteSets

CONSTANTS
    ReviewIds,    \* one per reviewed order item
    Moderators,   \* admin screens
    NoReview,
    MaxEdits      \* bound on the edits of a review

ASSUME ReviewAssumption == NoReview \notin ReviewIds /\ MaxEdits \in Nat

VARIABLES
    review,      \* ProductReview rows
    announced,   \* outbox keys REVIEW_APPROVED:<id> and REVIEW_REJECTED:<id>
    screen,      \* what an admin has loaded
    overtaken    \* history: reviews decided on from a screen that showed an older text

reviewVars == <<review, announced, screen, overtaken>>

Decisions == {"APPROVED", "REJECTED", "HIDDEN"}
Announced == {"APPROVED", "REJECTED"}

ReviewRow == [status  : {"NONE", "PENDING"} \cup Decisions,
              text    : 0 .. MaxEdits,
              judged  : 0 .. MaxEdits,    \* history: the text the last decision was about
              deleted : BOOLEAN]

Screen == [on : ReviewIds \cup {NoReview}, text : 0 .. MaxEdits]

ReviewTypeOK ==
    /\ review \in [ReviewIds -> ReviewRow]
    /\ announced \subseteq ReviewIds \X Announced
    /\ screen \in [Moderators -> Screen]
    /\ overtaken \subseteq ReviewIds

------------------------------------------------------------------------------
Blank == [on |-> NoReview, text |-> 0]

ReviewInit ==
    /\ review = [v \in ReviewIds |-> [status |-> "NONE", text |-> 0, judged |-> 0, deleted |-> FALSE]]
    /\ announced = {}
    /\ screen = [m \in Moderators |-> Blank]
    /\ overtaken = {}

Shown(v) == review[v].status # "NONE" /\ ~ review[v].deleted

(* create(): orderItemId is unique, so that a second one is refused for    *)
(* good, also after a deletion.                                            *)
CreateReview(v) ==
    /\ review[v].status = "NONE"
    /\ review' = [review EXCEPT ![v].status = "PENDING"]
    /\ UNCHANGED <<announced, screen, overtaken>>

(* Fault: an edit keeps the decision. *)
UpdateReviewQuietly(v) ==
    /\ Shown(v) /\ review[v].text < MaxEdits
    /\ review' = [review EXCEPT ![v].text = @ + 1]
    /\ overtaken' = overtaken \ {v}
    /\ UNCHANGED <<announced, screen>>

(* update(): whatever had been decided was about the old text. *)
UpdateReview(v) ==
    /\ Shown(v) /\ review[v].text < MaxEdits
    /\ review' = [review EXCEPT ![v].text = @ + 1, ![v].status = "PENDING"]
    /\ overtaken' = overtaken \ {v}
    /\ UNCHANGED <<announced, screen>>

(* remove(), removeAsAdmin(). *)
RemoveReview(v) ==
    /\ Shown(v)
    /\ review' = [review EXCEPT ![v].deleted = TRUE]
    /\ UNCHANGED <<announced, screen, overtaken>>

(* findAllForAdmin(), findOneForAdmin(). *)
LoadReview(m, v) ==
    /\ Shown(v)
    /\ screen' = [screen EXCEPT ![m] = [on |-> v, text |-> review[v].text]]
    /\ UNCHANGED <<review, announced, overtaken>>

(* moderate(): the decision is written whatever the row says by now.  Its  *)
(* event has the key of the review and the decision: where it exists, the  *)
(* duplicate key aborts the transaction and nothing is written at all.     *)
Moderate(m, d) ==
    LET v == screen[m].on
        news == IF d \in Announced THEN {<<v, d>>} ELSE {}
    IN  /\ v \in ReviewIds
        /\ screen' = [screen EXCEPT ![m] = Blank]
        /\ \/ /\ Shown(v) /\ news \cap announced = {}
              /\ review' = [review EXCEPT ![v].status = d, ![v].judged = screen[m].text]
              /\ announced' = announced \cup news
              /\ overtaken' = IF screen[m].text # review[v].text THEN overtaken \cup {v}
                              ELSE overtaken \ {v}
           \/ /\ ~ Shown(v) \/ news \cap announced # {}
              /\ UNCHANGED <<review, announced, overtaken>>

ReviewNext ==
    \/ \E v \in ReviewIds : CreateReview(v) \/ UpdateReview(v) \/ RemoveReview(v)
    \/ \E m \in Moderators, v \in ReviewIds : LoadReview(m, v)
    \/ \E m \in Moderators, d \in Decisions : Moderate(m, d)

ReviewSpec == ReviewInit /\ [][ReviewNext]_reviewVars

(* An admin looks at every pending review and approves it, again and again. *)
ReviewFairSpec ==
    /\ ReviewSpec
    /\ \A v \in ReviewIds :
          /\ WF_reviewVars(\E m \in Moderators : review[v].status = "PENDING" /\ LoadReview(m, v))
          /\ SF_reviewVars(\E m \in Moderators : screen[m].on = v /\ Moderate(m, "APPROVED"))

------------------------------------------------------------------------------
(* A decision that stands has been announced, in a form that was on the    *)
(* admin's screen: not an older text that is still called approved, unless *)
(* an edit came between look and click, nor one approved and announced     *)
(* while another decision took its place unannounced.                      *)
DecisionStands ==
    \A v \in ReviewIds : review[v].status \in Decisions =>
        /\ review[v].status \in Announced => <<v, review[v].status>> \in announced
        /\ review[v].judged = review[v].text \/ v \in overtaken

(* OutboxService says of itself that a duplicate call is "a safe, silent   *)
(* no-op"; then an edited review that is approved again gets decided.      *)
PendingIsDecided ==
    \A v \in ReviewIds :
        review[v].status = "PENDING" ~> (review[v].status # "PENDING" \/ review[v].deleted)
==============================================================================
