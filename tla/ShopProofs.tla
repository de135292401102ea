----------------------------- MODULE ShopProofs -----------------------------
(***************************************************************************)
(* Six parts of the shop, for any number of rows and of calls in flight:   *)
(* the moderation of reviews, the move from the wishlist to the cart, the  *)
(* session of the admin application, the category tree, the photos of a    *)
(* product, and the catalogue.                                             *)
(***************************************************************************)
EXTENDS CategoryTree, Reviews, Wishlist, Sessions, Gallery, Catalogue, FiniteSetTheorems, TLAPS

------------------------------------------------------------------------------
(* Reviews.                                                                *)

ReviewIInv == ReviewTypeOK /\ DecisionStands

(* A step that writes one review and forgets no announcement. *)
LEMMA ReviewWritten ==
    ASSUME ReviewIInv, NEW v \in ReviewIds, NEW row \in ReviewRow,
           review' = [review EXCEPT ![v] = row],
           announced \subseteq announced', announced' \subseteq ReviewIds \X Announced,
           overtaken' \subseteq ReviewIds,
           \A w \in ReviewIds \ {v} : w \in overtaken => w \in overtaken',
           screen' \in [Moderators -> Screen],
           row.status \in Decisions =>
              /\ row.status \in Announced => <<v, row.status>> \in announced'
              /\ row.judged = row.text \/ v \in overtaken'
    PROVE  ReviewIInv'
<1>1. ReviewTypeOK'
  BY DEF ReviewIInv, ReviewTypeOK
<1>2. \A w \in ReviewIds : review'[w] = IF w = v THEN row ELSE review[w]
  BY DEF ReviewIInv, ReviewTypeOK
<1>3. DecisionStands'
  BY <1>2 DEF ReviewIInv, DecisionStands
<1> QED
  BY <1>1, <1>3 DEF ReviewIInv

(* Every step of the moderation. *)
LEMMA ReviewNextIInv == ReviewIInv /\ [ReviewNext]_reviewVars => ReviewIInv'
<1> SUFFICES ASSUME ReviewIInv, [ReviewNext]_reviewVars
             PROVE  ReviewIInv'
  OBVIOUS
<1>1. /\ review \in [ReviewIds -> ReviewRow]
      /\ screen \in [Moderators -> Screen]
      /\ announced \subseteq ReviewIds \X Announced /\ overtaken \subseteq ReviewIds
      /\ MaxEdits \in Nat
  BY ReviewAssumption DEF ReviewIInv, ReviewTypeOK
<1>2. ASSUME NEW v \in ReviewIds, CreateReview(v) PROVE ReviewIInv'
  <2> DEFINE row == [review[v] EXCEPT !.status = "PENDING"]
  <2>1. row \in ReviewRow /\ row.status = "PENDING"
    BY <1>1 DEF ReviewRow
  <2>2. review' = [review EXCEPT ![v] = row]
    BY <1>2 DEF CreateReview
  <2> QED
    BY <1>1, <1>2, <2>1, <2>2, ReviewWritten DEF CreateReview, Decisions
<1>3. ASSUME NEW v \in ReviewIds, UpdateReview(v) PROVE ReviewIInv'
  <2> DEFINE new == [review[v] EXCEPT !.text = review[v].text + 1]
             row == [new EXCEPT !.status = "PENDING"]
  <2>1. new \in ReviewRow
    BY <1>1, <1>3 DEF ReviewRow, UpdateReview
  <2>2. review' = [review EXCEPT ![v] = row]
    BY <1>1, <1>3 DEF UpdateReview
  <2>3. row \in ReviewRow /\ row.status = "PENDING"
    <3> HIDE DEF new
    <3> QED
      BY <2>1 DEF ReviewRow
  <2> QED
    BY <1>1, <1>3, <2>2, <2>3, ReviewWritten DEF UpdateReview, Decisions
<1>4. ASSUME NEW v \in ReviewIds, RemoveReview(v) PROVE ReviewIInv'
  <2> DEFINE row == [review[v] EXCEPT !.deleted = TRUE]
  <2>1. /\ row \in ReviewRow /\ row.status = review[v].status
        /\ row.judged = review[v].judged /\ row.text = review[v].text
    BY <1>1 DEF ReviewRow
  <2>2. review' = [review EXCEPT ![v] = row]
    BY <1>4 DEF RemoveReview
  <2>3. announced' = announced /\ screen' = screen /\ overtaken' = overtaken
    BY <1>4 DEF RemoveReview
  <2>4. review[v].status \in Decisions =>
           /\ review[v].status \in Announced => <<v, review[v].status>> \in announced
           /\ review[v].judged = review[v].text \/ v \in overtaken
    BY DEF ReviewIInv, DecisionStands
  <2>5. row.status \in Decisions =>
           /\ row.status \in Announced => <<v, row.status>> \in announced'
           /\ row.judged = row.text \/ v \in overtaken'
    BY <2>1, <2>3, <2>4
  <2> HIDE DEF row
  <2> QED
    BY <1>1, <2>1, <2>2, <2>3, <2>5, ReviewWritten
<1>5. ASSUME NEW m \in Moderators, NEW v \in ReviewIds, LoadReview(m, v) PROVE ReviewIInv'
  <2>1. [on |-> v, text |-> review[v].text] \in Screen
    BY <1>1 DEF Screen, ReviewRow
  <2>2. screen' \in [Moderators -> Screen]
    BY <1>1, <1>5, <2>1 DEF LoadReview
  <2> QED
    BY <1>5, <2>2 DEF LoadReview, ReviewIInv, ReviewTypeOK, DecisionStands
<1>6. ASSUME NEW m \in Moderators, NEW d \in Decisions, Moderate(m, d) PROVE ReviewIInv'
  <2> DEFINE v == screen[m].on
             news == IF d \in Announced THEN {<<v, d>>} ELSE {}
             row == [review[v] EXCEPT !.status = d, !.judged = screen[m].text]
  <2>1. v \in ReviewIds /\ screen[m].text \in 0 .. MaxEdits /\ screen' \in [Moderators -> Screen]
    <3>1. Blank \in Screen
      BY <1>1 DEF Blank, Screen
    <3> QED
      BY <1>1, <1>6, <3>1 DEF Moderate, Screen
  <2>2. CASE UNCHANGED <<review, announced, overtaken>>
    BY <2>1, <2>2 DEF ReviewIInv, ReviewTypeOK, DecisionStands
  <2>3. CASE /\ review' = [review EXCEPT ![v].status = d, ![v].judged = screen[m].text]
             /\ announced' = announced \cup news
             /\ overtaken' = IF screen[m].text # review[v].text THEN overtaken \cup {v}
                             ELSE overtaken \ {v}
    <3>1. /\ row \in ReviewRow /\ row.status = d /\ row.judged = screen[m].text
          /\ row.text = review[v].text
      BY <1>1, <2>1 DEF ReviewRow
    <3>2. review' = [review EXCEPT ![v] = row]
      BY <1>1, <2>1, <2>3
    <3>3. d \in Announced => <<v, d>> \in announced'
      BY <2>3
    <3>4. row.judged = row.text \/ v \in overtaken'
      BY <2>1, <2>3, <3>1
    <3>5. announced \subseteq announced' /\ announced' \subseteq ReviewIds \X Announced
      BY <1>1, <2>1, <2>3
    <3>6. overtaken' \subseteq ReviewIds /\ \A w \in ReviewIds \ {v} : w \in overtaken => w \in overtaken'
      BY <1>1, <2>1, <2>3
    <3> QED
      BY <2>1, <3>1, <3>2, <3>3, <3>4, <3>5, <3>6, ReviewWritten
  <2> QED
    BY <1>6, <2>2, <2>3 DEF Moderate
<1>7. CASE UNCHANGED reviewVars
  BY <1>7 DEF reviewVars, ReviewIInv, ReviewTypeOK, DecisionStands
<1> QED
  BY <1>2, <1>3, <1>4, <1>5, <1>6, <1>7 DEF ReviewNext

(* What update() and moderate() leave as decided was announced and had     *)
(* been seen by the admin in that form, or was edited between look and     *)
(* click.                                                                  *)
THEOREM DecisionsStand == ReviewSpec => []DecisionStands
<1>1. ReviewInit => ReviewIInv
  BY ReviewAssumption DEF ReviewInit, ReviewIInv, ReviewTypeOK, DecisionStands, ReviewRow, Decisions,
         Announced, Screen, Blank
<1>2. ReviewIInv => DecisionStands
  BY DEF ReviewIInv
<1> QED
  BY <1>1, <1>2, ReviewNextIInv, PTL DEF ReviewSpec

------------------------------------------------------------------------------
(* Sessions.                                                               *)

(* What a refresh that nothing has disturbed has made of its two tokens. *)
OnCourse(q, rows, held, share) ==
    /\ q.tab \in Tabs /\ share[q.tab] = "pending"
    /\ q.old = held /\ q.old \in Tokens
    /\ q.op \in {"read", "issue", "rotate"} => rows[q.old] = "live"
    /\ q.op \in {"rotate", "answer"} =>
          q.new \in Tokens /\ q.new # q.old /\ rows[q.new] = "live"
    /\ q.op # "refused"

SessionIInv ==
    /\ SessionTypeOK
    /\ ~ excused =>
          /\ \A c, d \in Underway : c = d
          /\ \A c \in Underway : OnCourse(refresh[c], token, stored, shared)
          /\ stored # NoToken /\ Underway = {} => token[stored] = "live"

(* A refresh that is on its way is replaced by another record of it. *)
LEMMA RefreshGoesOn ==
    ASSUME SessionIInv, NEW c \in Refreshes, NEW x \in Refresh, RefreshBecomes(c, x),
           token' \in [Tokens -> TokenState], UNCHANGED <<stored, shared, excused>>,
           c \in Underway, x.op # "idle",
           ~ excused => OnCourse(x, token', stored', shared')
    PROVE  SessionIInv'
<1>1. /\ refresh' \in [Refreshes -> Refresh] /\ refresh'[c] = x
      /\ \A d \in Refreshes : d # c => refresh'[d] = refresh[d]
  BY DEF SessionIInv, SessionTypeOK, RefreshBecomes
<1>2. SessionTypeOK'
  BY <1>1 DEF SessionIInv, SessionTypeOK
<1>3. Underway' = Underway
  BY <1>1 DEF Underway, RefreshAt
<1>4. ASSUME ~ excused PROVE \A d \in Underway : d = c
  BY <1>4 DEF SessionIInv
<1> QED
  BY <1>1, <1>2, <1>3, <1>4 DEF SessionIInv, OnCourse

(* Every step of the client and the service. *)
LEMMA SessionNextIInv == SessionIInv /\ [SessionNext]_sessionVars => SessionIInv'
<1> SUFFICES ASSUME SessionIInv, [SessionNext]_sessionVars
             PROVE  SessionIInv'
  OBVIOUS
<1>1. /\ token \in [Tokens -> TokenState] /\ stored \in Tokens \cup {NoToken}
      /\ shared \in [Tabs -> {"none", "pending", "failed"}]
      /\ refresh \in [Refreshes -> Refresh] /\ excused \in BOOLEAN
      /\ NoToken \notin Tokens /\ NoTab \notin Tabs
      /\ NoRefresh \in Refresh /\ NoRefresh.op = "idle"
  BY SessionAssumption DEF SessionIInv, SessionTypeOK, NoRefresh, Refresh
<1>2. RevokedAll \in [Tokens -> TokenState]
  BY <1>1 DEF RevokedAll, TokenState
<1>3. ASSUME NEW k \in Tokens, SignIn(k) PROVE SessionIInv'
  <2>1. Underway' = Underway /\ excused' \in BOOLEAN
    BY <1>1, <1>3 DEF SignIn, Underway, RefreshAt
  <2>2. SessionTypeOK' /\ token'[k] = "live" /\ stored' = k
    BY <1>1, <1>3, <2>1 DEF SignIn, SessionTypeOK, TokenState
  <2> QED
    BY <1>3, <2>1, <2>2 DEF SignIn, SessionIInv
<1>4. ASSUME SignOut PROVE SessionIInv'
  <2>1. Underway' = Underway /\ excused' \in BOOLEAN
    BY <1>1, <1>4 DEF SignOut, Underway, RefreshAt
  <2>2. SessionTypeOK' /\ stored' = NoToken
    BY <1>1, <1>4, <2>1 DEF SignOut, SessionTypeOK, TokenState
  <2> QED
    BY <1>4, <2>1, <2>2 DEF SignOut, SessionIInv
<1>5. ASSUME NEW c \in Refreshes, NEW b \in Tabs, StartRefresh(c, b) PROVE SessionIInv'
  <2> DEFINE x == [op |-> "read", tab |-> b, old |-> stored, new |-> NoToken]
  <2>1. x \in Refresh
    BY <1>1 DEF Refresh
  <2>2. /\ refresh' \in [Refreshes -> Refresh] /\ refresh'[c] = x
        /\ \A d \in Refreshes : d # c => refresh'[d] = refresh[d]
        /\ shared' \in [Tabs -> {"none", "pending", "failed"}]
        /\ excused' \in BOOLEAN
    BY <1>1, <1>5, <2>1 DEF StartRefresh, RefreshBecomes
  <2>3. SessionTypeOK'
    BY <1>1, <1>5, <2>2 DEF StartRefresh, SessionTypeOK
  <2>4. Underway' = Underway \cup {c} /\ c \notin Underway
    BY <1>5, <2>2 DEF StartRefresh, Underway, RefreshAt
  <2>5. ASSUME ~ excused' PROVE Underway = {}
    <3>1. ~ excused /\ \A d \in Underway : refresh[d].tab = b
      BY <1>5, <2>5 DEF StartRefresh
    <3>2. shared[b] = "none"
      BY <1>5 DEF StartRefresh, Share
    <3> QED
      BY <3>1, <3>2 DEF SessionIInv, OnCourse
  <2>6. ASSUME ~ excused' PROVE OnCourse(x, token', stored', shared') /\ ~ excused /\ stored # NoToken
    <3>1. ~ excused /\ stored # NoToken /\ shared' = [shared EXCEPT ![b] = "pending"]
          /\ token' = token /\ stored' = stored
      BY <1>5, <2>6 DEF StartRefresh
    <3>2. token[stored] = "live"
      BY <2>5, <2>6, <3>1 DEF SessionIInv
    <3> QED
      BY <1>1, <3>1, <3>2 DEF OnCourse
  <2> QED
    BY <2>2, <2>3, <2>4, <2>5, <2>6 DEF SessionIInv, OnCourse
<1>6. ASSUME NEW c \in Refreshes, ReadToken(c) PROVE SessionIInv'
  <2> DEFINE k == refresh[c].old
             x == [refresh[c] EXCEPT !.op = IF token[k] = "live" THEN "issue" ELSE "refused"]
  <2>1. /\ x \in Refresh /\ x.op = (IF token[k] = "live" THEN "issue" ELSE "refused")
        /\ x.tab = refresh[c].tab /\ x.old = k
        /\ RefreshBecomes(c, x) /\ c \in Underway
    BY <1>1, <1>6 DEF ReadToken, Refresh, RefreshAt, Underway
  <2>2. token' \in [Tokens -> TokenState] /\ UNCHANGED <<stored, shared, excused>>
    BY <1>1, <1>2, <1>6 DEF ReadToken
  <2>3. ASSUME ~ excused PROVE OnCourse(x, token', stored', shared')
    <3>1. OnCourse(refresh[c], token, stored, shared) /\ refresh[c].op = "read"
      BY <1>6, <2>1, <2>3 DEF SessionIInv, ReadToken, RefreshAt
    <3>2. token[k] = "live" /\ token' = token
      BY <1>6, <3>1 DEF OnCourse, ReadToken
    <3> QED
      BY <2>1, <2>2, <3>1, <3>2 DEF OnCourse
  <2>4. x.op # "idle"
    BY <2>1
  <2> HIDE DEF x
  <2> QED
    BY <2>1, <2>2, <2>3, <2>4, RefreshGoesOn
<1>7. ASSUME NEW c \in Refreshes, NEW k \in Tokens, IssueToken(c, k) PROVE SessionIInv'
  <2> DEFINE x == [op |-> "rotate", tab |-> refresh[c].tab, old |-> refresh[c].old, new |-> k]
  <2>1. x \in Refresh /\ RefreshBecomes(c, x) /\ c \in Underway /\ x.op # "idle"
    BY <1>1, <1>7 DEF IssueToken, Refresh, RefreshAt, Underway
  <2>2. /\ token' \in [Tokens -> TokenState] /\ token'[k] = "live" /\ token[k] = "none"
        /\ \A j \in Tokens : j # k => token'[j] = token[j]
        /\ UNCHANGED <<stored, shared, excused>>
    BY <1>1, <1>7 DEF IssueToken, Unissued, TokenState
  <2>3. ASSUME ~ excused PROVE OnCourse(x, token', stored', shared')
    <3>1. OnCourse(refresh[c], token, stored, shared) /\ refresh[c].op = "issue"
      BY <1>7, <2>1, <2>3 DEF SessionIInv, IssueToken, RefreshAt
    <3> QED
      BY <2>2, <3>1 DEF OnCourse
  <2> QED
    BY <2>1, <2>2, <2>3, RefreshGoesOn
<1>8. ASSUME NEW c \in Refreshes, RotateToken(c) PROVE SessionIInv'
  <2> DEFINE k == refresh[c].old
             x == [refresh[c] EXCEPT !.op = "answer"]
  <2>1. /\ x \in Refresh /\ x.op = "answer" /\ x.tab = refresh[c].tab
        /\ x.old = k /\ x.new = refresh[c].new
        /\ RefreshBecomes(c, x) /\ c \in Underway
    BY <1>1, <1>8 DEF RotateToken, Refresh, RefreshAt, Underway
  <2>2. /\ token' \in [Tokens -> TokenState]
        /\ \A j \in Tokens : j # k => token'[j] = token[j]
        /\ UNCHANGED <<stored, shared, excused>>
    BY <1>1, <1>8 DEF RotateToken, TokenState
  <2>3. ASSUME ~ excused PROVE OnCourse(x, token', stored', shared')
    <3>1. OnCourse(refresh[c], token, stored, shared) /\ refresh[c].op = "rotate"
      BY <1>8, <2>1, <2>3 DEF SessionIInv, RotateToken, RefreshAt
    <3> QED
      BY <2>1, <2>2, <3>1 DEF OnCourse
  <2> HIDE DEF x
  <2> QED
    BY <2>1, <2>2, <2>3, RefreshGoesOn
<1>9. ASSUME NEW c \in Refreshes, TakeAnswer(c) PROVE SessionIInv'
  <2>1. /\ refresh' \in [Refreshes -> Refresh] /\ refresh'[c] = NoRefresh
        /\ \A d \in Refreshes : d # c => refresh'[d] = refresh[d]
        /\ shared' \in [Tabs -> {"none", "pending", "failed"}]
        /\ stored' \in Tokens \cup {NoToken}
        /\ token' = token /\ excused' = excused
    BY <1>1, <1>9 DEF TakeAnswer, RefreshBecomes, Refresh
  <2>2. SessionTypeOK'
    BY <1>1, <2>1 DEF SessionTypeOK
  <2>3. Underway' = Underway \ {c} /\ c \in Underway
    BY <1>1, <1>9, <2>1 DEF TakeAnswer, Underway, RefreshAt
  <2>4. ASSUME ~ excused PROVE Underway' = {} /\ token'[stored'] = "live"
    <3>1. OnCourse(refresh[c], token, stored, shared) /\ \A d \in Underway : d = c
      BY <2>3, <2>4 DEF SessionIInv
    <3>2. refresh[c].op = "answer" /\ stored' = refresh[c].new
      BY <1>9, <3>1 DEF OnCourse, TakeAnswer, RefreshAt
    <3> QED
      BY <2>1, <2>3, <3>1, <3>2 DEF OnCourse
  <2> QED
    BY <2>1, <2>2, <2>4 DEF SessionIInv
<1>10. ASSUME NEW c \in Refreshes, FailRefresh(c) PROVE SessionIInv'
  <2>1. [refresh[c] EXCEPT !.op = "refused"] \in Refresh
    BY <1>1 DEF Refresh
  <2> QED
    BY <1>1, <1>10, <2>1 DEF FailRefresh, RefreshBecomes, SessionIInv, SessionTypeOK
<1>11. ASSUME NEW c \in Refreshes, LoseAnswer(c) PROVE SessionIInv'
  BY <1>1, <1>11 DEF LoseAnswer, RefreshBecomes, SessionIInv, SessionTypeOK
<1>12. ASSUME NEW b \in Tabs, Reload(b) PROVE SessionIInv'
  <2>1. SessionTypeOK' /\ Underway' = Underway
    BY <1>1, <1>12 DEF Reload, SessionTypeOK, Underway, RefreshAt
  <2>2. ASSUME ~ excused, NEW c \in Underway PROVE OnCourse(refresh'[c], token', stored', shared')
    <3>1. OnCourse(refresh[c], token, stored, shared) /\ shared[b] = "failed"
      BY <1>12, <2>2 DEF SessionIInv, Reload
    <3> QED
      BY <1>1, <1>12, <3>1 DEF Reload, OnCourse
  <2> QED
    BY <1>12, <2>1, <2>2 DEF SessionIInv, Reload
<1>13. ASSUME RevokeAll PROVE SessionIInv'
  BY <1>1, <1>2, <1>13 DEF RevokeAll, SessionIInv, SessionTypeOK
<1>14. CASE UNCHANGED sessionVars
  BY <1>14 DEF sessionVars, SessionIInv, SessionTypeOK, Underway, RefreshAt, OnCourse
<1> QED
  BY <1>3, <1>4, <1>5, <1>6, <1>7, <1>8, <1>9, <1>10, <1>11, <1>12, <1>13, <1>14 DEF SessionNext

(* refreshInFlight of api-client.ts and the rotation of AuthService keep a *)
(* client signed in unless one of the named accidents happens.             *)
THEOREM ClientStaysSignedIn == SessionSpec => []StaysSignedIn
<1>1. SessionInit => SessionIInv
  <2> SUFFICES ASSUME SessionInit
               PROVE  SessionIInv
    OBVIOUS
  <2>1. SessionTypeOK
    BY DEF SessionInit, SessionTypeOK, TokenState, Refresh, NoRefresh
  <2>2. Underway = {} /\ stored = NoToken
    BY DEF SessionInit, Underway, RefreshAt, NoRefresh
  <2> QED
    BY <2>1, <2>2 DEF SessionIInv
<1>2. SessionIInv => StaysSignedIn
  <2> SUFFICES ASSUME SessionIInv, ~ excused, stored # NoToken
               PROVE  \/ token[stored] = "live"
                      \/ \E c \in Underway : /\ RefreshAt(c, "answer") /\ refresh[c].old = stored
                                             /\ token[refresh[c].new] = "live"
    BY DEF StaysSignedIn
  <2>1. CASE Underway = {}
    BY <2>1 DEF SessionIInv
  <2>2. ASSUME NEW c \in Underway PROVE token[stored] = "live" \/ RefreshAt(c, "answer")
    <3>1. OnCourse(refresh[c], token, stored, shared)
      BY DEF SessionIInv
    <3>2. refresh[c].op \in {"read", "issue", "rotate", "answer", "refused"}
      BY DEF Underway, RefreshAt, SessionIInv, SessionTypeOK, Refresh
    <3> QED
      BY <3>1, <3>2 DEF OnCourse, RefreshAt
  <2> QED
    BY <2>1, <2>2 DEF SessionIInv, OnCourse, RefreshAt
<1> QED
  BY <1>1, <1>2, SessionNextIInv, PTL DEF SessionSpec

------------------------------------------------------------------------------
(* The wishlist.                                                           *)

Claims(q, w) == q.on = w /\ q.op \in {"add", "restore"}

(* A row is listed, or claimed by one call, or neither. *)
OneClaim ==
    \A w \in Wishes : \A r \in Movers : Claims(mover[r], w) =>
        /\ w \notin listed
        /\ \A s \in Movers : Claims(mover[s], w) => s = r

Kept(w) ==
    \/ Untouched(w)
    \/ w \in listed /\ moved[w] = 0
    \/ /\ w \notin listed
       /\ \E r \in Movers : /\ Claims(mover[r], w)
                            /\ moved[w] = IF mover[r].late THEN 1 ELSE 0
    \/ /\ w \notin listed /\ moved[w] = 1
       /\ \A r \in Movers : ~ Claims(mover[r], w)

WishTypes ==
    /\ listed = {} \/ \E w \in Wishes : listed = {w}
    /\ moved \in [Wishes -> 0 .. 2]
    /\ mover \in [Movers -> Mover]
    /\ given \subseteq Wishes
    /\ \A r \in Movers :
          /\ mover[r].op # "idle" => mover[r].on \in Wishes
          /\ mover[r].op \in {"claim", "add"} => ~ mover[r].late

WishIInv == WishTypes /\ OneClaim /\ \A w \in Wishes \ given : Kept(w)

(* Every step of the list, the calls and the cart. *)
LEMMA WishNextIInv == WishIInv /\ [WishlistNext]_wishVars => WishIInv'
<1> SUFFICES ASSUME WishIInv, [WishlistNext]_wishVars
             PROVE  WishIInv'
  OBVIOUS
<1>1. /\ WishTypes /\ OneClaim
      /\ \A w \in Wishes \ given : Kept(w)
      /\ mover \in [Movers -> Mover] /\ moved \in [Wishes -> 0 .. 2] /\ given \subseteq Wishes
      /\ listed \subseteq Wishes
      /\ NoMover \in Mover /\ NoMover.op = "idle" /\ NoMover.on = NoWish /\ NoWish \notin Wishes
  BY WishlistAssumption DEF WishIInv, WishTypes, Mover, NoMover
<1>2. ASSUME NEW w \in Wishes, AddWish(w) PROVE WishIInv'
  <2>1. listed = {} /\ listed' = {w} /\ Untouched(w) /\ UNCHANGED <<moved, mover, given>>
    BY <1>2 DEF AddWish
  <2>2. WishTypes'
    BY <1>1, <2>1 DEF WishTypes
  <2>3. OneClaim'
    BY <1>1, <2>1 DEF OneClaim, Untouched, Claims
  <2>4. ASSUME NEW v \in Wishes \ given PROVE Kept(v)'
    <3>1. CASE v = w
      BY <2>1, <3>1 DEF Kept, Untouched
    <3>2. CASE v # w
      BY <1>1, <2>1, <3>2 DEF Kept, Untouched
    <3> QED
      BY <3>1, <3>2
  <2> QED
    BY <2>1, <2>2, <2>3, <2>4 DEF WishIInv
<1>3. ASSUME NEW w \in Wishes, RemoveWish(w) PROVE WishIInv'
  <2>1. /\ w \in listed /\ listed' = listed \ {w} /\ given' = given \cup {w}
        /\ UNCHANGED <<moved, mover>>
    BY <1>3 DEF RemoveWish
  <2>2. WishTypes'
    BY <1>1, <2>1 DEF WishTypes
  <2>3. OneClaim'
    BY <1>1, <2>1 DEF OneClaim
  <2>4. ASSUME NEW v \in Wishes \ given' PROVE Kept(v)'
    <3>1. Kept(v) /\ v # w /\ (v \in listed' <=> v \in listed) /\ (v \in given' <=> v \in given)
      BY <1>1, <2>1
    <3> QED
      BY <2>1, <3>1 DEF Kept, Untouched
  <2> QED
    BY <2>2, <2>3, <2>4 DEF WishIInv
<1>4. ASSUME NEW r \in Movers, ~ MoverAt(r, "idle"), NEW x \in Mover, MoverBecomes(r, x),
             x.op # "idle" => x.on \in Wishes,
             x.op \in {"claim", "add"} => ~ x.late
      PROVE  /\ mover' \in [Movers -> Mover] /\ mover'[r] = x
             /\ \A s \in Movers : s # r => mover'[s] = mover[s]
             /\ \A s \in Movers :
                   /\ mover'[s].op # "idle" => mover'[s].on \in Wishes
                   /\ mover'[s].op \in {"claim", "add"} => ~ mover'[s].late
  BY <1>1, <1>4 DEF MoverBecomes, WishTypes
<1>5. ASSUME NEW r \in Movers, NEW w \in Wishes, BeginMoveToCart(r, w) PROVE WishIInv'
  <2> DEFINE x == [op |-> "claim", on |-> w, late |-> FALSE]
  <2>1. /\ x \in Mover /\ w \in listed /\ UNCHANGED <<listed, moved, given>>
        /\ mover[r].op = "idle"
        /\ mover' \in [Movers -> Mover] /\ mover'[r] = x
        /\ \A s \in Movers : s # r => mover'[s] = mover[s]
    BY <1>1, <1>5 DEF BeginMoveToCart, MoverBecomes, MoverAt, Mover
  <2>2. WishTypes'
    BY <1>1, <2>1 DEF WishTypes
  <2>3. \A s \in Movers, v \in Wishes : Claims(mover'[s], v) <=> Claims(mover[s], v)
    BY <2>1 DEF Claims
  <2>4. OneClaim'
    BY <1>1, <2>1, <2>3 DEF OneClaim, Claims
  <2>5. ASSUME NEW v \in Wishes \ given PROVE Kept(v)'
    <3>1. CASE Untouched(v)
      BY <2>1, <3>1 DEF Kept, Untouched
    <3>2. CASE v \in listed /\ moved[v] = 0
      BY <2>1, <3>2 DEF Kept
    <3>3. CASE /\ v \notin listed
               /\ \E s \in Movers : /\ Claims(mover[s], v)
                                    /\ moved[v] = IF mover[s].late THEN 1 ELSE 0
      <4>1. PICK s \in Movers : Claims(mover[s], v) /\ moved[v] = IF mover[s].late THEN 1 ELSE 0
        BY <3>3
      <4>2. s # r
        BY <2>1, <4>1 DEF Claims
      <4> QED
        BY <2>1, <3>3, <4>1, <4>2 DEF Kept, Claims
    <3>4. CASE /\ v \notin listed /\ moved[v] = 1
               /\ \A s \in Movers : ~ Claims(mover[s], v)
      BY <2>1, <2>3, <3>4 DEF Kept, Claims
    <3> QED
      BY <1>1, <3>1, <3>2, <3>3, <3>4 DEF Kept
  <2> QED
    BY <2>1, <2>2, <2>4, <2>5 DEF WishIInv
<1>6. ASSUME NEW r \in Movers, ClaimWish(r) PROVE WishIInv'
  <2> DEFINE w == mover[r].on
             x == IF w \in listed THEN [mover[r] EXCEPT !.op = "add"] ELSE NoMover
  <2>1. mover[r].op = "claim" /\ w \in Wishes /\ ~ mover[r].late /\ mover[r] \in Mover
    BY <1>1, <1>6 DEF ClaimWish, MoverAt, WishTypes
  <2>2. /\ x \in Mover
        /\ w \in listed => x.op = "add" /\ x.on = w /\ ~ x.late
        /\ w \notin listed => x = NoMover
    BY <1>1, <2>1 DEF Mover
  <2>3. /\ MoverBecomes(r, x) /\ UNCHANGED <<moved, given>>
        /\ listed' = IF w \in listed THEN listed \ {w} ELSE listed
    BY <1>6 DEF ClaimWish, MoverGoes
  <2> HIDE DEF x
  <2>4. /\ mover' \in [Movers -> Mover] /\ mover'[r] = x
        /\ \A s \in Movers : s # r => mover'[s] = mover[s]
        /\ \A s \in Movers : /\ mover'[s].op # "idle" => mover'[s].on \in Wishes
                             /\ mover'[s].op \in {"claim", "add"} => ~ mover'[s].late
    BY <1>1, <1>4, <2>1, <2>2, <2>3 DEF MoverAt
  <2>5. WishTypes'
    BY <1>1, <2>3, <2>4 DEF WishTypes
  <2>6. OneClaim'
    BY <1>1, <2>1, <2>2, <2>3, <2>4 DEF OneClaim, Claims
  <2>7. ASSUME NEW v \in Wishes \ given PROVE Kept(v)'
    <3>1. CASE v = w /\ w \in listed
      <4>1. moved[v] = 0
        BY <1>1, <3>1 DEF Kept, Untouched, OneClaim
      <4> QED
        BY <2>2, <2>3, <2>4, <3>1, <4>1 DEF Kept, Claims
    <3>2. CASE v # w \/ w \notin listed
      <4>1. v \in listed' <=> v \in listed
        BY <2>3, <3>2
      <4>2. \A s \in Movers : Claims(mover'[s], v) <=> Claims(mover[s], v)
        BY <1>1, <2>1, <2>2, <2>4, <3>2 DEF Claims
      <4>3. \A s \in Movers : Claims(mover[s], v) => mover'[s].late = mover[s].late
        BY <2>1, <2>4 DEF Claims
      <4>4. Untouched(v) => Untouched(v)'
        BY <1>1, <2>1, <2>2, <2>3, <2>4, <4>1 DEF Untouched
      <4>5. Kept(v) /\ moved' = moved
        BY <1>1, <2>3
      <4> HIDE DEF w
      <4> QED
        BY <4>1, <4>2, <4>3, <4>4, <4>5 DEF Kept
    <3> QED
      BY <3>1, <3>2
  <2> QED
    BY <2>3, <2>5, <2>6, <2>7 DEF WishIInv
<1>7. ASSUME NEW r \in Movers, AddToCart(r) PROVE WishIInv'
  <2> DEFINE w == mover[r].on
             put == [mover[r] EXCEPT !.op = "restore"]
             again == [put EXCEPT !.late = TRUE]
             Added == moved' = [moved EXCEPT ![w] = IF moved[w] < 2 THEN moved[w] + 1 ELSE moved[w]]
  <2>1. mover[r].op = "add" /\ w \in Wishes /\ ~ mover[r].late /\ mover[r] \in Mover
    BY <1>1, <1>7 DEF AddToCart, MoverAt, WishTypes
  <2>2. put \in Mover /\ put.op = "restore" /\ put.on = w /\ ~ put.late
    BY <2>1 DEF Mover
  <2>3. again \in Mover /\ again.op = "restore" /\ again.on = w /\ again.late
    <3> HIDE DEF put
    <3> QED
      BY <2>2 DEF Mover
  <2>4. /\ UNCHANGED <<listed, given>>
        /\ \/ Added /\ MoverBecomes(r, NoMover)
           \/ UNCHANGED moved /\ MoverBecomes(r, put)
           \/ Added /\ MoverBecomes(r, again)
    BY <1>7 DEF AddToCart, MoverGoes
  <2> HIDE DEF put, again
  <2>5. PICK x \in {NoMover, put, again} :
           MoverBecomes(r, x) /\ (IF x = put THEN UNCHANGED moved ELSE Added)
    BY <1>1, <2>2, <2>3, <2>4
  <2>6. /\ mover' \in [Movers -> Mover] /\ mover'[r] = x
        /\ \A s \in Movers : s # r => mover'[s] = mover[s]
        /\ \A s \in Movers : /\ mover'[s].op # "idle" => mover'[s].on \in Wishes
                             /\ mover'[s].op \in {"claim", "add"} => ~ mover'[s].late
    BY <1>1, <1>4, <2>1, <2>2, <2>3, <2>5 DEF MoverAt
  <2>7. moved' \in [Wishes -> 0 .. 2] /\ \A v \in Wishes : v # w => moved'[v] = moved[v]
    BY <1>1, <2>1, <2>5
  <2>8. WishTypes'
    BY <1>1, <2>4, <2>6, <2>7 DEF WishTypes
  <2>9. \A s \in Movers, v \in Wishes : Claims(mover'[s], v) => Claims(mover[s], v)
    BY <1>1, <2>1, <2>2, <2>3, <2>5, <2>6 DEF Claims
  <2>10. OneClaim'
    BY <1>1, <2>4, <2>9 DEF OneClaim
  <2>11. ASSUME NEW v \in Wishes \ given PROVE Kept(v)'
    <3>1. CASE v = w
      <4>1. w \notin listed /\ moved[w] = 0
        <5>1. Kept(w) /\ Claims(mover[r], w)
          BY <1>1, <2>1, <3>1 DEF Claims
        <5>2. w \notin listed /\ ~ Untouched(w) /\ \A s \in Movers : Claims(mover[s], w) => s = r
          BY <1>1, <2>1, <5>1 DEF OneClaim, Untouched
        <5> QED
          BY <2>1, <5>1, <5>2 DEF Kept
      <4>2. \A s \in Movers : Claims(mover'[s], w) => s = r
        BY <1>1, <2>1, <2>9 DEF OneClaim, Claims
      <4>3. moved'[w] = IF x = put THEN 0 ELSE 1
        BY <1>1, <2>1, <2>5, <4>1
      <4>4. CASE x = NoMover
        BY <1>1, <2>1, <2>2, <2>4, <2>6, <3>1, <4>1, <4>2, <4>3, <4>4 DEF Kept, Claims
      <4>5. CASE x = put \/ x = again
        BY <2>1, <2>2, <2>3, <2>4, <2>6, <3>1, <4>1, <4>3, <4>5 DEF Kept, Claims
      <4> QED
        BY <4>4, <4>5
    <3>2. CASE v # w
      <4>1. \A s \in Movers : Claims(mover'[s], v) <=> Claims(mover[s], v)
        BY <1>1, <2>1, <2>2, <2>3, <2>5, <2>6, <3>2 DEF Claims
      <4>2. \A s \in Movers : Claims(mover[s], v) => mover'[s].late = mover[s].late
        BY <2>6, <3>2 DEF Claims
      <4>3. moved'[v] = moved[v] /\ listed' = listed /\ Kept(v)
        BY <1>1, <2>4, <2>7, <3>2
      <4>4. Untouched(v) => Untouched(v)'
        BY <1>1, <2>2, <2>3, <2>4, <2>6, <3>2, <4>3 DEF Untouched
      <4> HIDE DEF w
      <4> QED
        BY <4>1, <4>2, <4>3, <4>4 DEF Kept
    <3> QED
      BY <3>1, <3>2
  <2> QED
    BY <2>4, <2>8, <2>10, <2>11 DEF WishIInv
<1>8. ASSUME NEW r \in Movers, RestoreWish(r) PROVE WishIInv'
  <2> DEFINE w == mover[r].on
  <2>1. mover[r].op = "restore" /\ w \in Wishes /\ Claims(mover[r], w)
    BY <1>1, <1>8 DEF RestoreWish, MoverAt, WishTypes, Claims
  <2>2. /\ MoverBecomes(r, NoMover) /\ moved' = moved
        /\ listed' = IF listed = {} THEN {w} ELSE listed
        /\ given' = IF listed # {} \/ mover[r].late THEN given \cup {w} ELSE given
    BY <1>8 DEF RestoreWish
  <2>3. /\ mover' \in [Movers -> Mover] /\ mover'[r] = NoMover
        /\ \A s \in Movers : s # r => mover'[s] = mover[s]
        /\ \A s \in Movers : /\ mover'[s].op # "idle" => mover'[s].on \in Wishes
                             /\ mover'[s].op \in {"claim", "add"} => ~ mover'[s].late
    BY <1>1, <1>4, <2>1, <2>2 DEF MoverAt
  <2>4. WishTypes'
    BY <1>1, <2>1, <2>2, <2>3 DEF WishTypes
  <2>5. /\ \A s \in Movers : ~ Claims(mover'[s], w)
        /\ \A s \in Movers, v \in Wishes : v # w => (Claims(mover'[s], v) <=> Claims(mover[s], v))
    BY <1>1, <2>1, <2>3 DEF OneClaim, Claims
  <2>6. OneClaim'
    BY <1>1, <2>1, <2>2, <2>5 DEF OneClaim
  <2>7. ASSUME NEW v \in Wishes \ given' PROVE Kept(v)'
    <3>1. Kept(v)
      BY <1>1, <2>2
    <3>2. CASE v = w
      <4>1. listed' = {w} /\ ~ mover[r].late /\ listed = {}
        BY <2>2, <3>2
      <4>2. ~ Untouched(w) /\ \A s \in Movers : Claims(mover[s], w) => s = r
        BY <1>1, <2>1 DEF OneClaim, Untouched
      <4>3. moved[w] = 0
        BY <2>1, <3>1, <3>2, <4>1, <4>2 DEF Kept
      <4> QED
        BY <2>2, <3>2, <4>1, <4>3 DEF Kept
    <3>3. CASE v # w
      <4>1. /\ v \in listed' <=> v \in listed
            /\ v \in given' <=> v \in given
        BY <2>2, <3>3
      <4>2. \A s \in Movers : Claims(mover[s], v) => mover'[s].late = mover[s].late
        BY <2>1, <2>3, <3>3 DEF Claims
      <4>3. Untouched(v) => Untouched(v)'
        BY <1>1, <2>2, <2>3, <4>1 DEF Untouched
      <4>4. \A s \in Movers : Claims(mover'[s], v) <=> Claims(mover[s], v)
        BY <2>5, <3>3
      <4>5. moved' = moved
        BY <2>2
      <4> HIDE DEF w
      <4> QED
        BY <3>1, <4>1, <4>2, <4>3, <4>4, <4>5 DEF Kept
    <3> QED
      BY <3>2, <3>3
  <2> QED
    BY <2>4, <2>6, <2>7 DEF WishIInv
<1>9. ASSUME NEW r \in Movers, CutMover(r) PROVE WishIInv'
  <2> DEFINE w == mover[r].on
  <2>1. /\ MoverBecomes(r, NoMover) /\ UNCHANGED <<listed, moved>> /\ w \in Wishes
        /\ given' = IF mover[r].op = "claim" THEN given ELSE given \cup {w}
        /\ ~ MoverAt(r, "idle")
    BY <1>1, <1>9 DEF CutMover, MoverAt, WishTypes
  <2>2. /\ mover' \in [Movers -> Mover] /\ mover'[r] = NoMover
        /\ \A s \in Movers : s # r => mover'[s] = mover[s]
        /\ \A s \in Movers : /\ mover'[s].op # "idle" => mover'[s].on \in Wishes
                             /\ mover'[s].op \in {"claim", "add"} => ~ mover'[s].late
    BY <1>1, <1>4, <2>1
  <2>3. WishTypes'
    BY <1>1, <2>1, <2>2 DEF WishTypes
  <2>4. \A s \in Movers, v \in Wishes : Claims(mover'[s], v) => Claims(mover[s], v) /\ s # r
    BY <1>1, <2>2 DEF Claims
  <2>5. OneClaim'
    BY <1>1, <2>1, <2>4 DEF OneClaim
  <2>6. ASSUME NEW v \in Wishes \ given' PROVE Kept(v)'
    <3>1. Kept(v) /\ v \notin given /\ v \notin given' /\ ~ Claims(mover[r], v)
      BY <1>1, <2>1 DEF Claims
    <3>2. \A s \in Movers : Claims(mover'[s], v) <=> Claims(mover[s], v)
      BY <2>2, <2>4, <3>1
    <3>3. \A s \in Movers : Claims(mover[s], v) => mover'[s].late = mover[s].late
      BY <2>2, <3>1
    <3>4. Untouched(v) => Untouched(v)'
      BY <1>1, <2>1, <2>2, <3>1 DEF Untouched
    <3>5. moved' = moved /\ listed' = listed
      BY <2>1
    <3> HIDE DEF w
    <3> QED
      BY <3>1, <3>2, <3>3, <3>4, <3>5 DEF Kept
  <2> QED
    BY <2>3, <2>5, <2>6 DEF WishIInv
<1>10. CASE UNCHANGED wishVars
  BY <1>10 DEF wishVars, WishIInv, WishTypes, OneClaim, Kept, Untouched
<1> QED
  BY <1>2, <1>3, <1>5, <1>6, <1>7, <1>8, <1>9, <1>10 DEF WishlistNext

(* moveToCart() is all or nothing for every row, whatever else happens to  *)
(* the list meanwhile.                                                     *)
THEOREM MovesAreAllOrNothing == WishlistSpec => []MoveIsAllOrNothing
<1>1. WishlistInit => WishIInv
  BY WishlistAssumption
     DEF WishlistInit, WishIInv, WishTypes, OneClaim, Kept, Untouched, Claims, Mover, NoMover
<1>2. WishIInv => MoveIsAllOrNothing
  <2> SUFFICES ASSUME WishIInv, NEW w \in Wishes \ given
               PROVE  \/ Untouched(w)
                      \/ w \in listed /\ moved[w] = 0
                      \/ /\ w \notin listed /\ Cardinality(ClaimedBy(w)) = 1
                         /\ moved[w] = 0 \/ \E r \in ClaimedBy(w) : mover[r].late /\ moved[w] = 1
                      \/ w \notin listed /\ ClaimedBy(w) = {} /\ moved[w] = 1
    BY DEF MoveIsAllOrNothing
  <2>1. ClaimedBy(w) = {r \in Movers : Claims(mover[r], w)}
    BY DEF ClaimedBy, Claims
  <2>2. ASSUME NEW r \in Movers, Claims(mover[r], w)
        PROVE  ClaimedBy(w) = {r} /\ Cardinality(ClaimedBy(w)) = 1
    <3>1. ClaimedBy(w) = {r}
      BY <2>1, <2>2 DEF WishIInv, OneClaim
    <3> QED
      BY <3>1, FS_Singleton
  <2> QED
    BY <2>1, <2>2 DEF WishIInv, Kept
<1> QED
  BY <1>1, <1>2, WishNextIInv, PTL DEF WishlistSpec

------------------------------------------------------------------------------
(* The category tree.  The check of CategoriesService keeps it a tree, for *)
(* any overlap in which no two calls write a parent and no walk gives up:  *)
(* the rows a walk has passed lead to the root without the category that   *)
(* is moved.                                                               *)

Exists(c) == category[c].state # "none"

(* What a call names was inserted, and a category about to be inserted is  *)
(* named by no other call.                                                 *)
Named(m, q) ==
    /\ IF q.op = "idle" THEN q.on = Root ELSE q.on \in Categories
    /\ q.op \in {"create", "climb", "write"} /\ q.parent # Root => Exists(q.parent)
    /\ q.op \in {"climb", "write", "drop"} => Exists(q.on)
    /\ q.op = "climb" => q.at \in Categories /\ Exists(q.at)
    /\ q.op = "create" =>
          ~ Exists(q.on) /\ \A n \in Curators \ {m} : curator[n].on # q.on

NamesExist ==
    /\ \A c \in Categories : category[c].parent # Root => Exists(category[c].parent)
    /\ \A m \in Curators : Named(m, curator[m])

(* A walk has met no row twice, nor the category that is moved. *)
Walk(q) ==
    /\ q.on \notin q.walked
    /\ q.parent \in q.walked \cup {q.at}
    /\ \A d \in q.walked : Exists(d) /\ category[d].parent \in q.walked \cup {q.at}
    /\ IsFiniteSet(q.walked) /\ Cardinality(q.walked) = q.depth

(* The parent to be written is none, the present one, or one from which    *)
(* the walk came to the root.                                              *)
Ready(q) ==
    \/ q.parent = Root
    \/ q.parent = category[q.on].parent
    \/ /\ q.on \notin q.walked
       /\ q.parent \in q.walked
       /\ \A d \in q.walked : Exists(d) /\ category[d].parent \in q.walked \cup {Root}

(* No branch has more rows than a walk may read. *)
Few == IsFiniteSet(Categories) /\ Cardinality(Categories) <= MaxAncestors

Right(q) ==
    /\ q.op = "climb" => Walk(q)
    /\ q.op = "write" => (q.at = Root => Ready(q)) /\ (Few => q.at = Root)

WalksAreRight == \A m \in Curators : Right(curator[m])

TreeIInv ==
    /\ CategoryTypeOK
    /\ NamesExist
    /\ WrittenWithCare => Acyclic /\ WalksAreRight
    /\ Few /\ ~ crossed => ~ gaveUp

------------------------------------------------------------------------------
(* A step that changes the record of one call, and no row, keeps the       *)
(* invariant if the new record is right.                                   *)
LEMMA GoesOn ==
    ASSUME TreeIInv, NEW m \in Curators, NEW x \in Curator, CuratorBecomes(m, x),
           UNCHANGED <<category, crossed, gaveUp>>,
           Named(m, x), WrittenWithCare => Right(x)
    PROVE  TreeIInv'
<1>1. /\ curator' \in [Curators -> Curator]
      /\ curator'[m] = x
      /\ \A n \in Curators : n # m => curator'[n] = curator[n]
  BY DEF TreeIInv, CategoryTypeOK, CuratorBecomes
<1>2. CategoryTypeOK'
  BY <1>1 DEF TreeIInv, CategoryTypeOK, Named
<1>3. ASSUME NEW n \in Curators PROVE Named(n, curator[n])'
  <2>1. CASE n = m
    BY <1>1, <2>1 DEF Named, Exists
  <2>2. CASE n # m
    <3>1. Named(n, curator[n]) /\ curator'[n] = curator[n]
      BY <1>1, <2>2 DEF TreeIInv, NamesExist
    <3>2. curator[n].op = "create" => x.on # curator[n].on
      <4>1. x.op \in {"idle", "create", "climb", "write", "drop"}
        BY DEF Curator
      <4> QED
        BY <2>2, <3>1, <4>1, CategoryAssumption DEF Named, Exists
    <3> QED
      BY <1>1, <2>2, <3>1, <3>2 DEF Named, Exists
  <2> QED
    BY <2>1, <2>2
<1>4. NamesExist'
  BY <1>3 DEF TreeIInv, NamesExist, Exists
<1>5. WrittenWithCare' => Acyclic' /\ WalksAreRight'
  <2>1. Acyclic' <=> Acyclic
    BY DEF Acyclic
  <2>2. ASSUME NEW n \in Curators, WrittenWithCare PROVE Right(curator'[n])
    BY <1>1, <2>2 DEF TreeIInv, WalksAreRight
  <2>3. \A y : Right(y)' <=> Right(y)
    BY DEF Right, Walk, Ready, Exists
  <2> QED
    BY <2>1, <2>2 DEF TreeIInv, WrittenWithCare, WalksAreRight, Right, Walk, Ready, Exists
<1> QED
  BY <1>2, <1>4, <1>5 DEF TreeIInv

(* The end of a call is such a step. *)
LEMMA Ends ==
    ASSUME TreeIInv, NEW m \in Curators, CuratorEnds(m), UNCHANGED <<category, crossed, gaveUp>>
    PROVE  TreeIInv'
<1>1. NoCurator \in Curator /\ Named(m, NoCurator) /\ Right(NoCurator)
  BY DEF NoCurator, Call, Curator, Named, Right
<1> QED
  BY <1>1, GoesOn DEF CuratorEnds

------------------------------------------------------------------------------
(* The tree, when a row is inserted or a parent written.                   *)

(* A new row hangs from an existing one, and none hangs from it. *)
LEMMA InsertKeepsTree ==
    ASSUME Acyclic, NEW c \in Categories, NEW p \in Categories \cup {Root},
           \A d \in Categories : category[d].parent # c,
           p # c,
           \A d \in Categories : category'[d].parent = IF d = c THEN p ELSE category[d].parent
    PROVE  Acyclic'
<1> SUFFICES ASSUME NEW S \in (SUBSET Categories) \ {{}},
                    \A d \in S : category'[d].parent \in S
             PROVE  FALSE
  BY DEF Acyclic
<1>1. CASE c \notin S
  BY <1>1 DEF Acyclic
<1>2. CASE c \in S
  <2>1. p \in S \ {c}
    BY <1>2
  <2>2. \A d \in S \ {c} : category[d].parent \in S \ {c}
    OBVIOUS
  <2> QED
    BY <2>1, <2>2 DEF Acyclic
<1> QED
  BY <1>1, <1>2

(* A parent that is ready to be written closes no cycle: the part of one   *)
(* that lies on the walk would have been one before.                       *)
LEMMA WriteKeepsTree ==
    ASSUME Acyclic, NEW q, q.on \in Categories, q.walked \subseteq Categories, Ready(q),
           \A d \in Categories :
              category'[d].parent = IF d = q.on THEN q.parent ELSE category[d].parent
    PROVE  Acyclic'
<1> SUFFICES ASSUME NEW S \in (SUBSET Categories) \ {{}},
                    \A d \in S : category'[d].parent \in S
             PROVE  FALSE
  BY DEF Acyclic
<1>1. CASE q.on \notin S \/ q.parent = category[q.on].parent
  BY <1>1 DEF Acyclic
<1>2. CASE q.on \in S /\ q.parent = Root
  BY <1>2, CategoryAssumption
<1>3. CASE /\ q.on \in S
           /\ q.on \notin q.walked
           /\ q.parent \in q.walked
           /\ \A d \in q.walked : category[d].parent \in q.walked \cup {Root}
  <2>1. q.parent \in S \cap q.walked
    BY <1>3
  <2>2. \A d \in S \cap q.walked : category[d].parent \in S \cap q.walked
    BY <1>3, CategoryAssumption
  <2> QED
    BY <2>1, <2>2 DEF Acyclic
<1> QED
  BY <1>1, <1>2, <1>3 DEF Ready

------------------------------------------------------------------------------
(* The walk.                                                               *)

(* In a tree the row a walk comes to is none it has passed. *)
LEMMA WalkIsNew ==
    ASSUME Acyclic, NEW q, q.walked \subseteq Categories, Walk(q)
    PROVE  q.at \notin q.walked
<1> SUFFICES ASSUME q.at \in q.walked
             PROVE  FALSE
  OBVIOUS
<1>1. \A d \in q.walked : category[d].parent \in q.walked
  BY DEF Walk
<1> QED
  BY <1>1 DEF Acyclic

(* Where there are few, a walk that has passed as many rows as there may   *)
(* be has passed them all, and with them the category that is moved.       *)
LEMMA WalkIsShort ==
    ASSUME Few, NEW W \in SUBSET Categories, NEW c \in Categories, c \notin W
    PROVE  /\ IsFiniteSet(W)
           /\ Cardinality(W) \in Nat
           /\ Cardinality(W) < MaxAncestors
<1>1. IsFiniteSet(W) /\ Cardinality(W) \in Nat
  BY FS_Subset, FS_CardinalityType DEF Few
<1>2. /\ Cardinality(W \cup {c}) = Cardinality(W) + 1
      /\ Cardinality(W \cup {c}) <= Cardinality(Categories)
      /\ Cardinality(Categories) \in Nat
  BY <1>1, FS_AddElement, FS_Subset, FS_CardinalityType DEF Few
<1> QED
  BY <1>1, <1>2, CategoryAssumption DEF Few

(* One turn of the loop. *)
LEMMA ClimbKeeps ==
    ASSUME TreeIInv, NEW m \in Curators, Climb(m)
    PROVE  TreeIInv'
<1> DEFINE q == curator[m]
           up == category[q.at].parent
           ends == up = Root \/ q.depth + 1 = MaxAncestors
           x == [op |-> IF ends THEN "write" ELSE "climb", on |-> q.on, parent |-> q.parent,
                 at |-> up, depth |-> q.depth + 1, walked |-> q.walked \cup {q.at}]
<1>1. /\ q \in Curator /\ q.op = "climb" /\ Named(m, q)
      /\ q.on \in Categories /\ q.at \in Categories /\ up \in Categories \cup {Root}
      /\ q.walked \subseteq Categories /\ q.depth \in Nat
      /\ UNCHANGED <<category, crossed, gaveUp>>
  BY DEF TreeIInv, CategoryTypeOK, NamesExist, Named, Climb, CuratorAt, Curator, CategoryRow
<1>2. CASE q.at = q.on
  BY <1>1, <1>2, Ends DEF Climb
<1>3. CASE q.at # q.on
  <2>1. CuratorBecomes(m, x)
    BY <1>3 DEF Climb
  <2>2. x \in Curator
    BY <1>1 DEF Curator
  <2>3. Named(m, x)
    BY <1>1 DEF Named, Exists, TreeIInv, NamesExist
  <2>4. ASSUME WrittenWithCare PROVE Right(x)
    <3>1. Acyclic /\ Walk(q)
      BY <1>1, <2>4 DEF TreeIInv, WalksAreRight, Right
    <3>2. /\ q.on \notin x.walked
          /\ q.parent \in x.walked
          /\ \A d \in x.walked : Exists(d) /\ category[d].parent \in x.walked \cup {up}
      BY <1>1, <1>3, <3>1 DEF Walk, Named
    <3>3. IsFiniteSet(x.walked) /\ Cardinality(x.walked) = x.depth
      <4>1. q.at \notin q.walked
        BY <1>1, <3>1, WalkIsNew
      <4>2. IsFiniteSet(q.walked) /\ Cardinality(q.walked) = q.depth
        BY <3>1 DEF Walk
      <4>3. IsFiniteSet(x.walked) /\ Cardinality(x.walked) = q.depth + 1
        BY <4>1, <4>2, FS_AddElement
      <4> QED
        BY <4>3
    <3>4. Few /\ ends => up = Root
      <4>1. Few => Cardinality(x.walked) < MaxAncestors
        BY <1>1, <3>2, WalkIsShort
      <4> QED
        BY <1>1, <3>3, <4>1, CategoryAssumption
    <3>5. CASE ends
      <4>1. up = Root => Ready(x)
        BY <3>2 DEF Ready
      <4> QED
        BY <3>4, <3>5, <4>1 DEF Right
    <3>6. CASE ~ ends
      BY <3>2, <3>3, <3>6 DEF Right, Walk
    <3> QED
      BY <3>5, <3>6
  <2> QED
    BY <1>1, <2>1, <2>2, <2>3, <2>4, GoesOn
<1> QED
  BY <1>2, <1>3

------------------------------------------------------------------------------
(* The other steps.                                                        *)

(* A call begins. *)
LEMMA BeginKeeps ==
    ASSUME TreeIInv, NEW m \in Curators, NEW c \in Categories, NEW p \in Categories \cup {Root},
           BeginCategory(m, c, p) \/ BeginMove(m, c, p) \/ BeginUpdate(m, c) \/ BeginDrop(m, c)
    PROVE  TreeIInv'
<1>1. UNCHANGED <<category, crossed, gaveUp>> /\ category[c].parent \in Categories \cup {Root}
  BY DEF BeginCategory, BeginMove, BeginUpdate, BeginDrop, TreeIInv, CategoryTypeOK, CategoryRow
<1>2. CASE BeginCategory(m, c, p)
  <2>1. CuratorBecomes(m, Call("create", c, p, Root))
    BY <1>2 DEF BeginCategory
  <2>2. Call("create", c, p, Root) \in Curator
    BY DEF Curator, Call
  <2>3. Named(m, Call("create", c, p, Root)) /\ Right(Call("create", c, p, Root))
    BY <1>2 DEF BeginCategory, Named, Exists, LiveCategory, Right, Call
  <2> QED
    BY <1>1, <2>1, <2>2, <2>3, GoesOn
<1>3. CASE BeginMove(m, c, p)
  <2>1. CASE p = Root /\ CuratorBecomes(m, Call("write", c, p, Root))
    <3>1. Call("write", c, p, Root) \in Curator
      BY DEF Curator, Call
    <3>2. Named(m, Call("write", c, p, Root)) /\ Right(Call("write", c, p, Root))
      BY <1>3, <2>1 DEF BeginMove, Named, Exists, LiveCategory, Right, Call, Ready
    <3> QED
      BY <1>1, <2>1, <3>1, <3>2, GoesOn
  <2>2. CASE LiveCategory(p) /\ CuratorBecomes(m, Call("climb", c, p, p))
    <3>1. Call("climb", c, p, p) \in Curator
      BY DEF Curator, Call
    <3>2. Named(m, Call("climb", c, p, p)) /\ Right(Call("climb", c, p, p))
      BY <1>3, <2>2, FS_EmptySet DEF BeginMove, Named, Exists, LiveCategory, Right, Call, Walk
    <3> QED
      BY <1>1, <2>2, <3>1, <3>2, GoesOn
  <2> QED
    BY <1>3, <2>1, <2>2 DEF BeginMove
<1>4. CASE BeginUpdate(m, c)
  <2> DEFINE y == Call("write", c, category[c].parent, Root)
  <2>1. CuratorBecomes(m, y)
    BY <1>4 DEF BeginUpdate
  <2>2. y \in Curator
    BY <1>1 DEF Curator, Call
  <2>3. Named(m, y) /\ Right(y)
    BY <1>1, <1>4 DEF BeginUpdate, Named, Exists, LiveCategory, Right, Call, Ready, TreeIInv, NamesExist
  <2> QED
    BY <1>1, <2>1, <2>2, <2>3, GoesOn
<1>5. CASE BeginDrop(m, c)
  <2>1. CuratorBecomes(m, Call("drop", c, Root, Root))
    BY <1>5 DEF BeginDrop
  <2>2. Call("drop", c, Root, Root) \in Curator
    BY DEF Curator, Call
  <2>3. Named(m, Call("drop", c, Root, Root)) /\ Right(Call("drop", c, Root, Root))
    BY <1>5 DEF BeginDrop, Named, Exists, LiveCategory, Right, Call
  <2> QED
    BY <1>1, <2>1, <2>2, <2>3, GoesOn
<1> QED
  BY <1>2, <1>3, <1>4, <1>5

(* A step that writes the row of its call and ends the call: the other     *)
(* calls go on as they were.                                               *)
LEMMA RowWritten ==
    ASSUME TreeIInv, NEW m \in Curators, CuratorEnds(m), NEW r \in CategoryRow,
           ~ CuratorAt(m, "idle"),
           category' = [category EXCEPT ![curator[m].on] = r],
           r.state # "none", r.parent # Root => Exists(r.parent),
           crossed' \in BOOLEAN /\ gaveUp' \in BOOLEAN
    PROVE  /\ CategoryTypeOK' /\ NamesExist'
           /\ curator'[m] = NoCurator
           /\ \A n \in Curators : n # m => curator'[n] = curator[n]
<1>1. /\ curator[m].on \in Categories
      /\ curator' \in [Curators -> Curator]
      /\ curator'[m] = NoCurator
      /\ \A n \in Curators : n # m => curator'[n] = curator[n]
  <2>1. NoCurator \in Curator
    BY DEF NoCurator, Curator, Call
  <2> QED
    BY <2>1 DEF TreeIInv, CategoryTypeOK, CuratorEnds, CuratorBecomes, CuratorAt
<1>2. category' \in [Categories -> CategoryRow]
  BY DEF TreeIInv, CategoryTypeOK
<1>3. CategoryTypeOK'
  BY <1>1, <1>2 DEF TreeIInv, CategoryTypeOK, NoCurator, Call
<1>4. \A d \in Categories : category'[d] = IF d = curator[m].on THEN r ELSE category[d]
  BY DEF TreeIInv, CategoryTypeOK
<1>5. \A d \in Categories : Exists(d) => Exists(d)'
  BY <1>4 DEF Exists
<1>6. \A d \in Categories : d # curator[m].on => (Exists(d)' <=> Exists(d))
  BY <1>4 DEF Exists
<1>7. \A d \in Categories : category'[d].parent # Root => Exists(category[d].parent)'
  <2> SUFFICES ASSUME NEW d \in Categories, category'[d].parent # Root
               PROVE  Exists(category[d].parent)'
    OBVIOUS
  <2>1. category'[d].parent \in Categories
    BY <1>2 DEF CategoryRow
  <2>2. Exists(category'[d].parent)
    BY <1>4 DEF TreeIInv, NamesExist
  <2> QED
    BY <1>5, <2>1, <2>2 DEF Exists
<1>8. ASSUME NEW n \in Curators PROVE Named(n, curator[n])'
  <2>1. CASE n = m
    BY <1>1, <2>1 DEF Named, NoCurator, Call
  <2>2. CASE n # m
    <3>1. Named(n, curator[n]) /\ curator'[n] = curator[n] /\ curator[n] \in Curator
      BY <1>1, <2>2 DEF TreeIInv, CategoryTypeOK, NamesExist
    <3>2. curator[n].op = "create" => ~ Exists(curator[n].on)'
      BY <1>1, <1>6, <2>2, <3>1 DEF Named
    <3>3. curator[n].op = "create" => \A k \in Curators \ {n} : curator'[k].on # curator[n].on
      BY <1>1, <2>2, <3>1, CategoryAssumption DEF Named, NoCurator, Call
    <3>4. /\ curator[n].parent \in Categories \cup {Root}
          /\ curator[n].op # "idle" => curator[n].on \in Categories
      BY <3>1 DEF Curator, Named
    <3> QED
      BY <1>5, <3>1, <3>2, <3>3, <3>4 DEF Named, Exists
  <2> QED
    BY <2>1, <2>2
<1> QED
  BY <1>1, <1>3, <1>7, <1>8 DEF NamesExist

(* A row is inserted: no row and no walk has been there. *)
LEMMA InsertKeeps ==
    ASSUME TreeIInv, NEW m \in Curators, InsertCategory(m)
    PROVE  TreeIInv'
<1> DEFINE c == curator[m].on
           p == curator[m].parent
           r == [state |-> "live", parent |-> p]
<1>1. /\ curator[m] \in Curator /\ Named(m, curator[m]) /\ curator[m].op = "create"
      /\ c \in Categories /\ p \in Categories \cup {Root}
      /\ ~ Exists(c) /\ \A n \in Curators \ {m} : curator[n].on # c
      /\ category' = [category EXCEPT ![c] = r] /\ crossed' = crossed
      /\ p # Root => Exists(p)
  BY DEF TreeIInv, CategoryTypeOK, NamesExist, Named, InsertCategory, CuratorAt, Curator
<1>2. /\ CategoryTypeOK' /\ NamesExist'
      /\ curator'[m] = NoCurator
      /\ \A n \in Curators : n # m => curator'[n] = curator[n]
  <2>1. r \in CategoryRow /\ r.state # "none" /\ (r.parent # Root => Exists(r.parent))
    BY <1>1 DEF CategoryRow
  <2>2. CuratorEnds(m) /\ ~ CuratorAt(m, "idle") /\ crossed' \in BOOLEAN /\ gaveUp' \in BOOLEAN
    BY <1>1 DEF InsertCategory, CuratorAt, TreeIInv, CategoryTypeOK
  <2> QED
    BY <1>1, <2>1, <2>2, RowWritten
<1>3. \A d \in Categories : category'[d] = IF d = c THEN r ELSE category[d]
  BY <1>1 DEF TreeIInv, CategoryTypeOK
<1>4. ASSUME WrittenWithCare PROVE Acyclic'
  <2>1. Acyclic
    BY <1>4 DEF TreeIInv
  <2>2. \A d \in Categories : category[d].parent # c
    BY <1>1, CategoryAssumption DEF TreeIInv, NamesExist
  <2>3. p # c
    BY <1>1, CategoryAssumption
  <2>4. \A d \in Categories : category'[d].parent = IF d = c THEN p ELSE category[d].parent
    BY <1>3
  <2> QED
    BY <1>1, <2>1, <2>2, <2>3, <2>4, InsertKeepsTree
<1>5. ASSUME WrittenWithCare, NEW n \in Curators PROVE Right(curator[n])'
  <2>1. CASE n = m
    BY <1>2, <2>1 DEF Right, NoCurator, Call
  <2>2. CASE n # m
    <3>1. /\ Right(curator[n]) /\ curator'[n] = curator[n] /\ curator[n] \in Curator
          /\ Named(n, curator[n]) /\ curator[n].on # c
      BY <1>1, <1>2, <1>5, <2>2 DEF TreeIInv, CategoryTypeOK, NamesExist, WalksAreRight
    <3>2. /\ curator[n].walked \subseteq Categories
          /\ curator[n].op \in {"climb", "write"} => curator[n].on \in Categories
      BY <3>1 DEF Curator, Named
    <3>3. \A d \in Categories : Exists(d) => Exists(d)' /\ category'[d] = category[d]
      BY <1>1, <1>3 DEF Exists
    <3>4. curator[n].op = "climb" => Walk(curator[n])'
      BY <3>1, <3>2, <3>3 DEF Right, Walk
    <3>5. Ready(curator[n]) /\ curator[n].op = "write" => Ready(curator[n])'
      BY <1>3, <3>1, <3>2, <3>3 DEF Ready
    <3> QED
      BY <3>1, <3>4, <3>5 DEF Right, Few
  <2> QED
    BY <2>1, <2>2
<1>6. UNCHANGED <<crossed, gaveUp>>
  BY DEF InsertCategory
<1> QED
  BY <1>2, <1>4, <1>5, <1>6 DEF TreeIInv, WrittenWithCare, WalksAreRight, Few

(* A parent is written: unless another call meant to write one too, none   *)
(* is left whose walk could have become stale.                             *)
LEMMA WriteKeeps ==
    ASSUME TreeIInv, NEW m \in Curators, WriteParent(m)
    PROVE  TreeIInv'
<1> DEFINE q == curator[m]
           r == [state |-> category[q.on].state, parent |-> q.parent]
<1>1. /\ q \in Curator /\ Named(m, q) /\ q.op = "write"
      /\ q.on \in Categories /\ q.parent \in Categories \cup {Root}
      /\ Exists(q.on) /\ (q.parent # Root => Exists(q.parent))
      /\ q.walked \subseteq Categories
  BY DEF TreeIInv, CategoryTypeOK, NamesExist, Named, WriteParent, CuratorAt, Curator
<1>2. /\ r \in CategoryRow
      /\ category' = [category EXCEPT ![q.on] = r]
  BY <1>1 DEF WriteParent, TreeIInv, CategoryTypeOK, CategoryRow
<1>3. /\ CategoryTypeOK' /\ NamesExist'
      /\ curator'[m] = NoCurator
      /\ \A n \in Curators : n # m => curator'[n] = curator[n]
  <2>1. r.state # "none" /\ (r.parent # Root => Exists(r.parent))
    BY <1>1 DEF Exists
  <2>2. CuratorEnds(m) /\ ~ CuratorAt(m, "idle") /\ crossed' \in BOOLEAN /\ gaveUp' \in BOOLEAN
    BY <1>1 DEF WriteParent, CuratorAt, TreeIInv, CategoryTypeOK
  <2> QED
    BY <1>2, <2>1, <2>2, RowWritten
<1>4. ASSUME WrittenWithCare' PROVE Acyclic' /\ WalksAreRight'
  <2>1. /\ WrittenWithCare /\ q.at = Root
        /\ \A n \in Curators \ {m} : curator[n].op \notin {"climb", "write"}
    BY <1>4 DEF WriteParent, WrittenWithCare
  <2>2. Acyclic /\ Ready(q)
    BY <1>1, <2>1 DEF TreeIInv, WalksAreRight, Right
  <2>3. \A d \in Categories :
           category'[d].parent = IF d = q.on THEN q.parent ELSE category[d].parent
    BY <1>2 DEF TreeIInv, CategoryTypeOK
  <2>4. Acyclic'
    BY <1>1, <2>2, <2>3, WriteKeepsTree
  <2>5. \A n \in Curators : curator'[n].op \notin {"climb", "write"}
    BY <1>3, <2>1 DEF NoCurator, Call
  <2> QED
    BY <2>4, <2>5 DEF WalksAreRight, Right
<1>5. ASSUME Few, ~ crossed' PROVE ~ gaveUp'
  <2>1. WrittenWithCare
    BY <1>5 DEF WriteParent, TreeIInv, WrittenWithCare
  <2>2. q.at = Root
    BY <1>1, <1>5, <2>1 DEF TreeIInv, WalksAreRight, Right
  <2> QED
    BY <2>1, <2>2 DEF WriteParent, WrittenWithCare
<1> QED
  BY <1>3, <1>4, <1>5 DEF TreeIInv

(* A row is marked as deleted: it keeps its place. *)
LEMMA DropKeeps ==
    ASSUME TreeIInv, NEW m \in Curators, DropCategory(m)
    PROVE  TreeIInv'
<1> DEFINE c == curator[m].on
           r == [state |-> "deleted", parent |-> category[c].parent]
<1>1. /\ Named(m, curator[m]) /\ curator[m].op = "drop" /\ c \in Categories
      /\ category[c].parent \in Categories \cup {Root}
      /\ category[c].parent # Root => Exists(category[c].parent)
      /\ Exists(c)
  BY DEF TreeIInv, CategoryTypeOK, NamesExist, Named, DropCategory, CuratorAt, CategoryRow
<1>2. /\ r \in CategoryRow
      /\ category' = [category EXCEPT ![c] = r]
  BY <1>1 DEF DropCategory, TreeIInv, CategoryTypeOK, CategoryRow
<1>3. /\ CategoryTypeOK' /\ NamesExist'
      /\ curator'[m] = NoCurator
      /\ \A n \in Curators : n # m => curator'[n] = curator[n]
  <2>1. r.state # "none" /\ (r.parent # Root => Exists(r.parent))
    BY <1>1
  <2>2. CuratorEnds(m) /\ ~ CuratorAt(m, "idle") /\ crossed' \in BOOLEAN /\ gaveUp' \in BOOLEAN
    BY <1>1 DEF DropCategory, CuratorAt, TreeIInv, CategoryTypeOK
  <2> QED
    BY <1>2, <2>1, <2>2, RowWritten
<1>4. \A d \in Categories : category'[d].parent = category[d].parent /\ (Exists(d)' <=> Exists(d))
  BY <1>1, <1>2 DEF TreeIInv, CategoryTypeOK, Exists
<1>5. ASSUME WrittenWithCare PROVE Acyclic'
  BY <1>4, <1>5 DEF TreeIInv, Acyclic
<1>6. ASSUME WrittenWithCare, NEW n \in Curators PROVE Right(curator[n])'
  <2>1. CASE n = m
    BY <1>3, <2>1 DEF Right, NoCurator, Call
  <2>2. CASE n # m
    <3>1. /\ Right(curator[n]) /\ curator'[n] = curator[n] /\ curator[n] \in Curator
          /\ Named(n, curator[n])
      BY <1>3, <1>6, <2>2 DEF TreeIInv, CategoryTypeOK, NamesExist, WalksAreRight
    <3>2. /\ curator[n].walked \subseteq Categories
          /\ curator[n].op \in {"climb", "write"} => curator[n].on \in Categories
      BY <3>1 DEF Curator, Named
    <3>3. curator[n].op = "climb" => Walk(curator[n])'
      BY <1>4, <3>1, <3>2 DEF Right, Walk
    <3>4. Ready(curator[n]) /\ curator[n].op = "write" => Ready(curator[n])'
      BY <1>4, <3>1, <3>2 DEF Ready
    <3> QED
      BY <3>1, <3>3, <3>4 DEF Right, Few
  <2> QED
    BY <2>1, <2>2
<1>7. UNCHANGED <<crossed, gaveUp>>
  BY DEF DropCategory
<1> QED
  BY <1>3, <1>5, <1>6, <1>7 DEF TreeIInv, WrittenWithCare, WalksAreRight, Few

------------------------------------------------------------------------------
(* The theorems.                                                           *)

(* The tables begin empty. *)
LEMMA TreeInitIInv == CategoryInit => TreeIInv
<1> SUFFICES ASSUME CategoryInit
             PROVE  TreeIInv
  OBVIOUS
<1>1. CategoryTypeOK
  BY DEF CategoryInit, CategoryTypeOK, CategoryRow, Curator, NoCurator, Call
<1>2. NamesExist
  BY DEF CategoryInit, NamesExist, Named, NoCurator, Call
<1>3. Acyclic
  BY CategoryAssumption DEF CategoryInit, Acyclic
<1>4. WalksAreRight
  BY DEF CategoryInit, WalksAreRight, Right, NoCurator, Call
<1> QED
  BY <1>1, <1>2, <1>3, <1>4 DEF TreeIInv, CategoryInit

(* Every step keeps the invariant. *)
LEMMA TreeNextIInv == TreeIInv /\ [CategoryNext]_categoryVars => TreeIInv'
<1> SUFFICES ASSUME TreeIInv, [CategoryNext]_categoryVars
             PROVE  TreeIInv'
  OBVIOUS
<1>1. ASSUME NEW m \in Curators, NEW c \in Categories, NEW p \in Categories \cup {Root},
             BeginCategory(m, c, p) \/ BeginMove(m, c, p) \/ BeginUpdate(m, c) \/ BeginDrop(m, c)
      PROVE  TreeIInv'
  BY <1>1, BeginKeeps
<1>2. ASSUME NEW m \in Curators, InsertCategory(m) PROVE TreeIInv'
  BY <1>2, InsertKeeps
<1>3. ASSUME NEW m \in Curators, Climb(m) PROVE TreeIInv'
  BY <1>3, ClimbKeeps
<1>4. ASSUME NEW m \in Curators, WriteParent(m) PROVE TreeIInv'
  BY <1>4, WriteKeeps
<1>5. ASSUME NEW m \in Curators, DropCategory(m) PROVE TreeIInv'
  BY <1>5, DropKeeps
<1>6. ASSUME NEW m \in Curators, CutCurator(m) PROVE TreeIInv'
  BY <1>6, Ends DEF CutCurator
<1>7. CASE UNCHANGED categoryVars
  BY <1>7 DEF categoryVars, TreeIInv, CategoryTypeOK, NamesExist, Named, Exists, Acyclic,
              WrittenWithCare, WalksAreRight, Right, Walk, Ready, Few
<1> QED
  BY <1>1, <1>2, <1>3, <1>4, <1>5, <1>6, <1>7 DEF CategoryNext

(* The inductive invariant of the category tree. *)
THEOREM TreeInductive == CategorySpec => []TreeIInv
BY TreeInitIInv, TreeNextIInv, PTL DEF CategorySpec

(* The tables and the calls of CategoriesService keep their types. *)
THEOREM TreeTypeCorrect == CategorySpec => []CategoryTypeOK
<1>1. TreeIInv => CategoryTypeOK
  BY DEF TreeIInv
<1> QED
  BY TreeInductive, <1>1, PTL

(* The parents written by create() and update() never close a cycle unless *)
(* two calls that write a parent overlap or a walk gives up at the limit.  *)
THEOREM TreeStays == CategorySpec => []TreeStaysATree
<1>1. TreeIInv => TreeStaysATree
  BY DEF TreeIInv, TreeStaysATree
<1> QED
  BY TreeInductive, <1>1, PTL

(* In a store with no more categories than the walk reads rows at most     *)
(* (200) no walk gives up, and overlap alone is left to spoil the tree.    *)
THEOREM SmallTreeStays ==
    ASSUME Few
    PROVE  CategorySpec => [](~ crossed => Acyclic)
<1>1. TreeIInv => (~ crossed => Acyclic)
  BY Few DEF TreeIInv, WrittenWithCare
<1> QED
  BY TreeInductive, <1>1, PTL

------------------------------------------------------------------------------
(* The photos of a product.                                                *)

(* The calls that have a place in the gallery to fill. *)
Uploading == {e \in Editors : editor[e].op \in {"store", "insert"}}

(* A file is written before its row and deleted after it, and no two       *)
(* uploads share one.                                                      *)
FilesInUse ==
    /\ Live \subseteq file
    /\ \A e \in Editors :
          /\ e \in Uploading => image[editor[e].on].state = "new"
          /\ EditorAt(e, "insert") => editor[e].on \in file
          /\ EditorAt(e, "clean") => image[editor[e].on].state = "gone"
    /\ \A d, e \in Uploading : editor[d].on = editor[e].on => d = e

(* Each upload was promised a place when there was one. *)
PlacesPromised ==
    Cardinality(Live) + Cardinality(Uploading) < MaxImages + Cardinality(Editors)

Primaries == {i \in Live : image[i].primary}
OnePrimary == \E i \in Images : Primaries = {i}
HasHadPhotos == \E i \in Images : image[i].state # "new"

(* What a call relies on when it is the only one.  It is stated of every   *)
(* call, for an idle one asks for nothing.                                 *)
StandsAt(q) ==
    /\ q.op \in {"store", "insert"} => q.count = Cardinality(Live) /\ q.count < MaxImages
    /\ q.op \in {"count", "delete", "clear", "choose", "raise"} => q.on \in Live
    /\ q.op \in {"count", "delete"} => q.primary = image[q.on].primary
    /\ q.op = "delete" => Live # {q.on}
    /\ q.op = "clean" => Live # {} /\ (IF q.primary THEN Primaries = {} ELSE OnePrimary)
    /\ q.op = "next" => Live # {} /\ Primaries = {}
    /\ q.op = "raise" => Primaries = {}
    /\ q.op = "choose" => q.cleared = Primaries

OneAtATime ==
    ~ mixed =>
        /\ \A d, e \in Editors : ~ EditorAt(d, "idle") /\ ~ EditorAt(e, "idle") => d = e
        /\ Cardinality(Live) <= MaxImages
        /\ \/ HasHadPhotos => OnePrimary
           \/ \E e \in Editors : editor[e].op \in {"clean", "next", "raise"}
        /\ \A e \in Editors : StandsAt(editor[e])

GalleryIInv == GalleryTypeOK /\ FilesInUse /\ PlacesPromised /\ OneAtATime

------------------------------------------------------------------------------
(* Rows and calls are finitely many. *)
LEMMA GalleryFinite ==
    ASSUME NEW A, A \subseteq Images \/ A \subseteq Editors
    PROVE  IsFiniteSet(A) /\ Cardinality(A) \in Nat
BY GalleryAssumption, FS_Subset, FS_CardinalityType

(* The empty call. *)
LEMMA NoEditorTyped == NoEditor \in Editor /\ NoEditor.op = "idle"
BY DEF NoEditor, Editor

(* A step of one call. *)
LEMMA EditorTurns ==
    ASSUME GalleryIInv, NEW e \in Editors, NEW q \in Editor,
           q.op # "idle" => q.on \in Images, EditorBecomes(e, q)
    PROVE  /\ editor' \in [Editors -> Editor]
           /\ \A d \in Editors : editor'[d].op # "idle" => editor'[d].on \in Images
           /\ \A d \in Editors : editor'[d] = IF d = e THEN q ELSE editor[d]
BY DEF GalleryIInv, GalleryTypeOK, EditorBecomes

(* What a call is, and what it is about. *)
LEMMA EditorIs ==
    ASSUME GalleryIInv, NEW e \in Editors
    PROVE  /\ editor[e] \in Editor
           /\ editor[e].op # "idle" => editor[e].on \in Images
           /\ image \in [Images -> ImageRow] /\ file \subseteq Images /\ mixed \in BOOLEAN
BY DEF GalleryIInv, GalleryTypeOK

(* The only call of a gallery that is not mixed. *)
LEMMA OthersAreIdle ==
    ASSUME GalleryIInv, ~ mixed, NEW e \in Editors, ~ EditorAt(e, "idle")
    PROVE  \A d \in Editors \ {e} : EditorAt(d, "idle")
BY DEF GalleryIInv, OneAtATime

(* A step of the only call leaves the others nothing to ask. *)
LEMMA OnlyCall ==
    ASSUME NEW e \in Editors,
           \A d \in Editors \ {e} : editor'[d] = editor[d],
           ~ mixed' => /\ \A d \in Editors \ {e} : EditorAt(d, "idle")
                       /\ Cardinality(Live)' <= MaxImages
                       /\ StandsAt(editor[e])'
                       /\ (editor[e].op \notin {"clean", "next", "raise"} =>
                             (HasHadPhotos => OnePrimary))'
    PROVE  OneAtATime'
<1> SUFFICES ASSUME ~ mixed'
             PROVE  /\ \A d, f \in Editors : ~ EditorAt(d, "idle")' /\ ~ EditorAt(f, "idle")' => d = f
                    /\ Cardinality(Live)' <= MaxImages
                    /\ \/ (HasHadPhotos => OnePrimary)'
                       \/ \E d \in Editors : editor'[d].op \in {"clean", "next", "raise"}
                    /\ \A d \in Editors : StandsAt(editor[d])'
  BY DEF OneAtATime
<1>1. \A d \in Editors \ {e} : editor'[d].op = "idle"
  BY DEF EditorAt
<1>2. \A d, f \in Editors : ~ EditorAt(d, "idle")' /\ ~ EditorAt(f, "idle")' => d = f
  BY <1>1 DEF EditorAt
<1>3. \A d \in Editors : StandsAt(editor[d])'
  <2>1. StandsAt(editor[e])'
    OBVIOUS
  <2>2. ASSUME NEW d \in Editors \ {e} PROVE StandsAt(editor[d])'
    BY <1>1 DEF StandsAt
  <2> QED
    BY <2>1, <2>2
<1> QED
  BY <1>2, <1>3

(* What the only call finds. *)
LEMMA FoundAlone ==
    ASSUME GalleryIInv, NEW e \in Editors, ~ mixed, \A d \in Editors \ {e} : EditorAt(d, "idle")
    PROVE  /\ Cardinality(Live) <= MaxImages
           /\ StandsAt(editor[e])
           /\ editor[e].op \notin {"clean", "next", "raise"} => (HasHadPhotos => OnePrimary)
BY DEF GalleryIInv, OneAtATime, EditorAt

(* A call begins in a gallery that is to be not mixed. *)
LEMMA BegunAlone ==
    ASSUME GalleryIInv, NEW e \in Editors, NEW q, EditorStarts(e, q), ~ mixed'
    PROVE  /\ ~ mixed /\ \A d \in Editors \ {e} : EditorAt(d, "idle")
           /\ Cardinality(Live) <= MaxImages
           /\ HasHadPhotos => OnePrimary
<1>1. ~ mixed /\ EditorAt(e, "idle") /\ \A d \in Editors \ {e} : EditorAt(d, "idle")
  BY DEF EditorStarts, GalleryIInv, GalleryTypeOK
<1> QED
  BY <1>1, FoundAlone DEF EditorAt

(* The next step of a call of a gallery that is not mixed. *)
LEMMA WentAlone ==
    ASSUME GalleryIInv, NEW e \in Editors, ~ mixed, editor[e].op # "idle"
    PROVE  /\ \A d \in Editors \ {e} : EditorAt(d, "idle")
           /\ Cardinality(Live) <= MaxImages
           /\ StandsAt(editor[e])
           /\ editor[e].op \notin {"clean", "next", "raise"} => (HasHadPhotos => OnePrimary)
BY OthersAreIdle, FoundAlone DEF EditorAt

(* What is read of the rows. *)
LEMMA SameRows ==
    ASSUME UNCHANGED image
    PROVE  /\ Live' = Live /\ Primaries' = Primaries
           /\ OnePrimary' <=> OnePrimary
           /\ HasHadPhotos' <=> HasHadPhotos
BY DEF Live, Primaries, OnePrimary, HasHadPhotos

(* Steps that insert and delete no row. *)
LEMMA StatesStay ==
    ASSUME GalleryIInv, NEW e \in Editors, NEW q,
           \A d \in Editors : editor'[d] = IF d = e THEN q ELSE editor[d],
           \A i \in Images : image'[i].state = image[i].state,
           q.op \in {"store", "insert"} => e \in Uploading /\ q.on = editor[e].on,
           q.op = "insert" => q.on \in file',
           q.op = "clean" => image[q.on].state = "gone" /\ q.on \in Images,
           Live \subseteq file',
           \A d \in Editors \ {e} : EditorAt(d, "insert") => editor[d].on \in file'
    PROVE  FilesInUse' /\ PlacesPromised'
<1>1. /\ Live' = Live
      /\ Uploading' \subseteq Uploading
      /\ \A d \in Uploading' : editor'[d].on = editor[d].on
  BY DEF Live, Uploading
<1>2. \A d \in Editors : editor[d].op # "idle" => editor[d].on \in Images
  BY DEF GalleryIInv, GalleryTypeOK
<1>3. FilesInUse'
  <2>1. \A d \in Uploading' : image'[editor'[d].on].state = "new"
    BY <1>1, <1>2 DEF GalleryIInv, FilesInUse, Uploading
  <2>2. \A d \in Editors : /\ EditorAt(d, "insert")' => editor'[d].on \in file'
                           /\ EditorAt(d, "clean")' => image'[editor'[d].on].state = "gone"
    BY <1>2 DEF GalleryIInv, FilesInUse, EditorAt
  <2>3. \A d, f \in Uploading' : editor'[d].on = editor'[f].on => d = f
    BY <1>1 DEF GalleryIInv, FilesInUse
  <2> QED
    BY <1>1, <2>1, <2>2, <2>3 DEF FilesInUse
<1>4. PlacesPromised'
  <2>1. IsFiniteSet(Uploading) /\ Cardinality(Uploading) \in Nat /\ Cardinality(Live) \in Nat
        /\ Cardinality(Editors) \in Nat /\ MaxImages \in Nat
    BY GalleryFinite, GalleryAssumption, FS_CardinalityType DEF Uploading, Live
  <2>2. Cardinality(Uploading') <= Cardinality(Uploading) /\ Cardinality(Uploading') \in Nat
    BY <1>1, <2>1, FS_Subset, FS_CardinalityType
  <2> QED
    BY <1>1, <2>1, <2>2 DEF GalleryIInv, PlacesPromised
<1> QED
  BY <1>3, <1>4

------------------------------------------------------------------------------
(* An upload finds room. *)
LEMMA BeginUploadSound ==
    ASSUME GalleryIInv, NEW e \in Editors, NEW i \in Images, BeginUpload(e, i)
    PROVE  GalleryIInv'
<1> DEFINE q == [NoEditor EXCEPT !.op = "store", !.on = i, !.count = Cardinality(Live)]
<1>1. /\ Cardinality(Live) \in Nat /\ Cardinality(Editors) \in Nat
      /\ Cardinality(Uploading') \in Nat /\ Cardinality(Uploading') <= Cardinality(Editors)
  BY GalleryFinite, GalleryAssumption, FS_Subset, FS_CardinalityType DEF Uploading, Live
<1>2. q \in Editor /\ q.op = "store" /\ q.on = i /\ q.count = Cardinality(Live)
  BY <1>1 DEF NoEditor, Editor
<1>3. /\ EditorStarts(e, q) /\ UNCHANGED <<image, file>> /\ image[i].state = "new"
      /\ \A d \in Editors : editor[d].on # i
      /\ Cardinality(Live) < MaxImages
  BY DEF BeginUpload
<1> HIDE DEF q
<1>4. /\ editor' \in [Editors -> Editor]
      /\ \A d \in Editors : editor'[d].op # "idle" => editor'[d].on \in Images
      /\ \A d \in Editors : editor'[d] = IF d = e THEN q ELSE editor[d]
  BY <1>2, <1>3, EditorTurns DEF EditorStarts
<1>5. GalleryTypeOK'
  BY <1>3, <1>4 DEF GalleryIInv, GalleryTypeOK, EditorStarts
<1>6. Live' = Live /\ (OnePrimary' <=> OnePrimary) /\ (HasHadPhotos' <=> HasHadPhotos)
  BY <1>3, SameRows
<1>7. FilesInUse'
  <2>1. \A d \in Uploading' : d = e \/ (d \in Uploading /\ editor'[d] = editor[d])
    BY <1>4 DEF Uploading
  <2>2. \A d, f \in Uploading' : editor'[d].on = editor'[f].on => d = f
    BY <1>2, <1>3, <1>4, <2>1 DEF GalleryIInv, FilesInUse, Uploading
  <2>3. \A d \in Editors :
           /\ d \in Uploading' => image'[editor'[d].on].state = "new"
           /\ EditorAt(d, "insert")' => editor'[d].on \in file'
           /\ EditorAt(d, "clean")' => image'[editor'[d].on].state = "gone"
    BY <1>2, <1>3, <1>4, <2>1 DEF GalleryIInv, FilesInUse, EditorAt
  <2>4. Live' \subseteq file'
    BY <1>3, <1>6 DEF GalleryIInv, FilesInUse
  <2> QED
    BY <2>2, <2>3, <2>4 DEF FilesInUse
<1>8. PlacesPromised'
  BY <1>1, <1>3, <1>6, GalleryAssumption DEF PlacesPromised
<1>9. OneAtATime'
  <2>1. ASSUME ~ mixed'
        PROVE  /\ \A d \in Editors \ {e} : EditorAt(d, "idle")
               /\ Cardinality(Live)' <= MaxImages
               /\ StandsAt(editor[e])'
               /\ (HasHadPhotos => OnePrimary)'
    <3>1. /\ \A d \in Editors \ {e} : EditorAt(d, "idle")
          /\ Cardinality(Live) <= MaxImages /\ (HasHadPhotos => OnePrimary)
      BY <1>3, <2>1, BegunAlone
    <3>2. StandsAt(editor[e])'
      BY <1>2, <1>3, <1>4, <1>6 DEF StandsAt
    <3> QED
      BY <1>6, <3>1, <3>2
  <2> QED
    BY <1>4, <2>1, OnlyCall
<1> QED
  BY <1>5, <1>7, <1>8, <1>9 DEF GalleryIInv

(* A removal or a choice begins at a row. *)
LEMMA BeginOnARowSound ==
    ASSUME GalleryIInv, NEW e \in Editors, NEW i \in Images,
           BeginRemove(e, i) \/ BeginSetPrimary(e, i)
    PROVE  GalleryIInv'
<1>1. PICK q \in Editor :
         /\ EditorStarts(e, q) /\ q.on = i /\ q.op \in {"count", "clear"}
         /\ q.op = "count" => q.primary = image[i].primary
  <2>1. image[i].primary \in BOOLEAN
    BY EditorIs DEF ImageRow
  <2>2. LET q == [NoEditor EXCEPT !.op = "count", !.on = i, !.primary = image[i].primary]
        IN  q \in Editor /\ q.on = i /\ q.op = "count" /\ q.primary = image[i].primary
    BY <2>1 DEF NoEditor, Editor
  <2>3. LET q == [NoEditor EXCEPT !.op = "clear", !.on = i]
        IN  q \in Editor /\ q.on = i /\ q.op = "clear"
    BY DEF NoEditor, Editor
  <2>4. CASE BeginRemove(e, i)
    BY <2>2, <2>4 DEF BeginRemove
  <2>5. CASE BeginSetPrimary(e, i)
    BY <2>3, <2>5 DEF BeginSetPrimary
  <2> QED
    BY <2>4, <2>5
<1>2. i \in Live /\ UNCHANGED <<image, file>>
  BY DEF BeginRemove, BeginSetPrimary
<1>3. /\ editor' \in [Editors -> Editor]
      /\ \A d \in Editors : editor'[d].op # "idle" => editor'[d].on \in Images
      /\ \A d \in Editors : editor'[d] = IF d = e THEN q ELSE editor[d]
  BY <1>1, EditorTurns DEF EditorStarts
<1>4. GalleryTypeOK'
  BY <1>1, <1>2, <1>3 DEF GalleryIInv, GalleryTypeOK, EditorStarts
<1>5. FilesInUse' /\ PlacesPromised'
  BY <1>1, <1>2, <1>3, StatesStay DEF GalleryIInv, FilesInUse
<1>6. OneAtATime'
  <2>1. Live' = Live /\ (OnePrimary' <=> OnePrimary) /\ (HasHadPhotos' <=> HasHadPhotos)
    BY <1>2, SameRows
  <2>2. ASSUME ~ mixed'
        PROVE  /\ \A d \in Editors \ {e} : EditorAt(d, "idle")
               /\ Cardinality(Live)' <= MaxImages
               /\ StandsAt(editor[e])'
               /\ (HasHadPhotos => OnePrimary)'
    <3>1. /\ \A d \in Editors \ {e} : EditorAt(d, "idle")
          /\ Cardinality(Live) <= MaxImages /\ (HasHadPhotos => OnePrimary)
      BY <1>1, <2>2, BegunAlone
    <3>2. StandsAt(editor[e])'
      BY <1>1, <1>2, <1>3, <2>1 DEF StandsAt
    <3> QED
      BY <2>1, <3>1, <3>2
  <2> QED
    BY <1>3, <2>2, OnlyCall
<1> QED
  BY <1>4, <1>5, <1>6 DEF GalleryIInv

(* Steps that only move a call on, by what it has read and what it finds.  *)
LEMMA CallGoesOn ==
    ASSUME GalleryIInv, NEW e \in Editors, NEW q \in Editor,
           editor[e].op # "idle", EditorBecomes(e, q),
           q.op # "idle" => q.on \in Images,
           UNCHANGED <<image, mixed>>, file' \subseteq Images, Live \subseteq file',
           \A d \in Editors \ {e} : EditorAt(d, "insert") => editor[d].on \in file',
           q.op \in {"store", "insert"} => e \in Uploading /\ q.on = editor[e].on,
           q.op = "insert" => q.on \in file',
           q.op = "clean" => image[q.on].state = "gone",
           ~ mixed => StandsAt(editor[e])',
           q.op \notin {"clean", "next", "raise"} =>
              \/ editor[e].op \notin {"clean", "next", "raise"}
              \/ ~ mixed => OnePrimary
    PROVE  GalleryIInv'
<1>1. /\ editor' \in [Editors -> Editor]
      /\ \A d \in Editors : editor'[d].op # "idle" => editor'[d].on \in Images
      /\ \A d \in Editors : editor'[d] = IF d = e THEN q ELSE editor[d]
  BY EditorTurns
<1>2. GalleryTypeOK'
  BY <1>1 DEF GalleryIInv, GalleryTypeOK
<1>3. FilesInUse' /\ PlacesPromised'
  <2>1. q.op = "clean" => image[q.on].state = "gone" /\ q.on \in Images
    OBVIOUS
  <2>2. \A i \in Images : image'[i].state = image[i].state
    OBVIOUS
  <2> QED
    BY <1>1, <2>1, <2>2, StatesStay
<1>4. OneAtATime'
  <2>1. Live' = Live /\ (OnePrimary' <=> OnePrimary) /\ (HasHadPhotos' <=> HasHadPhotos)
    BY SameRows
  <2>2. ASSUME ~ mixed'
        PROVE  /\ \A d \in Editors \ {e} : EditorAt(d, "idle")
               /\ Cardinality(Live)' <= MaxImages
               /\ StandsAt(editor[e])'
               /\ (editor[e].op \notin {"clean", "next", "raise"} =>
                     (HasHadPhotos => OnePrimary))'
    <3>1. /\ \A d \in Editors \ {e} : EditorAt(d, "idle")
          /\ Cardinality(Live) <= MaxImages
          /\ editor[e].op \notin {"clean", "next", "raise"} => (HasHadPhotos => OnePrimary)
      BY <2>2, WentAlone
    <3>2. (editor[e].op \notin {"clean", "next", "raise"} => (HasHadPhotos => OnePrimary))'
      BY <1>1, <2>1, <2>2, <3>1
    <3> QED
      BY <2>1, <2>2, <3>1, <3>2
  <2> QED
    BY <1>1, <2>2, OnlyCall
<1> QED
  BY <1>2, <1>3, <1>4 DEF GalleryIInv

(* The file of an upload is stored. *)
LEMMA StoreFileSound ==
    ASSUME GalleryIInv, NEW e \in Editors, StoreFile(e)
    PROVE  GalleryIInv'
<1> DEFINE q == [editor[e] EXCEPT !.op = "insert"]
<1>1. /\ editor[e] \in Editor /\ editor[e].op = "store" /\ editor[e].on \in Images
      /\ file' = file \cup {editor[e].on} /\ EditorBecomes(e, q)
      /\ UNCHANGED <<image, mixed>>
  BY EditorIs DEF StoreFile, EditorAt, EditorGoes
<1>2. /\ q \in Editor /\ q.op = "insert" /\ q.on = editor[e].on /\ q.count = editor[e].count
  BY <1>1 DEF Editor
<1> HIDE DEF q
<1>3. /\ file' \subseteq Images /\ Live \subseteq file'
      /\ \A d \in Editors \ {e} : EditorAt(d, "insert") => editor[d].on \in file'
  BY <1>1, EditorIs DEF GalleryIInv, FilesInUse
<1>4. ~ mixed => StandsAt(editor[e])'
  <2>1. Live' = Live /\ editor'[e] = q
    BY <1>1, <1>2, SameRows, EditorTurns
  <2>2. ~ mixed => StandsAt(editor[e])
    BY <1>1, WentAlone
  <2> QED
    BY <1>1, <1>2, <2>1, <2>2 DEF StandsAt
<1> QED
  BY <1>1, <1>2, <1>3, <1>4, CallGoesOn DEF Uploading

(* A removal counts the rows: the last one stays. *)
LEMMA CountForRemoveSound ==
    ASSUME GalleryIInv, NEW e \in Editors, CountForRemove(e)
    PROVE  GalleryIInv'
<1>1. /\ editor[e] \in Editor /\ editor[e].op = "count" /\ editor[e].on \in Images
      /\ UNCHANGED <<image, file, mixed>>
  BY EditorIs DEF CountForRemove, EditorAt
<1>2. PICK q \in Editor :
         /\ EditorBecomes(e, q)
         /\ \/ q.op = "idle"
            \/ /\ Cardinality(Live) > 1
               /\ q.op = "delete" /\ q.on = editor[e].on /\ q.primary = editor[e].primary
  <2>1. LET q == [editor[e] EXCEPT !.op = "delete"]
        IN  q \in Editor /\ q.op = "delete" /\ q.on = editor[e].on /\ q.primary = editor[e].primary
    BY <1>1 DEF Editor
  <2> QED
    BY <2>1, NoEditorTyped DEF CountForRemove, EditorGoes, EditorEnds
<1>3. /\ file' \subseteq Images /\ Live \subseteq file'
      /\ \A d \in Editors \ {e} : EditorAt(d, "insert") => editor[d].on \in file'
  BY <1>1, EditorIs DEF GalleryIInv, FilesInUse
<1>4. ~ mixed => StandsAt(editor[e])'
  <2>1. Live' = Live /\ editor'[e] = q
    BY <1>1, <1>2, SameRows, EditorTurns
  <2>2. ~ mixed => StandsAt(editor[e])
    BY <1>1, WentAlone
  <2>3. Cardinality(Live) > 1 => \A i : Live # {i}
    BY FS_Singleton
  <2> QED
    BY <1>1, <1>2, <2>1, <2>2, <2>3 DEF StandsAt
<1> QED
  BY <1>1, <1>2, <1>3, <1>4, CallGoesOn

(* The file of a deleted row goes. *)
LEMMA DeleteFileSound ==
    ASSUME GalleryIInv, NEW e \in Editors, DeleteFile(e)
    PROVE  GalleryIInv'
<1>1. /\ editor[e] \in Editor /\ editor[e].op = "clean" /\ editor[e].on \in Images
      /\ file' = file \ {editor[e].on} \/ file' = file
      /\ UNCHANGED <<image, mixed>>
  BY EditorIs DEF DeleteFile, EditorAt
<1>2. PICK q \in Editor :
         /\ EditorBecomes(e, q)
         /\ IF editor[e].primary THEN q.op = "next" /\ q.on = editor[e].on ELSE q.op = "idle"
  <2>1. LET q == [editor[e] EXCEPT !.op = "next"]
        IN  q \in Editor /\ q.op = "next" /\ q.on = editor[e].on
    BY <1>1 DEF Editor
  <2> QED
    BY <2>1, NoEditorTyped DEF DeleteFile, EditorGoes, EditorEnds
<1>3. /\ file' \subseteq Images /\ Live \subseteq file'
      /\ \A d \in Editors \ {e} : EditorAt(d, "insert") => editor[d].on \in file'
  <2>1. image[editor[e].on].state = "gone"
    BY <1>1 DEF GalleryIInv, FilesInUse, EditorAt
  <2>2. \A i \in file : image[i].state # "gone" => i \in file'
    BY <1>1, <2>1
  <2>3. \A d \in Editors : EditorAt(d, "insert") =>
           editor[d].on \in file /\ image[editor[d].on].state = "new"
    BY DEF GalleryIInv, FilesInUse, Uploading, EditorAt
  <2> QED
    BY <1>1, <2>2, <2>3, EditorIs DEF GalleryIInv, FilesInUse, Live
<1>4. ~ mixed => StandsAt(editor[e])
  BY <1>1, WentAlone
<1>5. ~ mixed => StandsAt(editor[e])'
  <2>1. Live' = Live /\ Primaries' = Primaries /\ editor'[e] = q
    BY <1>1, <1>2, SameRows, EditorTurns
  <2> QED
    BY <1>1, <1>2, <1>4, <2>1 DEF StandsAt
<1>6. q.op \notin {"clean", "next", "raise"} => (~ mixed => OnePrimary)
  BY <1>1, <1>2, <1>4 DEF StandsAt
<1> QED
  BY <1>1, <1>2, <1>3, <1>5, <1>6, CallGoesOn

(* The first of the others is found. *)
LEMMA FindNextSound ==
    ASSUME GalleryIInv, NEW e \in Editors, FindNext(e)
    PROVE  GalleryIInv'
<1>1. /\ editor[e] \in Editor /\ editor[e].op = "next" /\ editor[e].on \in Images
      /\ UNCHANGED <<image, file, mixed>>
  BY EditorIs DEF FindNext, EditorAt
<1>2. PICK q \in Editor :
         /\ EditorBecomes(e, q)
         /\ IF Live = {} THEN q.op = "idle" ELSE q.op = "raise" /\ q.on \in Live
  <2>1. ASSUME NEW i \in Live
        PROVE  LET q == [editor[e] EXCEPT !.op = "raise", !.on = i]
               IN  q \in Editor /\ q.op = "raise" /\ q.on = i
    BY <1>1, <2>1 DEF Editor, Live
  <2>2. CASE Live = {}
    BY <2>2, NoEditorTyped DEF FindNext, EditorEnds
  <2>3. CASE Live # {}
    BY <2>1, <2>3 DEF FindNext
  <2> QED
    BY <2>2, <2>3
<1>3. /\ file' \subseteq Images /\ Live \subseteq file'
      /\ \A d \in Editors \ {e} : EditorAt(d, "insert") => editor[d].on \in file'
  BY <1>1, EditorIs DEF GalleryIInv, FilesInUse
<1>4. ~ mixed => Live # {} /\ Primaries = {}
  BY <1>1, WentAlone DEF StandsAt
<1>5. Live' = Live /\ Primaries' = Primaries /\ editor'[e] = q
  <2>1. q.op # "idle" => q.on \in Images
    BY <1>2 DEF Live
  <2> QED
    BY <1>1, <1>2, <2>1, SameRows, EditorTurns
<1>6. ~ mixed => StandsAt(editor[e])'
  BY <1>2, <1>4, <1>5 DEF StandsAt
<1>7. (q.op # "idle" => q.on \in Images) /\ q.op \in {"idle", "raise"} /\ (~ mixed => q.op = "raise")
  BY <1>2, <1>4 DEF Live
<1>8. q.op \notin {"clean", "next", "raise"} => (~ mixed => OnePrimary)
  BY <1>7
<1> QED
  BY <1>1, <1>2, <1>3, <1>6, <1>7, <1>8, CallGoesOn

(* The rows that are primary are read. *)
LEMMA ClearPrimarySound ==
    ASSUME GalleryIInv, NEW e \in Editors, ClearPrimary(e)
    PROVE  GalleryIInv'
<1> DEFINE q == [editor[e] EXCEPT !.op = "choose", !.cleared = Primaries]
<1>1. /\ editor[e] \in Editor /\ editor[e].op = "clear" /\ editor[e].on \in Images
      /\ EditorBecomes(e, q)
      /\ UNCHANGED <<image, file, mixed>>
  BY EditorIs DEF ClearPrimary, EditorAt, Primaries
<1>2. q \in Editor /\ q.op = "choose" /\ q.on = editor[e].on /\ q.cleared = Primaries
  <2>1. Primaries \in SUBSET Images
    BY DEF Primaries, Live
  <2> QED
    BY <1>1, <2>1 DEF Editor
<1> HIDE DEF q
<1>3. /\ file' \subseteq Images /\ Live \subseteq file'
      /\ \A d \in Editors \ {e} : EditorAt(d, "insert") => editor[d].on \in file'
  BY <1>1, EditorIs DEF GalleryIInv, FilesInUse
<1>4. ~ mixed => StandsAt(editor[e])'
  <2>1. Live' = Live /\ Primaries' = Primaries /\ editor'[e] = q
    BY <1>1, <1>2, SameRows, EditorTurns
  <2>2. ~ mixed => StandsAt(editor[e])
    BY <1>1, WentAlone
  <2> QED
    BY <1>1, <1>2, <2>1, <2>2 DEF StandsAt
<1> QED
  BY <1>1, <1>2, <1>3, <1>4, CallGoesOn

(* A call is cut short. *)
LEMMA CutEditorSound ==
    ASSUME GalleryIInv, NEW e \in Editors, CutEditor(e)
    PROVE  GalleryIInv'
<1>1. /\ EditorBecomes(e, NoEditor) /\ mixed' = TRUE /\ UNCHANGED <<image, file>>
  BY DEF CutEditor, EditorEnds
<1>2. /\ editor' \in [Editors -> Editor]
      /\ \A d \in Editors : editor'[d].op # "idle" => editor'[d].on \in Images
      /\ \A d \in Editors : editor'[d] = IF d = e THEN NoEditor ELSE editor[d]
  BY <1>1, NoEditorTyped, EditorTurns
<1>3. GalleryTypeOK'
  BY <1>1, <1>2 DEF GalleryIInv, GalleryTypeOK
<1>4. FilesInUse' /\ PlacesPromised'
  BY <1>1, <1>2, NoEditorTyped, StatesStay DEF GalleryIInv, FilesInUse
<1>5. OneAtATime'
  BY <1>1 DEF OneAtATime
<1> QED
  BY <1>3, <1>4, <1>5 DEF GalleryIInv

------------------------------------------------------------------------------
(* The row of an upload. *)
LEMMA InsertImageSound ==
    ASSUME GalleryIInv, NEW e \in Editors, InsertImage(e)
    PROVE  GalleryIInv'
<1> DEFINE i == editor[e].on
           n == editor[e].count
           row == [state |-> "live", primary |-> n = 0, place |-> n]
<1>1. /\ editor[e] \in Editor /\ editor[e].op = "insert" /\ i \in Images /\ n \in Nat
      /\ image \in [Images -> ImageRow] /\ i \in file /\ image[i].state = "new"
      /\ e \in Uploading
      /\ UNCHANGED <<file, mixed>>
  BY EditorIs DEF InsertImage, EditorAt, Editor, GalleryIInv, FilesInUse, Uploading
<1>2. /\ editor' \in [Editors -> Editor]
      /\ \A d \in Editors : editor'[d].op # "idle" => editor'[d].on \in Images
      /\ \A d \in Editors : editor'[d] = IF d = e THEN NoEditor ELSE editor[d]
  <2>1. EditorBecomes(e, NoEditor)
    BY DEF InsertImage, EditorEnds
  <2> QED
    BY <2>1, NoEditorTyped, EditorTurns
<1>3. /\ row \in ImageRow /\ row.state = "live" /\ (row.primary <=> n = 0)
      /\ image' = [image EXCEPT ![i] = row]
  BY <1>1 DEF ImageRow, InsertImage
<1> HIDE DEF row
<1>4. /\ image' \in [Images -> ImageRow]
      /\ \A j \in Images : image'[j] = IF j = i THEN row ELSE image[j]
  BY <1>1, <1>3
<1>5. GalleryTypeOK'
  BY <1>1, <1>2, <1>4 DEF GalleryIInv, GalleryTypeOK
<1>6. Live' = Live \cup {i} /\ i \notin Live /\ Uploading' = Uploading \ {e}
  BY <1>1, <1>2, <1>3, <1>4, NoEditorTyped DEF Live, Uploading
<1>7. FilesInUse'
  <2>1. \A d \in Uploading' : d \in Uploading /\ d # e /\ editor'[d] = editor[d] /\ editor[d].on # i
    BY <1>1, <1>2, <1>6 DEF GalleryIInv, FilesInUse, Uploading
  <2>2. \A d \in Uploading' : image'[editor'[d].on].state = "new"
    BY <1>2, <1>4, <2>1, EditorIs DEF GalleryIInv, FilesInUse, Uploading
  <2>3. \A d \in Editors : /\ EditorAt(d, "insert")' => editor'[d].on \in file'
                           /\ EditorAt(d, "clean")' => image'[editor'[d].on].state = "gone"
    <3>1. \A d \in Editors : EditorAt(d, "clean") => editor[d].on # i
      BY <1>1 DEF GalleryIInv, FilesInUse
    <3> QED
      BY <1>1, <1>2, <1>4, <3>1, NoEditorTyped, EditorIs DEF GalleryIInv, FilesInUse, EditorAt
  <2>4. \A d, f \in Uploading' : editor'[d].on = editor'[f].on => d = f
    BY <2>1 DEF GalleryIInv, FilesInUse
  <2>5. Live' \subseteq file'
    BY <1>1, <1>6 DEF GalleryIInv, FilesInUse
  <2> QED
    BY <2>2, <2>3, <2>4, <2>5 DEF FilesInUse
<1>8. /\ IsFiniteSet(Live) /\ Cardinality(Live) \in Nat
      /\ Cardinality(Live') = Cardinality(Live) + 1
      /\ Cardinality(Uploading) \in Nat /\ Cardinality(Uploading') = Cardinality(Uploading) - 1
  <2>1. /\ IsFiniteSet(Live) /\ Cardinality(Live) \in Nat
        /\ IsFiniteSet(Uploading) /\ Cardinality(Uploading) \in Nat
    BY GalleryFinite DEF Live, Uploading
  <2> QED
    BY <1>1, <1>6, <2>1, FS_AddElement, FS_RemoveElement
<1>9. PlacesPromised'
  BY <1>8 DEF GalleryIInv, PlacesPromised
<1>10. OneAtATime'
  <2>1. ASSUME ~ mixed'
        PROVE  /\ \A d \in Editors \ {e} : EditorAt(d, "idle")
               /\ Cardinality(Live)' <= MaxImages
               /\ StandsAt(editor[e])'
               /\ OnePrimary'
    <3>1. /\ \A d \in Editors \ {e} : EditorAt(d, "idle")
          /\ n = Cardinality(Live) /\ n < MaxImages
          /\ HasHadPhotos => OnePrimary
      BY <1>1, <2>1, WentAlone DEF StandsAt
    <3>2. Cardinality(Live)' <= MaxImages
      BY <1>1, <1>8, <3>1, GalleryAssumption
    <3>3. StandsAt(editor[e])'
      BY <1>2, NoEditorTyped DEF StandsAt
    <3>4. ASSUME n = 0 PROVE OnePrimary'
      <4>1. Live = {}
        BY <1>8, <3>1, <3>4, FS_EmptySet
      <4>2. Primaries' = {i}
        BY <1>3, <1>4, <1>6, <3>4, <4>1 DEF Primaries
      <4> QED
        BY <1>1, <4>2 DEF OnePrimary
    <3>5. ASSUME n # 0 PROVE OnePrimary'
      <4>1. Live # {}
        BY <3>1, <3>5, FS_EmptySet
      <4>2. OnePrimary
        BY <3>1, <4>1 DEF HasHadPhotos, Live
      <4>3. Primaries' = Primaries
        <5>1. \A j \in Live : j \in Images /\ j # i
          BY <1>6 DEF Live
        <5> QED
          BY <1>1, <1>3, <1>4, <1>6, <3>5, <5>1 DEF Primaries
      <4> QED
        BY <4>2, <4>3 DEF OnePrimary
    <3> QED
      BY <3>1, <3>2, <3>3, <3>4, <3>5
  <2> QED
    BY <1>2, <2>1, OnlyCall
<1> QED
  BY <1>5, <1>7, <1>9, <1>10 DEF GalleryIInv

(* A row is deleted, if it is still there. *)
LEMMA DeleteImageSound ==
    ASSUME GalleryIInv, NEW e \in Editors, DeleteImage(e)
    PROVE  GalleryIInv'
<1> DEFINE i == editor[e].on
           q == [editor[e] EXCEPT !.op = "clean"]
           row == [image[i] EXCEPT !.state = "gone", !.primary = FALSE]
<1>1. /\ editor[e] \in Editor /\ editor[e].op = "delete" /\ i \in Images
      /\ image \in [Images -> ImageRow] /\ UNCHANGED <<file, mixed>>
  BY EditorIs DEF DeleteImage, EditorAt
<1>2. CASE i \notin Live
  <2>1. UNCHANGED image /\ EditorBecomes(e, NoEditor)
    BY <1>2 DEF DeleteImage, EditorEnds
  <2>2. /\ file' \subseteq Images /\ Live \subseteq file'
        /\ \A d \in Editors \ {e} : EditorAt(d, "insert") => editor[d].on \in file'
    BY <1>1, EditorIs DEF GalleryIInv, FilesInUse
  <2>3. ~ mixed => StandsAt(editor[e])'
    <3>1. editor'[e] = NoEditor
      BY <2>1, NoEditorTyped, EditorTurns
    <3> QED
      BY <3>1, NoEditorTyped DEF StandsAt
  <2> QED
    BY <1>1, <2>1, <2>2, <2>3, NoEditorTyped, CallGoesOn
<1>3. CASE i \in Live
  <2>1. /\ q \in Editor /\ q.op = "clean" /\ q.on = i /\ q.primary = editor[e].primary
    BY <1>1 DEF Editor
  <2>2. /\ row \in ImageRow /\ row.state = "gone" /\ row.primary = FALSE
        /\ image' = [image EXCEPT ![i] = row] /\ EditorBecomes(e, q)
    <3>1. image[i] \in ImageRow
      BY <1>1
    <3>2. row \in ImageRow /\ row.state = "gone" /\ row.primary = FALSE
      BY <3>1 DEF ImageRow
    <3>3. /\ image' = [image EXCEPT ![i].state = "gone", ![i].primary = FALSE]
          /\ EditorBecomes(e, q)
      BY <1>3 DEF DeleteImage, EditorGoes
    <3> QED
      BY <1>1, <3>1, <3>2, <3>3 DEF ImageRow
  <2> HIDE DEF q, row
  <2>3. /\ editor' \in [Editors -> Editor]
        /\ \A d \in Editors : editor'[d].op # "idle" => editor'[d].on \in Images
        /\ \A d \in Editors : editor'[d] = IF d = e THEN q ELSE editor[d]
    BY <1>1, <2>1, <2>2, EditorTurns
  <2>4. /\ image' \in [Images -> ImageRow]
        /\ \A j \in Images : image'[j] = IF j = i THEN row ELSE image[j]
    BY <1>1, <2>2
  <2>5. GalleryTypeOK'
    BY <1>1, <2>3, <2>4 DEF GalleryIInv, GalleryTypeOK
  <2>6. Live' = Live \ {i} /\ Uploading' = Uploading
    BY <1>1, <2>1, <2>2, <2>3, <2>4 DEF Live, Uploading
  <2>7. FilesInUse'
    <3>1. \A d \in Editors : /\ d \in Uploading => editor[d].on # i
                             /\ EditorAt(d, "insert") => d \in Uploading
      BY <1>3 DEF GalleryIInv, FilesInUse, Live, Uploading, EditorAt
    <3>2. \A d \in Uploading : d # e /\ editor'[d] = editor[d]
      BY <1>1, <2>3 DEF Uploading
    <3>3. \A d \in Uploading' : image'[editor'[d].on].state = "new"
      BY <2>3, <2>4, <2>6, <3>1, <3>2 DEF GalleryIInv, FilesInUse, Uploading
    <3>4. \A d \in Editors : EditorAt(d, "insert")' => editor'[d].on \in file'
      BY <1>1, <2>1, <2>3, EditorIs DEF GalleryIInv, FilesInUse, EditorAt
    <3>5. \A d \in Editors : EditorAt(d, "clean")' => image'[editor'[d].on].state = "gone"
      BY <1>1, <2>1, <2>2, <2>3, <2>4, EditorIs DEF GalleryIInv, FilesInUse, EditorAt
    <3>6. \A d, f \in Uploading' : editor'[d].on = editor'[f].on => d = f
      BY <2>6, <3>2 DEF GalleryIInv, FilesInUse
    <3>7. Live' \subseteq file'
      BY <1>1, <2>6 DEF GalleryIInv, FilesInUse
    <3> QED
      BY <3>3, <3>4, <3>5, <3>6, <3>7 DEF FilesInUse
  <2>8. /\ IsFiniteSet(Live) /\ Cardinality(Live) \in Nat
        /\ Cardinality(Live') = Cardinality(Live) - 1
        /\ Cardinality(Uploading) \in Nat
    <3>1. /\ IsFiniteSet(Live) /\ Cardinality(Live) \in Nat
          /\ Cardinality(Uploading) \in Nat
      BY GalleryFinite DEF Live, Uploading
    <3>2. Cardinality(Live \ {i}) = Cardinality(Live) - 1
      BY <1>3, <3>1, FS_RemoveElement
    <3> QED
      BY <2>6, <3>1, <3>2
  <2>9. PlacesPromised'
    <3>1. Cardinality(Editors) \in Nat /\ MaxImages \in Nat
      BY GalleryAssumption, FS_CardinalityType
    <3> QED
      BY <2>6, <2>8, <3>1 DEF GalleryIInv, PlacesPromised
  <2>10. OneAtATime'
    <3>1. ASSUME ~ mixed'
          PROVE  /\ \A d \in Editors \ {e} : EditorAt(d, "idle")
                 /\ Cardinality(Live)' <= MaxImages
                 /\ StandsAt(editor[e])'
      <4>1. /\ \A d \in Editors \ {e} : EditorAt(d, "idle")
            /\ Cardinality(Live) <= MaxImages
            /\ q.primary = image[i].primary /\ Live # {i}
            /\ HasHadPhotos => OnePrimary
        BY <1>1, <2>1, <3>1, WentAlone DEF StandsAt
      <4>2. PICK k \in Images : Primaries = {k}
        BY <1>3, <4>1 DEF HasHadPhotos, Live, OnePrimary
      <4>3. Primaries' = Primaries \ {i}
        BY <2>4, <2>6 DEF Primaries, Live
      <4>4. IF q.primary THEN Primaries' = {} ELSE OnePrimary'
        <5>1. q.primary <=> i \in Primaries
          BY <1>3, <4>1 DEF Primaries
        <5>2. CASE i = k
          BY <4>2, <4>3, <5>1, <5>2
        <5>3. CASE i # k
          BY <4>2, <4>3, <5>1, <5>3 DEF OnePrimary
        <5> QED
          BY <5>2, <5>3
      <4>5. Live' # {}
        BY <1>3, <2>6, <4>1
      <4>6. StandsAt(editor[e])'
        BY <2>1, <2>3, <4>4, <4>5 DEF StandsAt
      <4> QED
        BY <2>8, <4>1, <4>6, GalleryAssumption
    <3> QED
      BY <2>1, <2>3, <3>1, OnlyCall
  <2> QED
    BY <2>5, <2>7, <2>9, <2>10 DEF GalleryIInv
<1> QED
  BY <1>2, <1>3

(* The call that changed which row is primary ends.                        *)
LEMMA PrimaryWritten ==
    ASSUME GalleryIInv, NEW e \in Editors, editor[e].op \in {"raise", "choose"},
           EditorEnds(e), UNCHANGED <<file, mixed>>,
           image' \in [Images -> ImageRow],
           \A j \in Images : image'[j].state = image[j].state,
           ~ mixed => Primaries' = {editor[e].on}
    PROVE  GalleryIInv'
<1>1. /\ editor' \in [Editors -> Editor]
      /\ \A d \in Editors : editor'[d].op # "idle" => editor'[d].on \in Images
      /\ \A d \in Editors : editor'[d] = IF d = e THEN NoEditor ELSE editor[d]
  BY NoEditorTyped, EditorTurns DEF EditorEnds
<1>2. GalleryTypeOK'
  BY <1>1 DEF GalleryIInv, GalleryTypeOK
<1>3. FilesInUse' /\ PlacesPromised'
  BY <1>1, NoEditorTyped, StatesStay DEF GalleryIInv, FilesInUse
<1>4. OneAtATime'
  <2>1. Live' = Live
    BY DEF Live
  <2>2. ASSUME ~ mixed'
        PROVE  /\ \A d \in Editors \ {e} : EditorAt(d, "idle")
               /\ Cardinality(Live)' <= MaxImages
               /\ StandsAt(editor[e])'
               /\ OnePrimary'
    <3>1. (\A d \in Editors \ {e} : EditorAt(d, "idle")) /\ Cardinality(Live) <= MaxImages
      BY <2>2, WentAlone
    <3>2. StandsAt(editor[e])'
      BY <1>1, NoEditorTyped DEF StandsAt
    <3>3. editor[e].on \in Images /\ Primaries' = {editor[e].on}
      BY <2>2, EditorIs
    <3>4. OnePrimary'
      BY <3>3 DEF OnePrimary
    <3> QED
      BY <2>1, <3>1, <3>2, <3>4
  <2> QED
    BY <1>1, <2>2, OnlyCall
<1> QED
  BY <1>2, <1>3, <1>4 DEF GalleryIInv

LEMMA RaiseNextSound ==
    ASSUME GalleryIInv, NEW e \in Editors, RaiseNext(e)
    PROVE  GalleryIInv'
<1> DEFINE i == editor[e].on
           row == [image[i] EXCEPT !.primary = TRUE]
<1>1. /\ editor[e].op = "raise" /\ i \in Images /\ image \in [Images -> ImageRow]
      /\ UNCHANGED <<file, mixed>> /\ EditorEnds(e)
  BY EditorIs DEF RaiseNext, EditorAt
<1>2. /\ row \in ImageRow /\ row.state = image[i].state /\ row.primary = TRUE
      /\ image' = IF i \in Live THEN [image EXCEPT ![i] = row] ELSE image
  BY <1>1 DEF ImageRow, RaiseNext
<1> HIDE DEF row
<1>3. /\ image' \in [Images -> ImageRow]
      /\ \A j \in Images : image'[j] = IF j = i /\ i \in Live THEN row ELSE image[j]
  BY <1>1, <1>2
<1>4. \A j \in Images : image'[j].state = image[j].state
  BY <1>2, <1>3
<1>5. ASSUME ~ mixed PROVE Primaries' = {i}
  <2>1. i \in Live /\ Primaries = {}
    BY <1>1, <1>5, WentAlone DEF StandsAt
  <2>2. Live' = Live
    BY <1>4 DEF Live
  <2>3. \A j \in Live : image'[j].primary <=> j = i
    BY <1>2, <1>3, <2>1 DEF Primaries, Live
  <2> QED
    BY <2>1, <2>2, <2>3 DEF Primaries
<1> QED
  BY <1>1, <1>3, <1>4, <1>5, PrimaryWritten

(* The commit of a choice: the rows it found primary are no longer so.     *)
LEMMA ChoosePrimarySound ==
    ASSUME GalleryIInv, NEW e \in Editors, ChoosePrimary(e)
    PROVE  GalleryIInv'
<1> DEFINE i == editor[e].on
           C == editor[e].cleared
           chosen(j) == (j = i) \/ (image[j].primary /\ j \notin C)
           row(j) == [image[j] EXCEPT !.primary = chosen(j)]
<1>1. /\ editor[e].op = "choose" /\ i \in Images /\ image \in [Images -> ImageRow]
      /\ UNCHANGED <<file, mixed>> /\ EditorEnds(e)
  BY EditorIs DEF ChoosePrimary, EditorAt
<1>2. image' = IF i \in Live THEN [j \in Images |-> row(j)] ELSE image
  BY DEF ChoosePrimary
<1>3. ASSUME NEW j \in Images
      PROVE  row(j) \in ImageRow /\ row(j).state = image[j].state /\ row(j).primary = chosen(j)
  <2>1. image[j] \in ImageRow /\ image[j].primary \in BOOLEAN
    BY <1>1 DEF ImageRow
  <2>2. chosen(j) \in BOOLEAN
    BY <2>1
  <2> HIDE DEF chosen
  <2> QED
    BY <2>1, <2>2 DEF ImageRow
<1> HIDE DEF row
<1>4. /\ image' \in [Images -> ImageRow]
      /\ \A j \in Images : image'[j] = IF i \in Live THEN row(j) ELSE image[j]
  BY <1>1, <1>2, <1>3
<1>5. \A j \in Images : image'[j].state = image[j].state
  BY <1>3, <1>4
<1>6. ASSUME ~ mixed PROVE Primaries' = {i}
  <2>1. i \in Live /\ C = Primaries
    BY <1>1, <1>6, WentAlone DEF StandsAt
  <2>2. Live' = Live
    BY <1>5 DEF Live
  <2>3. ASSUME NEW j \in Live PROVE image'[j].primary <=> j = i
    <3>1. j \in Images /\ (image[j].primary => j \in C)
      BY <2>1, <2>3 DEF Primaries, Live
    <3>2. image'[j].primary = chosen(j)
      BY <1>3, <1>4, <2>1, <3>1
    <3> QED
      BY <3>1, <3>2
  <2> QED
    BY <2>1, <2>2, <2>3 DEF Primaries
<1> QED
  BY <1>1, <1>4, <1>5, <1>6, PrimaryWritten

(* A row is moved. *)
LEMMA ReorderSound ==
    ASSUME GalleryIInv, NEW i \in Images, NEW n \in 0 .. MaxImages, Reorder(i, n)
    PROVE  GalleryIInv'
<1> DEFINE row == [image[i] EXCEPT !.place = n]
<1>1. /\ image \in [Images -> ImageRow] /\ n \in Nat /\ UNCHANGED <<file, editor, mixed>>
  BY GalleryAssumption DEF Reorder, GalleryIInv, GalleryTypeOK
<1>2. /\ row \in ImageRow /\ row.state = image[i].state /\ row.primary = image[i].primary
      /\ image' = [image EXCEPT ![i] = row]
  BY <1>1 DEF ImageRow, Reorder
<1> HIDE DEF row
<1>3. /\ image' \in [Images -> ImageRow]
      /\ \A j \in Images : /\ image'[j].state = image[j].state
                           /\ image'[j].primary = image[j].primary
  BY <1>1, <1>2
<1>4. Live' = Live /\ Primaries' = Primaries /\ (HasHadPhotos' <=> HasHadPhotos)
  BY <1>3 DEF Live, Primaries, HasHadPhotos
<1>5. GalleryTypeOK' /\ PlacesPromised'
  BY <1>1, <1>3, <1>4 DEF GalleryIInv, GalleryTypeOK, PlacesPromised, Uploading
<1>6. FilesInUse'
  BY <1>1, <1>3, <1>4, EditorIs DEF GalleryIInv, FilesInUse, Uploading, EditorAt
<1>7. OneAtATime'
  <2>1. ASSUME NEW e \in Editors, StandsAt(editor[e]) PROVE StandsAt(editor[e])'
    <3>1. editor[e].op \in {"count", "delete"} => editor[e].on \in Images
      BY EditorIs
    <3> QED
      BY <1>1, <1>3, <1>4, <2>1, <3>1 DEF StandsAt, OnePrimary
  <2> QED
    BY <1>1, <1>4, <2>1 DEF GalleryIInv, OneAtATime, EditorAt, OnePrimary
<1> QED
  BY <1>5, <1>6, <1>7 DEF GalleryIInv

------------------------------------------------------------------------------
LEMMA GalleryInitIInv == GalleryInit => GalleryIInv
<1> SUFFICES ASSUME GalleryInit PROVE GalleryIInv
  OBVIOUS
<1>1. GalleryTypeOK
  BY NoEditorTyped DEF GalleryInit, GalleryTypeOK, ImageRow
<1>2. Live = {} /\ Uploading = {} /\ ~ HasHadPhotos
  BY NoEditorTyped DEF GalleryInit, Live, Uploading, HasHadPhotos
<1>3. FilesInUse
  BY <1>2, NoEditorTyped DEF GalleryInit, FilesInUse, EditorAt
<1>4. PlacesPromised
  <2>1. Cardinality(Editors) \in Nat /\ MaxImages \in Nat \ {0}
    BY GalleryAssumption, FS_CardinalityType
  <2> QED
    BY <1>2, <2>1, FS_EmptySet DEF PlacesPromised
<1>5. OneAtATime
  <2>1. \A e \in Editors : editor[e].op = "idle"
    BY NoEditorTyped DEF GalleryInit
  <2>2. \A e \in Editors : StandsAt(editor[e])
    BY <2>1 DEF StandsAt
  <2>3. Cardinality(Live) <= MaxImages
    BY <1>2, FS_EmptySet, GalleryAssumption
  <2> QED
    BY <1>2, <2>1, <2>2, <2>3 DEF OneAtATime, EditorAt
<1> QED
  BY <1>1, <1>3, <1>4, <1>5 DEF GalleryIInv

(* Every step of the gallery. *)
LEMMA GalleryNextIInv == GalleryIInv /\ [GalleryNext]_galleryVars => GalleryIInv'
<1> SUFFICES ASSUME GalleryIInv, [GalleryNext]_galleryVars PROVE GalleryIInv'
  OBVIOUS
<1>1. CASE GalleryNext
  BY <1>1, BeginUploadSound, BeginOnARowSound, StoreFileSound, InsertImageSound,
     CountForRemoveSound, DeleteImageSound, DeleteFileSound, FindNextSound, RaiseNextSound,
     ClearPrimarySound, ChoosePrimarySound, CutEditorSound, ReorderSound DEF GalleryNext
<1>2. CASE UNCHANGED galleryVars
  BY <1>2 DEF galleryVars, GalleryIInv, GalleryTypeOK, FilesInUse, PlacesPromised, OneAtATime,
             StandsAt, Uploading, Live, Primaries, OnePrimary, HasHadPhotos, EditorAt
<1> QED
  BY <1>1, <1>2

(* Whatever overlaps or is cut short, every photo of the gallery has its   *)
(* file, and its limit is exceeded by no more than the calls in flight; and*)
(* one call at a time leaves exactly one primary photo.                    *)
THEOREM GallerySound == GallerySpec => []GalleryIsSound
<1>1. GalleryIInv => GalleryIsBacked
  <2>1. /\ Cardinality(Live) \in Nat /\ Cardinality(Uploading) \in Nat
        /\ Cardinality(Editors) \in Nat /\ MaxImages \in Nat
    BY GalleryFinite, GalleryAssumption, FS_CardinalityType DEF Live, Uploading
  <2> QED
    BY <2>1 DEF GalleryIInv, FilesInUse, PlacesPromised, GalleryIsBacked
<1>2. GalleryIInv => GalleryIsOrderly
  <2> SUFFICES ASSUME GalleryIInv, ~ mixed, \A e \in Editors : EditorAt(e, "idle")
               PROVE  /\ Cardinality(Live) <= MaxImages
                      /\ HasHadPhotos => Cardinality(Primaries) = 1
    BY DEF GalleryIsOrderly, HasHadPhotos, Primaries
  <2>1. Cardinality(Live) <= MaxImages /\ (HasHadPhotos => OnePrimary)
    BY DEF GalleryIInv, OneAtATime, EditorAt
  <2> QED
    BY <2>1, FS_Singleton DEF OnePrimary
<1> QED
  BY <1>1, <1>2, GalleryInitIInv, GalleryNextIInv, PTL DEF GallerySpec, GalleryIsSound

------------------------------------------------------------------------------
(* The catalogue.                                                          *)

(* A call has the rows its write is for. *)
NamesItsRows(q) ==
    /\ q.op \notin {"idle", "removeValue"} => q.product \in Products
    /\ q.op \in {"editVariant", "changeVariant", "removeVariant"} => q.variant \in Variants

CatalogueRows == CatalogueTypeOK /\ \A m \in Clerks : NamesItsRows(clerk[m])

StockIsOfLiveRows ==
    \A i \in stocked : LiveProduct(i[1]) /\ (i[2] # NoVariant => LiveVariant(i[1], i[2]))
VariantsStand ==
    \A v \in Variants : variant[v].life = "live" =>
        /\ variant[v].value \in Values
        /\ LiveProduct(variant[v].product) /\ ValidValue(variant[v].value)
        /\ variant[v].key = variant[v].value
SaleHasASku ==
    \A p \in Products : product[p].type = "SIMPLE" /\ product[p].status = "ACTIVE" => product[p].sku

(* An id that was archived names a row, so no new row takes it. *)
ArchivedForGood ==
    \A p \in archived : product[p].status = "ARCHIVED" /\ product[p].life # "none"

CatalogueIInv ==
    CatalogueRows /\ (~ late => StockIsOfLiveRows /\ VariantsStand /\ SaleHasASku /\ ArchivedForGood)

(* The empty call. *)
LEMMA NoClerkTyped == NoClerk \in Clerk /\ NamesItsRows(NoClerk) /\ NewRow \in ProductRow
BY DEF NoClerk, On, NewRow, Clerk, NamesItsRows, ProductRow, Life

(* A call that begins or ends. *)
LEMMA ClerkTurns ==
    ASSUME CatalogueRows, NEW m \in Clerks, NEW q \in Clerk, NamesItsRows(q),
           clerk' = [clerk EXCEPT ![m] = q]
    PROVE  clerk' \in [Clerks -> Clerk] /\ \A n \in Clerks : NamesItsRows(clerk'[n])
<1>1. clerk \in [Clerks -> Clerk]
  BY DEF CatalogueRows, CatalogueTypeOK
<1>2. \A n \in Clerks : clerk'[n] = IF n = m THEN q ELSE clerk[n]
  BY <1>1
<1> QED
  BY <1>1, <1>2 DEF CatalogueRows

(* A step that leaves the rows alone. *)
LEMMA RowsStayWhole ==
    ASSUME CatalogueIInv, UNCHANGED <<product, variant, attrValue, stocked, archived>>,
           clerk' \in [Clerks -> Clerk], \A m \in Clerks : NamesItsRows(clerk'[m]),
           late' = late
    PROVE  CatalogueIInv'
<1>1. CatalogueRows'
  BY DEF CatalogueIInv, CatalogueRows, CatalogueTypeOK
<1>2. CASE late
  BY <1>1, <1>2 DEF CatalogueIInv
<1>3. CASE ~ late
  <2>1. StockIsOfLiveRows' /\ VariantsStand' /\ SaleHasASku' /\ ArchivedForGood'
    BY <1>3 DEF CatalogueIInv, StockIsOfLiveRows, VariantsStand, SaleHasASku, ArchivedForGood,
                LiveProduct, LiveVariant, ValidValue
  <2> QED
    BY <1>1, <2>1 DEF CatalogueIInv
<1> QED
  BY <1>2, <1>3

(* A call that reads. *)
LEMMA AskKeepsWhole ==
    ASSUME CatalogueIInv, NEW m \in Clerks, NEW q \in Clerk, NamesItsRows(q), Ask(m, q)
    PROVE  CatalogueIInv'
<1>1. clerk' \in [Clerks -> Clerk] /\ \A n \in Clerks : NamesItsRows(clerk'[n])
  BY ClerkTurns DEF CatalogueIInv, Ask
<1> QED
  BY <1>1, RowsStayWhole DEF Ask

(* A call that is refused. *)
LEMMA RefuseKeepsWhole ==
    ASSUME CatalogueIInv, NEW m \in Clerks, Refuse(m)
    PROVE  CatalogueIInv'
<1>1. clerk' \in [Clerks -> Clerk] /\ \A n \in Clerks : NamesItsRows(clerk'[n])
  BY ClerkTurns, NoClerkTyped DEF CatalogueIInv, Refuse
<1> QED
  BY <1>1, RowsStayWhole DEF Refuse

(* What a call finds at its write.                                         *)
LEMMA AtTheWrite ==
    ASSUME CatalogueIInv, NEW m \in Clerks, NEW ops, Finish(m, ops)
    PROVE  /\ clerk[m] \in Clerk /\ NamesItsRows(clerk[m]) /\ clerk[m].op \in ops
           /\ clerk' \in [Clerks -> Clerk] /\ \A n \in Clerks : NamesItsRows(clerk'[n])
           /\ late' \in BOOLEAN
           /\ ~ late' => ~ late /\ Reasons(clerk[m])
<1>1. clerk \in [Clerks -> Clerk] /\ late \in BOOLEAN
  BY DEF CatalogueIInv, CatalogueRows, CatalogueTypeOK
<1>2. clerk' = [clerk EXCEPT ![m] = NoClerk]
  BY DEF Finish
<1>3. clerk' \in [Clerks -> Clerk] /\ \A n \in Clerks : NamesItsRows(clerk'[n])
  BY <1>2, ClerkTurns, NoClerkTyped DEF CatalogueIInv
<1>4. late' \in BOOLEAN /\ (~ late' => ~ late /\ Reasons(clerk[m])) /\ clerk[m].op \in ops
  BY <1>1 DEF Finish
<1> QED
  BY <1>1, <1>3, <1>4 DEF CatalogueIInv, CatalogueRows

------------------------------------------------------------------------------
(* The row of a product is written, and the product is live. *)
LEMMA ProductWritten ==
    ASSUME CatalogueIInv, NEW p \in Products, NEW row \in ProductRow, WriteProduct(p, row),
           UNCHANGED <<variant, attrValue, stocked>>,
           clerk' \in [Clerks -> Clerk], \A m \in Clerks : NamesItsRows(clerk'[m]),
           late' \in BOOLEAN,
           ~ late' => /\ ~ late /\ row.life = "live"
                      /\ row.type = "SIMPLE" /\ row.status = "ACTIVE" => row.sku
                      /\ p \in archived => row.status = "ARCHIVED"
    PROVE  CatalogueIInv'
<1>1. /\ product \in [Products -> ProductRow]
      /\ product' = [product EXCEPT ![p] = row]
      /\ archived' = (IF row.status = "ARCHIVED" THEN archived \cup {p} ELSE archived)
      /\ archived \subseteq Products
  BY DEF CatalogueIInv, CatalogueRows, CatalogueTypeOK, WriteProduct
<1>2. /\ product' \in [Products -> ProductRow]
      /\ \A q \in Products : product'[q] = IF q = p THEN row ELSE product[q]
      /\ archived' \subseteq Products
  BY <1>1
<1>3. CatalogueRows'
  BY <1>2 DEF CatalogueIInv, CatalogueRows, CatalogueTypeOK
<1>4. ASSUME ~ late'
      PROVE  StockIsOfLiveRows' /\ VariantsStand' /\ SaleHasASku' /\ ArchivedForGood'
  <2>1. ~ late /\ \A q : LiveProduct(q) => LiveProduct(q)'
    BY <1>2, <1>4 DEF LiveProduct
  <2>2. StockIsOfLiveRows /\ VariantsStand /\ SaleHasASku /\ ArchivedForGood
    BY <2>1 DEF CatalogueIInv
  <2>3. StockIsOfLiveRows'
    BY <2>1, <2>2 DEF StockIsOfLiveRows, LiveVariant
  <2>4. VariantsStand'
    BY <2>1, <2>2 DEF VariantsStand, ValidValue
  <2>5. SaleHasASku'
    BY <1>2, <1>4, <2>2 DEF SaleHasASku
  <2>6. ArchivedForGood'
    <3>1. ASSUME NEW q \in archived'
          PROVE  product'[q].status = "ARCHIVED" /\ product'[q].life # "none"
      <4>1. q \in Products /\ (q \in archived \/ (q = p /\ row.status = "ARCHIVED"))
        BY <1>1, <1>2, <3>1
      <4> QED
        BY <1>2, <1>4, <2>2, <4>1 DEF ArchivedForGood
    <3> QED
      BY <3>1 DEF ArchivedForGood
  <2> QED
    BY <2>3, <2>4, <2>5, <2>6
<1> QED
  BY <1>3, <1>4 DEF CatalogueIInv

(* A product is created. *)
LEMMA CreateKeepsWhole ==
    ASSUME CatalogueIInv, ~ late, NEW p \in Products, Create(p) \/ Duplicate(p)
    PROVE  CatalogueIInv'
<1>1. PICK row \in ProductRow :
         /\ CreateProduct(p, row) /\ row.life = "live"
         /\ row.type = "SIMPLE" /\ row.status = "ACTIVE" => row.sku
  <2>1. ASSUME NEW type \in {"SIMPLE", "VARIABLE"}, NEW status \in Statuses
        PROVE  [life |-> "live", type |-> type, status |-> status, sku |-> type = "SIMPLE"]
                 \in ProductRow
    BY <2>1, CatalogueAssumption DEF ProductRow, Life
  <2>2. ASSUME NEW type \in {"SIMPLE", "VARIABLE"}
        PROVE  [life |-> "live", type |-> type, status |-> "DRAFT", sku |-> FALSE] \in ProductRow
    BY <2>2 DEF ProductRow, Life
  <2>3. CASE Create(p)
    BY <2>1, <2>3 DEF Create
  <2>4. CASE Duplicate(p)
    BY <2>2, <2>4 DEF Duplicate
  <2> QED
    BY <2>3, <2>4
<1>2. p \notin archived
  BY <1>1 DEF CatalogueIInv, ArchivedForGood, CreateProduct
<1>3. /\ WriteProduct(p, row) /\ UNCHANGED <<variant, attrValue, stocked>>
      /\ clerk' = clerk /\ late' = late
  BY <1>1 DEF CreateProduct
<1>4. clerk' \in [Clerks -> Clerk] /\ (\A m \in Clerks : NamesItsRows(clerk'[m])) /\ late' \in BOOLEAN
  BY <1>3 DEF CatalogueIInv, CatalogueRows, CatalogueTypeOK
<1> QED
  BY <1>1, <1>2, <1>3, <1>4, ProductWritten

(* Its SKU or its status is written. *)
LEMMA UpdateKeepsWhole ==
    ASSUME CatalogueIInv, NEW m \in Clerks, UpdateProduct(m) \/ UpdateStatus(m)
    PROVE  CatalogueIInv'
<1> DEFINE q == clerk[m]
           p == q.product
           old == product[p]
<1>1. PICK ops \in SUBSET {"update", "status"} : Finish(m, ops)
  BY DEF UpdateProduct, UpdateStatus
<1>2. /\ q \in Clerk /\ NamesItsRows(q) /\ q.op \in {"update", "status"}
      /\ clerk' \in [Clerks -> Clerk] /\ (\A n \in Clerks : NamesItsRows(clerk'[n]))
      /\ late' \in BOOLEAN
      /\ ~ late' => ~ late /\ Reasons(q)
  BY <1>1, AtTheWrite
<1>3. /\ p \in Products /\ old \in ProductRow /\ q.row \in ProductRow
      /\ UNCHANGED <<variant, attrValue, stocked>>
  BY <1>2 DEF NamesItsRows, Clerk, CatalogueIInv, CatalogueRows, CatalogueTypeOK, UpdateProduct,
              UpdateStatus
<1>4. ~ late' => /\ SaleHasASku /\ ArchivedForGood
                 /\ q.op = "update" => CanUpdate(q)
                 /\ q.op = "status" => CanSetStatus(q)
  BY <1>2 DEF CatalogueIInv, Reasons
<1> HIDE DEF q, p, old
<1>5. CASE UpdateProduct(m)
  <2> DEFINE row == [old EXCEPT !.sku = q.row.sku]
  <2>1. /\ row \in ProductRow /\ row.life = old.life /\ row.type = old.type
        /\ row.status = old.status /\ row.sku = q.row.sku
    BY <1>3 DEF ProductRow
  <2>2. WriteProduct(p, row) /\ q.op = "update"
    BY <1>5 DEF UpdateProduct, Finish, q, p, old
  <2> HIDE DEF row
  <2>3. ASSUME ~ late'
        PROVE  /\ ~ late /\ row.life = "live"
               /\ row.type = "SIMPLE" /\ row.status = "ACTIVE" => row.sku
               /\ p \in archived => row.status = "ARCHIVED"
    <3>1. old.life = "live" /\ (row.sku = old.sku \/ row.sku)
      BY <1>4, <2>1, <2>2, <2>3 DEF CanUpdate, LiveProduct, p, old
    <3>2. old.type = "SIMPLE" /\ old.status = "ACTIVE" => old.sku
      BY <1>3, <1>4, <2>3 DEF SaleHasASku, old
    <3>3. p \in archived => old.status = "ARCHIVED"
      BY <1>4, <2>3 DEF ArchivedForGood, old
    <3> QED
      BY <1>2, <2>1, <2>3, <3>1, <3>2, <3>3, Zenon
  <2> QED
    BY <1>2, <1>3, <2>1, <2>2, <2>3, ProductWritten
<1>6. CASE UpdateStatus(m)
  <2> DEFINE row == [old EXCEPT !.status = q.row.status]
  <2>1. /\ row \in ProductRow /\ row.life = old.life /\ row.type = old.type
        /\ row.status = q.row.status /\ row.sku = old.sku
    BY <1>3 DEF ProductRow
  <2>2. WriteProduct(p, row) /\ q.op = "status"
    BY <1>6 DEF UpdateStatus, Finish, q, p, old
  <2> HIDE DEF row
  <2>3. ASSUME ~ late'
        PROVE  /\ ~ late /\ row.life = "live"
               /\ row.type = "SIMPLE" /\ row.status = "ACTIVE" => row.sku
               /\ p \in archived => row.status = "ARCHIVED"
    <3>1. /\ old.life = "live"
          /\ old.status = row.status \/ <<old.status, row.status>> \in Allowed
          /\ row.status = "ACTIVE" => CanActivate(p)
      BY <1>4, <2>1, <2>2, <2>3 DEF CanSetStatus, LiveProduct, p, old
    <3>2. row.type = "SIMPLE" /\ row.status = "ACTIVE" => row.sku
      BY <2>1, <3>1 DEF CanActivate, old
    <3>3. p \in archived => row.status = "ARCHIVED"
      <4>1. p \in archived => old.status = "ARCHIVED"
        BY <1>4, <2>3 DEF ArchivedForGood, old
      <4> QED
        BY <3>1, <4>1 DEF Allowed
    <3> QED
      BY <1>2, <2>1, <2>3, <3>1, <3>2, <3>3, Zenon
  <2> QED
    BY <1>2, <1>3, <2>1, <2>2, <2>3, ProductWritten
<1> QED
  BY <1>5, <1>6

(* A removal has found the variants of its product. *)
LEMMA RemoveVariantsKeepsWhole ==
    ASSUME CatalogueIInv, NEW m \in Clerks, RemoveVariants(m)
    PROVE  CatalogueIInv'
<1> DEFINE found == LiveVariants(clerk[m].product)
           q == [clerk[m] EXCEPT !.op = "delete", !.locked = found]
<1>1. clerk \in [Clerks -> Clerk] /\ NamesItsRows(clerk[m]) /\ clerk[m].op = "remove"
  BY DEF CatalogueIInv, CatalogueRows, CatalogueTypeOK, RemoveVariants
<1>2. found \in SUBSET Variants
  BY DEF LiveVariants
<1>3. clerk[m] \in Clerk
  BY <1>1
<1> HIDE DEF found
<1>4. q \in Clerk /\ q.op = "delete" /\ q.product = clerk[m].product
  BY <1>2, <1>3 DEF Clerk
<1>5. NamesItsRows(q)
  BY <1>1, <1>4 DEF NamesItsRows
<1>6. clerk' = [clerk EXCEPT ![m] = q]
  BY <1>1 DEF RemoveVariants, found
<1> HIDE DEF q
<1>7. clerk' \in [Clerks -> Clerk] /\ \A n \in Clerks : NamesItsRows(clerk'[n])
  BY <1>4, <1>5, <1>6, ClerkTurns DEF CatalogueIInv
<1> QED
  BY <1>7, RowsStayWhole DEF RemoveVariants

(* A product goes with its variants, when it has no stock. *)
LEMMA RemoveProductKeepsWhole ==
    ASSUME CatalogueIInv, NEW m \in Clerks, RemoveProduct(m)
    PROVE  CatalogueIInv'
<1> DEFINE q == clerk[m]
           p == q.product
           row == [product[p] EXCEPT !.life = "deleted", !.status = "ARCHIVED"]
<1>1. /\ q \in Clerk /\ NamesItsRows(q) /\ q.op = "delete"
      /\ clerk' \in [Clerks -> Clerk] /\ (\A n \in Clerks : NamesItsRows(clerk'[n]))
      /\ late' \in BOOLEAN
      /\ ~ late' => ~ late /\ Reasons(q)
  <2>1. Finish(m, {"delete"})
    BY DEF RemoveProduct
  <2> QED
    BY <2>1, AtTheWrite
<1>2. /\ p \in Products /\ product \in [Products -> ProductRow] /\ archived \subseteq Products
      /\ variant \in [Variants -> VariantRow]
  BY <1>1 DEF NamesItsRows, CatalogueIInv, CatalogueRows, CatalogueTypeOK
<1>3. row \in ProductRow /\ row.life = "deleted" /\ row.status = "ARCHIVED"
  <2>1. product[p] \in ProductRow
    BY <1>2
  <2> QED
    BY <2>1 DEF ProductRow, Life
<1>4. /\ product' = [product EXCEPT ![p] = row] /\ UNCHANGED <<attrValue, stocked>>
      /\ archived' = archived \cup {p}
  BY <1>3 DEF RemoveProduct, WriteProduct
<1> HIDE DEF row
<1>5. /\ product' \in [Products -> ProductRow]
      /\ \A o \in Products : product'[o] = IF o = p THEN row ELSE product[o]
  BY <1>2, <1>3, <1>4
<1>6. /\ variant' \in [Variants -> VariantRow]
      /\ \A v \in Variants : /\ variant'[v].product = variant[v].product
                             /\ variant'[v].key = variant[v].key
                             /\ variant'[v].value = variant[v].value
                             /\ v \notin q.locked => variant'[v] = variant[v]
                             /\ v \in q.locked => variant'[v].life = "deleted"
  <2>1. \A v \in Variants : variant'[v] = IF v \in q.locked THEN [variant[v] EXCEPT !.life = "deleted"]
                                          ELSE variant[v]
    BY DEF RemoveProduct
  <2>2. variant' = [v \in Variants |-> variant'[v]]
    BY DEF RemoveProduct
  <2>3. \A v \in Variants : /\ [variant[v] EXCEPT !.life = "deleted"] \in VariantRow
                            /\ variant[v] \in VariantRow
    BY <1>2 DEF VariantRow, Life
  <2>4. \A v \in Variants : variant'[v] \in VariantRow
    BY <2>1, <2>3
  <2>5. variant' \in [Variants -> VariantRow]
    BY <2>2, <2>4
  <2> QED
    BY <2>1, <2>3, <2>5 DEF VariantRow
<1>7. CatalogueRows'
  BY <1>1, <1>2, <1>4, <1>5, <1>6 DEF CatalogueIInv, CatalogueRows, CatalogueTypeOK
<1>8. ASSUME ~ late'
      PROVE  StockIsOfLiveRows' /\ VariantsStand' /\ SaleHasASku' /\ ArchivedForGood'
  <2>1. /\ StockIsOfLiveRows /\ VariantsStand /\ SaleHasASku /\ ArchivedForGood
        /\ \A i \in stocked : i[1] # p
        /\ q.locked = LiveVariants(p)
    BY <1>1, <1>8 DEF CatalogueIInv, Reasons, CanDelete, CanRemove
  <2>2. \A o : o # p /\ LiveProduct(o) => LiveProduct(o)'
    BY <1>5 DEF LiveProduct
  <2>3. StockIsOfLiveRows'
    <3>1. \A o, v : o # p /\ LiveVariant(o, v) => LiveVariant(o, v)'
      BY <1>6, <2>1 DEF LiveVariant, LiveVariants
    <3> QED
      BY <1>4, <2>1, <2>2, <3>1 DEF StockIsOfLiveRows
  <2>4. VariantsStand'
    <3>1. ASSUME NEW v \in Variants, variant'[v].life = "live"
          PROVE  variant'[v] = variant[v] /\ variant[v].life = "live" /\ variant[v].product # p
      BY <1>6, <2>1, <3>1 DEF LiveVariant, LiveVariants
    <3> QED
      BY <1>4, <2>1, <2>2, <3>1 DEF VariantsStand, ValidValue
  <2>5. SaleHasASku'
    BY <1>3, <1>5, <2>1 DEF SaleHasASku
  <2>6. ArchivedForGood'
    BY <1>2, <1>3, <1>4, <1>5, <2>1 DEF ArchivedForGood
  <2> QED
    BY <2>3, <2>4, <2>5, <2>6
<1> QED
  BY <1>7, <1>8 DEF CatalogueIInv

------------------------------------------------------------------------------
(* Variants are written, and products, stock and attribute values stay.    *)
LEMMA VariantsWritten ==
    ASSUME CatalogueIInv, variant' \in [Variants -> VariantRow],
           UNCHANGED <<product, attrValue, stocked, archived>>,
           clerk' \in [Clerks -> Clerk], \A m \in Clerks : NamesItsRows(clerk'[m]),
           late' \in BOOLEAN, ~ late' => ~ late,
           \A i \in stocked, v \in Variants : ~ late' /\ i[2] = v /\ LiveVariant(i[1], v)
                                                => LiveVariant(i[1], v)',
           \A v \in Variants : ~ late' /\ variant'[v].life = "live" =>
              \/ variant[v].life = "live" /\ variant'[v] = variant[v]
              \/ /\ variant'[v].value \in Values
                 /\ LiveProduct(variant'[v].product) /\ ValidValue(variant'[v].value)
                 /\ variant'[v].key = variant'[v].value
    PROVE  CatalogueIInv'
<1>1. CatalogueRows'
  BY DEF CatalogueIInv, CatalogueRows, CatalogueTypeOK
<1>2. /\ \A p : LiveProduct(p)' <=> LiveProduct(p)
      /\ \A x : ValidValue(x)' <=> ValidValue(x)
  BY DEF LiveProduct, ValidValue
<1>3. ASSUME ~ late'
      PROVE  StockIsOfLiveRows' /\ VariantsStand' /\ SaleHasASku' /\ ArchivedForGood'
  <2>1. StockIsOfLiveRows /\ VariantsStand /\ SaleHasASku /\ ArchivedForGood
    BY <1>3 DEF CatalogueIInv
  <2>2. StockIsOfLiveRows'
    <3>1. \A i \in stocked : i[2] # NoVariant => LiveVariant(i[1], i[2])'
      BY <1>3, <2>1 DEF StockIsOfLiveRows, LiveVariant
    <3> QED
      BY <1>2, <2>1, <3>1 DEF StockIsOfLiveRows
  <2>3. VariantsStand'
    BY <1>2, <1>3, <2>1 DEF VariantsStand
  <2>4. SaleHasASku' /\ ArchivedForGood'
    BY <2>1 DEF SaleHasASku, ArchivedForGood
  <2> QED
    BY <2>1, <2>2, <2>3, <2>4
<1> QED
  BY <1>1, <1>3 DEF CatalogueIInv

(* Variants are made of values that are valid, for a product that is live. *)
LEMMA InsertKeepsWhole ==
    ASSUME CatalogueIInv, NEW m \in Clerks, InsertVariants(m)
    PROVE  CatalogueIInv'
<1> DEFINE q == clerk[m]
<1>1. /\ q \in Clerk /\ NamesItsRows(q) /\ q.op \in {"addVariant", "generate"}
      /\ clerk' \in [Clerks -> Clerk] /\ (\A n \in Clerks : NamesItsRows(clerk'[n]))
      /\ late' \in BOOLEAN
      /\ ~ late' => ~ late /\ Reasons(q)
  <2>1. Finish(m, {"addVariant", "generate"})
    BY DEF InsertVariants
  <2> QED
    BY <2>1, AtTheWrite
<1>2. /\ q.product \in Products /\ q.values \in SUBSET Values
      /\ variant \in [Variants -> VariantRow]
      /\ UNCHANGED <<product, attrValue, stocked, archived>>
  BY <1>1 DEF NamesItsRows, Clerk, CatalogueIInv, CatalogueRows, CatalogueTypeOK, InsertVariants
<1>3. PICK V \in SUBSET {v \in Variants : variant[v].life = "none"} :
         \E x \in [V -> q.values] :
            variant' = [v \in Variants |->
                          IF v \in V THEN [life |-> "live", product |-> q.product,
                                           key |-> x[v], value |-> x[v]]
                          ELSE variant[v]]
  BY DEF InsertVariants
<1> PICK x \in [V -> q.values] :
       variant' = [v \in Variants |->
                     IF v \in V THEN [life |-> "live", product |-> q.product,
                                      key |-> x[v], value |-> x[v]]
                     ELSE variant[v]]
  BY <1>3
<1>4. ~ late' => LiveProduct(q.product) /\ \A y \in q.values : ValidValue(y)
  BY <1>1 DEF Reasons, CanAddVariant, CanGenerate
<1> HIDE DEF q
<1>5. ASSUME NEW v \in V
      PROVE  /\ [life |-> "live", product |-> q.product, key |-> x[v], value |-> x[v]] \in VariantRow
             /\ x[v] \in q.values
  BY <1>2, <1>5 DEF VariantRow, Life
<1>6. variant' \in [Variants -> VariantRow]
  BY <1>2, <1>5
<1>7. \A v \in Variants :
         /\ v \notin V => variant'[v] = variant[v]
         /\ v \in V => /\ variant[v].life = "none" /\ variant'[v].product = q.product
                       /\ variant'[v].key = x[v] /\ variant'[v].value = x[v]
  OBVIOUS
<1>8. \A p, v : LiveVariant(p, v) => LiveVariant(p, v)'
  BY <1>7 DEF LiveVariant
<1>9. \A v \in Variants : ~ late' /\ variant'[v].life = "live" =>
         \/ variant[v].life = "live" /\ variant'[v] = variant[v]
         \/ /\ variant'[v].value \in Values
            /\ LiveProduct(variant'[v].product) /\ ValidValue(variant'[v].value)
            /\ variant'[v].key = variant'[v].value
  BY <1>2, <1>4, <1>5, <1>7
<1> QED
  BY <1>1, <1>2, <1>6, <1>8, <1>9, VariantsWritten

(* A variant is edited, or made of another value. *)
LEMMA ChangeKeepsWhole ==
    ASSUME CatalogueIInv, NEW m \in Clerks, ChangeVariant(m)
    PROVE  CatalogueIInv'
<1> DEFINE q == clerk[m]
           w == q.variant
<1>1. /\ q \in Clerk /\ NamesItsRows(q) /\ q.op \in {"editVariant", "changeVariant"}
      /\ clerk' \in [Clerks -> Clerk] /\ (\A n \in Clerks : NamesItsRows(clerk'[n]))
      /\ late' \in BOOLEAN
      /\ ~ late' => ~ late /\ Reasons(q)
  <2>1. Finish(m, {"editVariant", "changeVariant"})
    BY DEF ChangeVariant
  <2> QED
    BY <2>1, AtTheWrite
<1>2. /\ w \in Variants /\ q.values \in SUBSET Values
      /\ variant \in [Variants -> VariantRow] /\ variant[w] \in VariantRow
      /\ UNCHANGED <<product, attrValue, stocked, archived>>
  BY <1>1 DEF NamesItsRows, Clerk, CatalogueIInv, CatalogueRows, CatalogueTypeOK, ChangeVariant
<1>3. PICK x \in q.values :
         variant' = [variant EXCEPT ![w].key = x,
                                    ![w].value = IF q.op = "changeVariant" THEN x ELSE @]
  BY DEF ChangeVariant
<1>4. /\ variant' \in [Variants -> VariantRow]
      /\ \A v \in Variants : v # w => variant'[v] = variant[v]
      /\ variant'[w].life = variant[w].life /\ variant'[w].product = variant[w].product
      /\ variant'[w].key = x
      /\ variant'[w].value = IF q.op = "changeVariant" THEN x ELSE variant[w].value
  <2> DEFINE y == IF q.op = "changeVariant" THEN x ELSE variant[w].value
             row == [variant[w] EXCEPT !.key = x, !.value = y]
  <2>1. x \in Values /\ y \in Values \cup {NoValue}
    BY <1>2 DEF VariantRow
  <2>2. variant' = [variant EXCEPT ![w] = row]
    BY <1>2, <1>3 DEF VariantRow
  <2> HIDE DEF y
  <2>3. /\ row \in VariantRow /\ row.life = variant[w].life /\ row.product = variant[w].product
        /\ row.key = x /\ row.value = y
    BY <1>2, <2>1 DEF VariantRow
  <2> HIDE DEF row
  <2>4. variant' \in [Variants -> VariantRow] /\ variant'[w] = row
        /\ \A v \in Variants : v # w => variant'[v] = variant[v]
    BY <1>2, <2>2, <2>3
  <2> QED
    BY <2>3, <2>4 DEF y
<1>5. ~ late' => /\ LiveProduct(q.product) /\ LiveVariant(q.product, w)
                 /\ q.op = "changeVariant" => ValidValue(x)
                 /\ q.op = "editVariant" => x = variant[w].key
  BY <1>1, <1>3 DEF Reasons, CanChangeVariant, CanEditVariant
<1>6. ~ late' => VariantsStand
  BY <1>1 DEF CatalogueIInv
<1> HIDE DEF q, w
<1>7. \A p, v : LiveVariant(p, v) => LiveVariant(p, v)'
  BY <1>4 DEF LiveVariant
<1>8. ASSUME NEW v \in Variants, ~ late', variant'[v].life = "live"
      PROVE  \/ variant[v].life = "live" /\ variant'[v] = variant[v]
             \/ /\ variant'[v].value \in Values
                /\ LiveProduct(variant'[v].product) /\ ValidValue(variant'[v].value)
                /\ variant'[v].key = variant'[v].value
  <2>1. CASE v # w
    BY <1>4, <1>8, <2>1
  <2>2. CASE v = w /\ q.op = "changeVariant"
    BY <1>2, <1>4, <1>5, <1>8, <2>2 DEF LiveVariant
  <2>3. CASE v = w /\ q.op # "changeVariant"
    <3>1. q.op = "editVariant"
      BY <1>1, <2>3 DEF q
    <3>2. x = variant[w].value /\ ValidValue(x) /\ x \in Values
      BY <1>4, <1>5, <1>6, <1>8, <2>3, <3>1 DEF VariantsStand
    <3> QED
      BY <1>4, <1>5, <1>8, <2>3, <3>2 DEF LiveVariant
  <2> QED
    BY <2>1, <2>2, <2>3
<1> QED
  BY <1>1, <1>2, <1>4, <1>7, <1>8, VariantsWritten

(* A variant goes, when it has no stock. *)
LEMMA RemoveVariantKeepsWhole ==
    ASSUME CatalogueIInv, NEW m \in Clerks, RemoveVariant(m)
    PROVE  CatalogueIInv'
<1> DEFINE q == clerk[m]
           w == q.variant
<1>1. /\ q \in Clerk /\ NamesItsRows(q) /\ q.op = "removeVariant"
      /\ clerk' \in [Clerks -> Clerk] /\ (\A n \in Clerks : NamesItsRows(clerk'[n]))
      /\ late' \in BOOLEAN
      /\ ~ late' => ~ late /\ Reasons(q)
  <2>1. Finish(m, {"removeVariant"})
    BY DEF RemoveVariant
  <2> QED
    BY <2>1, AtTheWrite
<1>2. /\ w \in Variants /\ variant \in [Variants -> VariantRow]
      /\ UNCHANGED <<product, attrValue, stocked, archived>>
  BY <1>1 DEF NamesItsRows, Clerk, CatalogueIInv, CatalogueRows, CatalogueTypeOK, RemoveVariant
<1>3. /\ variant' \in [Variants -> VariantRow]
      /\ \A v \in Variants : v # w => variant'[v] = variant[v]
      /\ variant'[w].life = "deleted"
  <2>1. [variant[w] EXCEPT !.life = "deleted"] \in VariantRow
        /\ variant' = [variant EXCEPT ![w] = [variant[w] EXCEPT !.life = "deleted"]]
    BY <1>2 DEF VariantRow, Life, RemoveVariant
  <2> QED
    BY <1>2, <2>1 DEF VariantRow
<1>4. ~ late' => \A i \in stocked : i[2] # w
  BY <1>1 DEF Reasons, CanRemoveVariant
<1> HIDE DEF w
<1>5. \A i \in stocked, v \in Variants : ~ late' /\ i[2] = v /\ LiveVariant(i[1], v)
                                           => LiveVariant(i[1], v)'
  BY <1>3, <1>4 DEF LiveVariant
<1>6. \A v \in Variants : variant'[v].life = "live" =>
         variant[v].life = "live" /\ variant'[v] = variant[v]
  BY <1>3
<1> QED
  BY <1>1, <1>2, <1>3, <1>5, <1>6, VariantsWritten

(* A value goes, when no variant is made of it. *)
LEMMA RemoveValueKeepsWhole ==
    ASSUME CatalogueIInv, NEW m \in Clerks, RemoveValue(m)
    PROVE  CatalogueIInv'
<1> DEFINE q == clerk[m]
<1>1. /\ q \in Clerk /\ NamesItsRows(q) /\ q.op = "removeValue"
      /\ clerk' \in [Clerks -> Clerk] /\ (\A n \in Clerks : NamesItsRows(clerk'[n]))
      /\ late' \in BOOLEAN
      /\ ~ late' => ~ late /\ Reasons(q)
  <2>1. Finish(m, {"removeValue"})
    BY DEF RemoveValue
  <2> QED
    BY <2>1, AtTheWrite
<1>2. /\ attrValue \in [Values -> Life] /\ q.values \in SUBSET Values
      /\ attrValue' = [x \in Values |-> IF x \in q.values THEN "deleted" ELSE attrValue[x]]
      /\ UNCHANGED <<product, variant, stocked, archived>>
  BY <1>1 DEF Clerk, CatalogueIInv, CatalogueRows, CatalogueTypeOK, RemoveValue
<1>3. attrValue' \in [Values -> Life]
  BY <1>2 DEF Life
<1>4. CatalogueRows'
  BY <1>1, <1>2, <1>3 DEF CatalogueIInv, CatalogueRows, CatalogueTypeOK
<1>5. ASSUME ~ late'
      PROVE  StockIsOfLiveRows' /\ VariantsStand' /\ SaleHasASku' /\ ArchivedForGood'
  <2>1. /\ StockIsOfLiveRows /\ VariantsStand /\ SaleHasASku /\ ArchivedForGood
        /\ \A x \in q.values : UsersOf(x) = {}
    BY <1>1, <1>5 DEF CatalogueIInv, Reasons, CanRemoveValue
  <2>2. StockIsOfLiveRows' /\ SaleHasASku' /\ ArchivedForGood'
    BY <1>2, <2>1 DEF StockIsOfLiveRows, SaleHasASku, ArchivedForGood, LiveProduct, LiveVariant
  <2>3. ASSUME NEW v \in Variants, variant[v].life = "live"
        PROVE  ValidValue(variant[v].value)'
    <3>1. variant[v].value \notin q.values
      BY <2>1, <2>3 DEF UsersOf
    <3>2. variant[v].value \in Values /\ ValidValue(variant[v].value)
      BY <2>1, <2>3 DEF VariantsStand
    <3> QED
      BY <1>2, <3>1, <3>2 DEF ValidValue
  <2>4. VariantsStand'
    BY <1>2, <2>1, <2>3 DEF VariantsStand, LiveProduct
  <2> QED
    BY <2>2, <2>4
<1> QED
  BY <1>4, <1>5 DEF CatalogueIInv

(* A product or a variant gets its stock. *)
LEMMA InitializeKeepsWhole ==
    ASSUME CatalogueIInv, NEW m \in Clerks, InitializeItem(m)
    PROVE  CatalogueIInv'
<1> DEFINE q == clerk[m]
           i == <<q.product, q.variant>>
<1>1. /\ q \in Clerk /\ NamesItsRows(q) /\ q.op = "initialize"
      /\ clerk' \in [Clerks -> Clerk] /\ (\A n \in Clerks : NamesItsRows(clerk'[n]))
      /\ late' \in BOOLEAN
      /\ ~ late' => ~ late /\ Reasons(q)
  <2>1. Finish(m, {"initialize"})
    BY DEF InitializeItem
  <2> QED
    BY <2>1, AtTheWrite
<1>2. /\ i \in Products \X (Variants \cup {NoVariant})
      /\ stocked' = stocked \cup {i} /\ UNCHANGED <<product, variant, attrValue, archived>>
  BY <1>1 DEF NamesItsRows, Clerk, InitializeItem
<1>3. CatalogueRows'
  BY <1>1, <1>2 DEF CatalogueIInv, CatalogueRows, CatalogueTypeOK
<1>4. ASSUME ~ late'
      PROVE  StockIsOfLiveRows' /\ VariantsStand' /\ SaleHasASku' /\ ArchivedForGood'
  <2>1. /\ StockIsOfLiveRows /\ VariantsStand /\ SaleHasASku /\ ArchivedForGood
        /\ LiveProduct(q.product)
        /\ q.variant # NoVariant => LiveVariant(q.product, q.variant)
    BY <1>1, <1>4 DEF CatalogueIInv, Reasons, CanInitialize
  <2>2. StockIsOfLiveRows'
    BY <1>2, <2>1 DEF StockIsOfLiveRows, LiveProduct, LiveVariant
  <2>3. VariantsStand' /\ SaleHasASku' /\ ArchivedForGood'
    BY <1>2, <2>1 DEF VariantsStand, SaleHasASku, ArchivedForGood, LiveProduct, ValidValue
  <2> QED
    BY <2>2, <2>3
<1> QED
  BY <1>3, <1>4 DEF CatalogueIInv

(* No product at first, and every value there is. *)
LEMMA CatalogueInitIInv == CatalogueInit => CatalogueIInv
<1> SUFFICES ASSUME CatalogueInit PROVE CatalogueIInv
  OBVIOUS
<1>1. /\ product \in [Products -> ProductRow] /\ clerk \in [Clerks -> Clerk]
      /\ \A m \in Clerks : NamesItsRows(clerk[m])
  BY NoClerkTyped DEF CatalogueInit
<1>2. variant \in [Variants -> VariantRow] /\ attrValue \in [Values -> Life]
  BY DEF CatalogueInit, VariantRow, Life
<1>3. CatalogueRows
  BY <1>1, <1>2 DEF CatalogueInit, CatalogueRows, CatalogueTypeOK
<1>4. StockIsOfLiveRows /\ VariantsStand /\ SaleHasASku /\ ArchivedForGood
  BY DEF CatalogueInit, NewRow, StockIsOfLiveRows, VariantsStand, SaleHasASku, ArchivedForGood
<1> QED
  BY <1>3, <1>4 DEF CatalogueIInv

(* The calls that begin. *)
LEMMA BeginsKeepWhole ==
    ASSUME CatalogueIInv, NEW m \in Clerks, NEW p \in Products,
           \/ BeginUpdateProduct(m, p) \/ BeginStatus(m, p) \/ BeginRemoveProduct(m, p)
           \/ \E x \in Values : BeginAddVariant(m, p, x)
           \/ \E v \in Variants : BeginRemoveVariant(m, p, v)
           \/ \E v \in Variants, x \in Values : BeginChangeVariant(m, p, v, x)
           \/ \E axis \in SUBSET Values : BeginGenerate(m, p, axis)
           \/ \E v \in Variants \cup {NoVariant} : BeginInitialize(m, p, v)
    PROVE  CatalogueIInv'
<1> DEFINE Ops == {"update", "status", "remove", "addVariant", "generate", "initialize"}
           OnOne == {"editVariant", "changeVariant", "removeVariant"}
<1>1. ASSUME NEW op \in Ops, NEW v \in Variants \cup {NoVariant}, NEW X \in SUBSET Values,
             NEW row \in ProductRow
      PROVE  On(op, p, v, X, row) \in Clerk /\ NamesItsRows(On(op, p, v, X, row))
  BY <1>1 DEF On, Clerk, NamesItsRows
<1>2. ASSUME NEW op \in OnOne, NEW v \in Variants, NEW X \in SUBSET Values
      PROVE  On(op, p, v, X, NewRow) \in Clerk /\ NamesItsRows(On(op, p, v, X, NewRow))
  BY <1>2, NoClerkTyped DEF On, Clerk, NamesItsRows
<1>3. CASE BeginUpdateProduct(m, p)
  <2>1. PICK sku \in {TRUE, product[p].sku} :
           Ask(m, On("update", p, NoVariant, {}, [NewRow EXCEPT !.sku = sku]))
    BY <1>3 DEF BeginUpdateProduct
  <2>2. sku \in BOOLEAN
    BY DEF CatalogueIInv, CatalogueRows, CatalogueTypeOK, ProductRow
  <2>3. [NewRow EXCEPT !.sku = sku] \in ProductRow
    BY <2>2, NoClerkTyped DEF ProductRow
  <2> QED
    BY <1>1, <2>1, <2>3, AskKeepsWhole
<1>4. CASE BeginStatus(m, p)
  <2>1. PICK status \in Statuses :
           Ask(m, On("status", p, NoVariant, {}, [NewRow EXCEPT !.status = status]))
    BY <1>4 DEF BeginStatus
  <2>2. [NewRow EXCEPT !.status = status] \in ProductRow
    BY NoClerkTyped, CatalogueAssumption DEF ProductRow
  <2> QED
    BY <1>1, <2>1, <2>2, AskKeepsWhole
<1>5. CASE BeginRemoveProduct(m, p)
  BY <1>1, <1>5, NoClerkTyped, AskKeepsWhole DEF BeginRemoveProduct
<1>6. CASE \E x \in Values : BeginAddVariant(m, p, x)
  BY <1>1, <1>6, NoClerkTyped, AskKeepsWhole DEF BeginAddVariant
<1>7. CASE \E v \in Variants : BeginRemoveVariant(m, p, v)
  BY <1>2, <1>7, NoClerkTyped, AskKeepsWhole DEF BeginRemoveVariant
<1>8. CASE \E v \in Variants, x \in Values : BeginChangeVariant(m, p, v, x)
  <2>1. PICK v \in Variants, x \in Values, op \in OnOne : Ask(m, On(op, p, v, {x}, NewRow))
    BY <1>8 DEF BeginChangeVariant
  <2> QED
    BY <1>2, <2>1, AskKeepsWhole
<1>9. CASE \E axis \in SUBSET Values : BeginGenerate(m, p, axis)
  <2>1. PICK X \in SUBSET Values : Ask(m, On("generate", p, NoVariant, X, NewRow))
    <3>1. PICK axis \in SUBSET Values : BeginGenerate(m, p, axis)
      BY <1>9
    <3>2. {x \in axis : \A v \in With(p, x) : variant[v].life = "deleted"} \in SUBSET Values
      OBVIOUS
    <3> QED
      BY <3>1, <3>2 DEF BeginGenerate
  <2> QED
    BY <1>1, <2>1, NoClerkTyped, AskKeepsWhole
<1>10. CASE \E v \in Variants \cup {NoVariant} : BeginInitialize(m, p, v)
  BY <1>1, <1>10, NoClerkTyped, AskKeepsWhole DEF BeginInitialize
<1> QED
  BY <1>3, <1>4, <1>5, <1>6, <1>7, <1>8, <1>9, <1>10

(* Every step of the catalogue. *)
LEMMA CatalogueNextIInv == CatalogueIInv /\ [CatalogueNext]_catalogueVars => CatalogueIInv'
<1> SUFFICES ASSUME CatalogueIInv, [CatalogueNext]_catalogueVars PROVE CatalogueIInv'
  OBVIOUS
<1>1. ASSUME CatalogueNext PROVE CatalogueIInv'
  <2>1. ASSUME NEW p \in Products, Create(p) \/ Duplicate(p) PROVE CatalogueIInv'
    BY <1>1, <2>1, CreateKeepsWhole DEF CatalogueNext
  <2>2. ASSUME NEW m \in Clerks, NEW x \in Values, BeginRemoveValue(m, x) PROVE CatalogueIInv'
    <3>1. /\ On("removeValue", NoProduct, NoVariant, {x}, NewRow) \in Clerk
          /\ NamesItsRows(On("removeValue", NoProduct, NoVariant, {x}, NewRow))
      BY NoClerkTyped DEF On, Clerk, NamesItsRows
    <3> QED
      BY <2>2, <3>1, AskKeepsWhole DEF BeginRemoveValue
  <2>3. ASSUME NEW m \in Clerks,
               \/ UpdateProduct(m) \/ UpdateStatus(m)
               \/ RemoveVariants(m) \/ RemoveProduct(m)
               \/ InsertVariants(m) \/ ChangeVariant(m) \/ RemoveVariant(m)
               \/ RemoveValue(m) \/ InitializeItem(m)
               \/ Refuse(m)
        PROVE  CatalogueIInv'
    BY <2>3, UpdateKeepsWhole, RemoveVariantsKeepsWhole, RemoveProductKeepsWhole,
       InsertKeepsWhole, ChangeKeepsWhole, RemoveVariantKeepsWhole, RemoveValueKeepsWhole, InitializeKeepsWhole, RefuseKeepsWhole
  <2> QED
    BY <1>1, <2>1, <2>2, <2>3, BeginsKeepWhole DEF CatalogueNext
<1>2. CASE UNCHANGED catalogueVars
  <2>1. clerk' \in [Clerks -> Clerk] /\ \A m \in Clerks : NamesItsRows(clerk'[m])
    BY <1>2 DEF catalogueVars, CatalogueIInv, CatalogueRows, CatalogueTypeOK
  <2> QED
    BY <1>2, <2>1, RowsStayWhole DEF catalogueVars
<1> QED
  BY <1>1, <1>2

(* Soft deletes leave nothing dangling, for any products, variants, values *)
(* and calls in flight: until a call writes after its reasons are gone, no *)
(* stock and no variant is left without its product, and what was archived *)
(* stays so.                                                               *)
THEOREM CatalogueStaysWhole == CatalogueSpec => []CatalogueIsWhole
<1>1. CatalogueIInv => CatalogueIsWhole
  BY DEF CatalogueIInv, CatalogueIsWhole, StockIsOfLiveRows, VariantsStand, SaleHasASku,
         ArchivedForGood
<1> QED
  BY <1>1, CatalogueInitIInv, CatalogueNextIInv, PTL DEF CatalogueSpec
=============================================================================
