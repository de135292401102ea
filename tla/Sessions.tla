------------------------------ MODULE Sessions ------------------------------
(***************************************************************************)
(* The session of the admin application: AuthService issues, rotates and   *)
(* revokes refresh tokens; api-client.ts keeps one in localStorage, which  *)
(* the tabs of a browser share, and renews it when a request is refused.   *)
(*                                                                         *)
(* Simplifications: one user, who is active; access tokens expire at any   *)
(* time, refresh tokens do not (30 days).                                  *)
(***************************************************************************)
EXTENDS Integers, FiniteSets

CONSTANTS
    Tokens,     \* refresh tokens, by their hash
    Tabs,
    Refreshes,  \* calls of refreshTokens() in flight
    NoToken, NoTab

ASSUME SessionAssumption == NoToken \notin Tokens /\ NoTab \notin Tabs

VARIABLES
    token,     \* RefreshToken rows
    stored,    \* what is in localStorage
    shared,    \* refreshInFlight of each tab
    refresh,   \* the calls in flight
    excused    \* history: a second tab was used, an answer was lost, or a sign-out met a refresh

sessionVars == <<token, stored, shared, refresh, excused>>

(* "revoked" has revokedAt only, "rotated" replacedBy as well. *)
TokenState == {"none", "live", "rotated", "revoked"}

Refresh == [op  : {"idle", "read", "issue", "rotate", "answer", "refused"},
            tab : Tabs \cup {NoTab},
            old : Tokens \cup {NoToken},
            new : Tokens \cup {NoToken}]

SessionTypeOK ==
    /\ token \in [Tokens -> TokenState]
    /\ stored \in Tokens \cup {NoToken}
    /\ shared \in [Tabs -> {"none", "pending", "failed"}]
    /\ refresh \in [Refreshes -> Refresh]
    /\ excused \in BOOLEAN

------------------------------------------------------------------------------
NoRefresh == [op |-> "idle", tab |-> NoTab, old |-> NoToken, new |-> NoToken]

SessionInit ==
    /\ token = [k \in Tokens |-> "none"]
    /\ stored = NoToken
    /\ shared = [b \in Tabs |-> "none"]
    /\ refresh = [c \in Refreshes |-> NoRefresh]
    /\ excused = FALSE

RefreshAt(c, op) == refresh[c].op = op
RefreshBecomes(c, x) == refresh' = [refresh EXCEPT ![c] = x]
Unissued(k) == token[k] = "none" /\ \A c \in Refreshes : refresh[c].new # k
Underway == {c \in Refreshes : ~ RefreshAt(c, "idle")}

(* Every token of the user that is not revoked yet. *)
RevokedAll == [k \in Tokens |-> IF token[k] = "live" THEN "revoked" ELSE token[k]]

------------------------------------------------------------------------------
(* login(), of the service and of the client. *)
SignIn(k) ==
    /\ stored = NoToken /\ Unissued(k)
    /\ token' = [token EXCEPT ![k] = "live"]
    /\ stored' = k
    /\ excused' = (excused \/ Underway # {})
    /\ UNCHANGED <<shared, refresh>>

(* logout(): the client forgets the token first. *)
SignOut ==
    /\ stored # NoToken
    /\ stored' = NoToken
    /\ token' = [token EXCEPT ![stored] = IF @ = "live" THEN "revoked" ELSE @]
    /\ excused' = (excused \/ Underway # {})
    /\ UNCHANGED <<shared, refresh>>

(* Fault: each refused request refreshes for itself. *)
ShareNot(b) == shared[b] # "failed"

(* refreshInFlight ?? refreshTokens(): a refused request joins the refresh *)
(* of its tab, or starts one if the tab has none.                          *)
Share(b) == shared[b] = "none"

StartRefresh(c, b) ==
    /\ RefreshAt(c, "idle") /\ Share(b) /\ stored # NoToken
    /\ shared' = [shared EXCEPT ![b] = "pending"]
    /\ RefreshBecomes(c, [op |-> "read", tab |-> b, old |-> stored, new |-> NoToken])
    /\ excused' = (excused \/ \E d \in Underway : refresh[d].tab # b)
    /\ UNCHANGED <<token, stored>>

(* refresh(): the row is read and judged.  One that was rotated before     *)
(* ends every session of the user.                                         *)
ReadToken(c) ==
    LET k == refresh[c].old IN
    /\ RefreshAt(c, "read")
    /\ token' = IF token[k] = "rotated" THEN RevokedAll ELSE token
    /\ RefreshBecomes(c, [refresh[c] EXCEPT !.op = IF token[k] = "live" THEN "issue" ELSE "refused"])
    /\ UNCHANGED <<stored, shared, excused>>

IssueToken(c, k) ==
    /\ RefreshAt(c, "issue") /\ Unissued(k)
    /\ token' = [token EXCEPT ![k] = "live"]
    /\ RefreshBecomes(c, [op |-> "rotate", tab |-> refresh[c].tab, old |-> refresh[c].old, new |-> k])
    /\ UNCHANGED <<stored, shared, excused>>

(* The old row is updated whatever it says by now. *)
RotateToken(c) ==
    /\ RefreshAt(c, "rotate")
    /\ token' = [token EXCEPT ![refresh[c].old] = "rotated"]
    /\ RefreshBecomes(c, [refresh[c] EXCEPT !.op = "answer"])
    /\ UNCHANGED <<stored, shared, excused>>

(* The answer reaches the tab, which stores it or forgets its session; all *)
(* that waited for it go on.                                               *)
TakeAnswer(c) ==
    /\ RefreshAt(c, "answer") \/ RefreshAt(c, "refused")
    /\ stored' = IF RefreshAt(c, "answer") THEN refresh[c].new ELSE NoToken
    /\ shared' = [shared EXCEPT ![refresh[c].tab] = "none"]
    /\ RefreshBecomes(c, NoRefresh)
    /\ UNCHANGED <<token, excused>>

(* An error in the service is a refusal to the client as well. *)
FailRefresh(c) ==
    /\ refresh[c].op \in {"read", "issue", "rotate"}
    /\ RefreshBecomes(c, [refresh[c] EXCEPT !.op = "refused"])
    /\ excused' = TRUE
    /\ UNCHANGED <<token, stored, shared>>

(* The call fails on its way, whatever the service has made of it.  The    *)
(* promise that the tab shares is rejected, and stays where it is.         *)
LoseAnswer(c) ==
    /\ ~ RefreshAt(c, "idle")
    /\ shared' = [shared EXCEPT ![refresh[c].tab] = "failed"]
    /\ RefreshBecomes(c, NoRefresh)
    /\ excused' = TRUE
    /\ UNCHANGED <<token, stored>>

Reload(b) ==
    /\ shared[b] = "failed"
    /\ shared' = [shared EXCEPT ![b] = "none"]
    /\ UNCHANGED <<token, stored, refresh, excused>>

(* logoutAll() and resetPassword(), from elsewhere. *)
RevokeAll ==
    /\ \E k \in Tokens : token[k] = "live"
    /\ token' = RevokedAll
    /\ excused' = TRUE
    /\ UNCHANGED <<stored, shared, refresh>>

SessionNext ==
    \/ \E k \in Tokens : SignIn(k)
    \/ SignOut
    \/ \E c \in Refreshes :
          \/ \E b \in Tabs : StartRefresh(c, b)
          \/ ReadToken(c) \/ RotateToken(c) \/ TakeAnswer(c)
          \/ FailRefresh(c) \/ LoseAnswer(c)
          \/ \E k \in Tokens : IssueToken(c, k)
    \/ \E b \in Tabs : Reload(b)
    \/ RevokeAll

SessionSpec == SessionInit /\ [][SessionNext]_sessionVars

------------------------------------------------------------------------------
(* A client that is signed in stays so: however many of its requests are   *)
(* refused at once, the token it holds is accepted, or the refresh that has*)
(* just replaced it is about to answer.  Excused are two tabs that refresh *)
(* together, a lost answer, a sign-out next to a refresh and one from      *)
(* elsewhere.                                                              *)
StaysSignedIn ==
    (~ excused /\ stored # NoToken) =>
        \/ token[stored] = "live"
        \/ \E c \in Underway : /\ RefreshAt(c, "answer") /\ refresh[c].old = stored
                               /\ token[refresh[c].new] = "live"
==============================================================================
