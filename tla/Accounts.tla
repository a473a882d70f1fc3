------------------------------ MODULE Accounts ------------------------------
(***************************************************************************)
(* One account and its password (apps/users, and what the dashboard does   *)
(* to it): sign-in, reset links, password changes, and the PATCH of        *)
(* users/me or of an administrator, which saves every column of the row as *)
(* it was read.                                                            *)
(*                                                                         *)
(* A password is represented by its salted hash, which is new every time.  *)
(* A link carries what Django's token is made from: the hash and the last  *)
(* sign-in.  The token itself and the JWTs are external.                   *)
(***************************************************************************)
EXTENDS Naturals

CONSTANTS
  Visitor,            \* the requests that can be open at the same time
  MaxHash,            \* bound: passwords set
  MaxLogin            \* bound: sign-ins

ASSUME AccountsAssumption == MaxHash \in Nat /\ MaxLogin \in Nat

VARIABLES
  user,               \* the User row
  links,              \* the reset links that were mailed
  visit,              \* per visitor: the open request, or Away
  hashes,             \* the passwords set so far
  resets,             \* history: per hash, how many links for it were accepted
  muddled,            \* history: two of them were confirmed at the same time
  undone              \* history: a PATCH put an older password back

accountVars == <<user, links, visit, hashes, resets, muddled, undone>>

Hash == 0..MaxHash
(* active: neither suspended nor deleted; Administration tells the two apart. *)
User == [hash : Hash, login : 0..MaxLogin, active : BOOLEAN]
ResetLink == [hash : Hash, login : 0..MaxLogin]
Away == [op |-> "away"]
Visit ==
  [op : {"confirm", "change"}, hash : Hash] \cup
  [op : {"me"}, row : User]

AccountsTypeOK ==
  /\ user \in User
  /\ links \subseteq ResetLink
  /\ visit \in [Visitor -> Visit \cup {Away}]
  /\ hashes \in Hash
  /\ resets \in [Hash -> Nat]
  /\ muddled \in BOOLEAN /\ undone \in BOOLEAN

(* A student who has registered. *)
AccountsInit ==
  /\ user = [hash |-> 0, login |-> 0, active |-> TRUE]
  /\ links = {}
  /\ visit = [v \in Visitor |-> Away]
  /\ hashes = 0
  /\ resets = [h \in Hash |-> 0]
  /\ muddled = FALSE /\ undone = FALSE

-----------------------------------------------------------------------------
Visiting(v, r) ==
  /\ visit[v] = Away
  /\ visit' = [visit EXCEPT ![v] = r]
  /\ UNCHANGED <<user, links, hashes, resets, undone>>
GoAway(v) == visit' = [visit EXCEPT ![v] = Away]

(* update_last_login: the one column. *)
SignIn ==
  /\ user.active
  /\ user.login < MaxLogin
  /\ user' = [user EXCEPT !.login = @ + 1]
  /\ UNCHANGED <<links, visit, hashes, resets, muddled, undone>>

(* PasswordResetRequestView: a link for the row as it is now. *)
RequestReset ==
  /\ user.active
  /\ links' = links \cup {[hash |-> user.hash, login |-> user.login]}
  /\ UNCHANGED <<user, visit, hashes, resets, muddled, undone>>

(* Mutant: the token does not depend on the password. *)
HonouredAnyway(k) == k \in links /\ user.login = k.login

(* check_token.  A link that is too old is refused: it is as one never used. *)
Honoured(k) == k \in links /\ user.hash = k.hash /\ user.login = k.login

(* PasswordResetConfirmView: the link is checked, ... *)
BeginConfirm(v, k) ==
  /\ user.active
  /\ Honoured(k)
  /\ Visiting(v, [op |-> "confirm", hash |-> k.hash])
  /\ muddled' = (muddled \/ \E w \in Visitor : visit[w].op = "confirm")

(* ChangePasswordView: by one who knows the password. *)
BeginChange(v) ==
  /\ user.active
  /\ Visiting(v, [op |-> "change", hash |-> user.hash])
  /\ UNCHANGED muddled

(* ... and the password column saved. *)
FinishPassword(v) ==
  /\ visit[v].op \in {"confirm", "change"}
  /\ hashes < MaxHash
  /\ hashes' = hashes + 1
  /\ user' = [user EXCEPT !.hash = hashes + 1]
  /\ resets' = IF visit[v].op = "confirm" THEN [resets EXCEPT ![visit[v].hash] = @ + 1] ELSE resets
  /\ GoAway(v)
  /\ UNCHANGED <<links, muddled, undone>>

(* UserMeView: PATCH of the name and the phone number, ... *)
BeginMe(v) ==
  /\ user.active
  /\ Visiting(v, [op |-> "me", row |-> user])
  /\ UNCHANGED muddled

(* ... or of the account by an administrator, is_active as given. *)
BeginManage(v, b) ==
  /\ Visiting(v, [op |-> "me", row |-> [user EXCEPT !.active = b]])
  /\ UNCHANGED muddled

(* save(): the password, the last sign-in and the suspension too. *)
FinishMe(v) ==
  /\ visit[v].op = "me"
  /\ user' = visit[v].row
  /\ undone' = (undone \/ user.hash # visit[v].row.hash)
  /\ GoAway(v)
  /\ UNCHANGED <<links, hashes, resets, muddled>>

LoseVisitor(v) ==
  /\ visit[v] # Away
  /\ GoAway(v)
  /\ UNCHANGED <<user, links, hashes, resets, muddled, undone>>

(* suspend, activate and delete by an administrator: their columns alone. *)
SetUserActive(b) ==
  /\ user' = [user EXCEPT !.active = b]
  /\ UNCHANGED <<links, visit, hashes, resets, muddled, undone>>

-----------------------------------------------------------------------------
VisitorStep(v) ==
  \/ \E k \in links : BeginConfirm(v, k)
  \/ BeginChange(v) \/ BeginMe(v) \/ (\E b \in BOOLEAN : BeginManage(v, b))
  \/ FinishPassword(v) \/ FinishMe(v) \/ LoseVisitor(v)

AccountsNext ==
  \/ SignIn \/ RequestReset
  \/ \E b \in BOOLEAN : SetUserActive(b)
  \/ \E v \in Visitor : VisitorStep(v)

AccountsSpec == AccountsInit /\ [][AccountsNext]_accountVars

-----------------------------------------------------------------------------
(* A forgotten password is reset once: of all the links mailed for it, through
   sign-ins and password changes in between, one at most is accepted, unless
   two were confirmed at the same time or a PATCH brought the password back. *)
OneResetPerPassword == \A h \in Hash : resets[h] <= 1 \/ muddled \/ undone
=============================================================================
