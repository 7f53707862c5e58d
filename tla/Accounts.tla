----------------------------- MODULE Accounts -----------------------------
(***************************************************************************)
(* One account: its row in users, its revocation in Redis, the app its     *)
(* owner uses (pages login, forgot-password, profile, profile/password and *)
(* kyc), the admins (pages users, admin-management, kyc and the ban queue) *)
(* and the scheduler's automatic suspensions, over internal/user,          *)
(* internal/middleware, internal/admin, internal/kyc, internal/report and  *)
(* internal/scheduler.                                                     *)
(*                                                                         *)
(* The owner's requests read the row and later Save all its columns; the   *)
(* others update single columns by id and then write Redis, or do not.     *)
(***************************************************************************)
EXTENDS Naturals

CONSTANTS
    Apps,      \* the apps a run is about
    Admins,    \* the admins at work, "super" for the SUPER_ADMIN
    MaxRequests   \* bound: requests of the owner and the admins, and
                  \* automatic suspensions

ASSUME AccountsAssumption ==
    /\ Apps \subseteq {"customer", "transporter", "admin"}
    /\ "scheduler" \notin Admins
    /\ MaxRequests \in Nat

VARIABLES
    app,       \* the owner's app
    row,       \* the row of the account
    member,    \* the account is in the set revoked:users
    key,       \* revoked:user:<id>: none, or set for a day or for longer
    claim,     \* the role in the app's access token, none when signed out
    screen,    \* which of its pages the app shows
    store,     \* name and photo in the app's authStore
    req,       \* req[k]: the owner's request of kind k
    heard,     \* requests the document will hear the answer of
    adm,       \* adm[a]: the request of admin a, or the scheduler's suspension
    crossed,   \* history: two requests overlapped, or an answer was lost
    loose,     \* history: a suspension's revocation was undone, or it ended
    requests   \* made so far

redisVars == <<member, key>>
appVars == <<app, claim, screen, store, heard>>
accountVars == <<appVars, redisVars, row, req, adm, crossed, loose, requests>>

Values == {0, 1}      \* 1 is what the owner enters
\* PENDING_KYC and KYC_REVIEW are one status here: pending.
Statuses == {"pending", "active", "suspended", "banned"}
Rows == [status : Statuses, role : {"member", "admin"},
         name : Values, photo : Values]

\* What the owner may ask for, and the column that a request replaces with
\* what he entered (the password's is left out).
Column == [profile |-> "name", picture |-> "photo"]
Kinds == DOMAIN Column \cup {"password", "reset", "login", "kyc"}
SignedIn == Kinds \ {"reset", "login"}      \* routes behind JWTAuth
Revoking == {"password", "reset"}

Deciders == Admins \cup {"scheduler"}
Operations ==
    {"disable", "permanent", "enable", "promote", "demote", "remove", "ban", "verify", "suspend"}
Suspensions == {"disable", "suspend"}          \* both write SUSPENDED
Revocations == Suspensions \cup {"permanent"}  \* and these write Redis after it
Portal == IF app = "admin" THEN "admin" ELSE "member"

\* An admin's account is made active, the others wait for their KYC.
FirstStatuses == IF app = "admin" THEN {"active"} ELSE {"pending", "active"}
FirstRow == [status |-> "active", role |-> Portal, name |-> 0, photo |-> 0]
Known == [name |-> row.name, photo |-> row.photo]
NoUser == [name |-> 0, photo |-> 0]
Quiet == [at |-> "idle", seen |-> FirstRow]
AtRest == [at |-> "idle", op |-> "none"]

Busy == {k \in Kinds : req[k].at # "idle"}
Out == member /\ key # "none"      \* JWTAuth lets nobody in
AtWork(op) == \E a \in Deciders : adm[a].op = op /\ adm[a].at \notin {"idle", "done"}

AccountsTypeOK ==
    /\ app \in Apps /\ row \in Rows
    /\ member \in BOOLEAN /\ key \in {"none", "day", "long"}
    /\ claim \in {"none", "member", "admin"}
    /\ screen \in {"app", "login", "code", "forgot", "reset", "done"}
    /\ (screen = "app") = (claim # "none")
    /\ store \in [name : Values, photo : Values]
    /\ \A k \in Kinds :
          /\ req[k].at \in {"idle", "sent", "listed", "lapsed", "in", "read",
                          "saved", "added", "yes", "no"}
          /\ req[k].seen \in Rows
    /\ heard \subseteq Kinds
    /\ \A a \in Deciders : adm[a].at \in {"idle", "sent", "read", "wrote", "flagged", "done"}
    /\ crossed \in BOOLEAN /\ loose \in BOOLEAN
    /\ requests \in 0 .. MaxRequests

AccountsInit ==
    /\ app \in Apps
    /\ \E s \in FirstStatuses : row = [FirstRow EXCEPT !.status = s]
    /\ member = FALSE /\ key = "none"
    /\ claim = Portal /\ screen = "app"
    /\ store = Known
    /\ req = [k \in Kinds |-> Quiet] /\ heard = {}
    /\ adm = [a \in Deciders |-> AtRest]
    /\ crossed = FALSE /\ loose = FALSE
    /\ requests = 0

----------------------------------------------------------------------------
(* The app.  Every form disables its button while its request is under     *)
(* way.  (The file input of the picture dialog does not, and the three     *)
(* ways to a picture have a request each: here there is one at a time.)    *)

Ask(k) ==
    /\ req[k].at = "idle" /\ requests < MaxRequests
    /\ req' = [req EXCEPT ![k].at = IF k \in SignedIn THEN "sent" ELSE "in"]
    /\ heard' = heard \cup {k}
    /\ crossed' = (crossed \/ Busy # {})
    /\ requests' = requests + 1
    /\ UNCHANGED <<app, claim, screen, store, row, redisVars, adm, loose>>

Show(s) ==
    /\ screen' = s
    /\ UNCHANGED <<app, claim, store, heard, redisVars, row, req, adm,
                   crossed, loose, requests>>

\* The profile page.  Its form and its picture dialog may be opened at any
\* time; the dialog sends a file, a link or an avatar.
CustomerForm == app = "customer" /\ screen = "app" /\ Ask("profile")
TransporterForm == app = "transporter" /\ screen = "app" /\ Ask("profile")
AdminForm == app = "admin" /\ screen = "app" /\ Ask("profile")

CustomerDialog == app = "customer" /\ screen = "app" /\ Ask("picture")
TransporterDialog == app = "transporter" /\ screen = "app" /\ Ask("picture")
AdminDialog == app = "admin" /\ screen = "app" /\ Ask("picture")

\* A new password is asked for on a page, in the admin app in a dialog.
CustomerPassword == app = "customer" /\ screen = "app" /\ Ask("password")
TransporterPassword == app = "transporter" /\ screen = "app" /\ Ask("password")
AdminPassword == app = "admin" /\ screen = "app" /\ Ask("password")

\* The pages kyc of the two apps that have one.
CustomerKyc == app = "customer" /\ screen = "app" /\ Ask("kyc")
TransporterKyc == app = "transporter" /\ screen = "app" /\ Ask("kyc")

\* The login pages.  Only the customer's offers a code by mail.
CustomerLogin ==
    /\ app = "customer"
    /\ \/ screen \in {"login", "code"} /\ (Ask("login") \/ Show("forgot"))
       \/ screen = "login" /\ Show("code")
       \/ screen = "code" /\ Show("login")

TransporterLogin ==
    /\ app = "transporter" /\ screen = "login"
    /\ Ask("login") \/ Show("forgot")

AdminLogin ==
    /\ app = "admin" /\ screen = "login"
    /\ Ask("login")

\* The pages forgot-password: a mail with a code, a new password, done.
CustomerForgot ==
    /\ app = "customer"
    /\ \/ screen = "forgot" /\ Show("reset")
       \/ screen = "reset" /\ (Ask("reset") \/ Show("forgot"))
       \/ screen \in {"forgot", "reset", "done"} /\ Show("login")

TransporterForgot ==
    /\ app = "transporter"
    /\ \/ screen = "forgot" /\ Show("reset")
       \/ screen = "reset" /\ (Ask("reset") \/ Show("forgot"))
       \/ screen \in {"forgot", "reset", "done"} /\ Show("login")

\* logout(): the document ends and hears nothing any more.
SignOut ==
    /\ claim # "none"
    /\ claim' = "none" /\ screen' = "login"
    /\ store' = NoUser
    /\ heard' = {}
    /\ crossed' = (crossed \/ Busy # {})
    /\ UNCHANGED <<app, redisVars, row, req, adm, loose, requests>>

\* The layout of each app lets in who is signed in, and has the button that
\* signs out around every page.
CustomerLayout == app = "customer" /\ SignOut
TransporterLayout == app = "transporter" /\ SignOut
AdminLayout == app = "admin" /\ SignOut

----------------------------------------------------------------------------
(* The service: JWTAuth, and the handlers of internal/user and             *)
(* internal/kyc.                                                           *)

\* JWTAuth looks at the set, and for a member of it at the key.
Authorize(k) ==
    /\ req[k].at = "sent"
    /\ req' = [req EXCEPT ![k].at = IF member THEN "listed" ELSE "in"]
    /\ UNCHANGED <<appVars, redisVars, row, adm, crossed, loose, requests>>

\* An entry without a key is one whose key has lapsed.  Refused requests end
\* in a logout.
CheckKey(k) ==
    /\ req[k].at = "listed"
    /\ req' = [req EXCEPT ![k].at = IF key = "none" THEN "lapsed" ELSE "no"]
    /\ UNCHANGED <<appVars, redisVars, row, adm, crossed, loose, requests>>

\* JWTAuth's SRem of that entry.  A key written since is looked up no more.
CleanUp(k) ==
    /\ req[k].at = "lapsed"
    /\ req' = [req EXCEPT ![k].at = "in"]
    /\ member' = FALSE
    /\ loose' = (loose \/ key # "none"
                  \/ \E a \in Deciders : adm[a].op \in Suspensions /\ adm[a].at = "flagged")
    /\ UNCHANGED <<appVars, key, row, adm, crossed, requests>>

\* UpdateProfile and Login refuse the suspended and the banned, ResetPassword
\* the banned only; ChangePassword takes any.
Welcome(k) ==
    CASE k = "password" -> TRUE
      [] k = "reset"    -> row.status # "banned"
      [] OTHER          -> row.status \notin {"suspended", "banned"}

ReadRow(k) ==
    /\ req[k].at = "in" /\ k # "kyc"
    /\ \/ Welcome(k) /\ req' = [req EXCEPT ![k].at = "read", ![k].seen = row]
       \/ req' = [req EXCEPT ![k].at = "no"]      \* also: wrong password or code
    /\ UNCHANGED <<appVars, redisVars, row, adm, crossed, loose, requests>>

Copy(k) == IF k \in DOMAIN Column THEN [req[k].seen EXCEPT ![Column[k]] = 1]
           ELSE req[k].seen

\* repo.Update: all columns of the copy.
SaveRow(k) ==
    /\ req[k].at = "read"
    /\ row' = Copy(k)
    /\ req' = [req EXCEPT ![k] = IF k \in Revoking THEN [Quiet EXCEPT !.at = "saved"]
                                 ELSE [@ EXCEPT !.at = "yes"]]
    /\ loose' = (loose \/ (req[k].seen.status = "suspended" /\ row.status # "suspended"))
    /\ UNCHANGED <<appVars, redisVars, adm, crossed, requests>>

\* Submit writes the status by id, whatever it is, unless the account's KYC
\* is verified.
SubmitKyc ==
    /\ req["kyc"].at = "in"
    /\ \/ row' = [row EXCEPT !.status = "pending"]
       \/ row' = row
    /\ req' = [req EXCEPT !["kyc"].at = "yes"]
    /\ UNCHANGED <<appVars, redisVars, adm, crossed, loose, requests>>

\* revokeAllSessions, after a new password: SAdd, then Set for 24 hours.
RevokeAdds(k) ==
    /\ req[k].at = "saved"
    /\ member' = TRUE
    /\ req' = [req EXCEPT ![k].at = "added"]
    /\ UNCHANGED <<appVars, key, row, adm, crossed, loose, requests>>

RevokeSets(k) ==
    /\ req[k].at = "added"
    /\ key' = "day"
    /\ req' = [req EXCEPT ![k].at = "yes"]
    /\ UNCHANGED <<appVars, member, row, adm, crossed, loose, requests>>

KeyLapses ==
    /\ key # "none"
    /\ key' = "none"
    /\ loose' = (loose \/ row.status = "suspended")
    /\ UNCHANGED <<appVars, member, row, req, adm, crossed, requests>>

----------------------------------------------------------------------------
(* The answers.                                                            *)

NewProfile(k) == [name |-> Copy(k).name, photo |-> Copy(k).photo]

UpdateUserKeeps(k) ==   \* mutant: the answer is taken, the store keeps the old user
    UNCHANGED <<claim, screen, store>>

\* updateUser with the user in the answer.
UpdateUser(k) ==
    /\ store' = NewProfile(k)
    /\ UNCHANGED <<claim, screen>>

CustomerUpdated(k) == app = "customer" /\ UpdateUser(k)
TransporterUpdated(k) == app = "transporter" /\ UpdateUser(k)
AdminUpdated(k) == app = "admin" /\ UpdateUser(k)

\* Each portal takes its own role; the tokens of another are dropped.  A
\* page that was left meanwhile signs in all the same.
LoginAnswered ==
    IF req["login"].seen.role = Portal
    THEN claim' = Portal /\ screen' = "app" /\ store' = NewProfile("login")
    ELSE UNCHANGED <<claim, screen, store>>

Answered(k) ==
    /\ req[k].at = "yes" /\ k \in heard
    /\ CASE k \in {"profile", "picture"} ->
              CustomerUpdated(k) \/ TransporterUpdated(k) \/ AdminUpdated(k)
         [] k = "login" -> LoginAnswered
         [] k = "reset" /\ screen = "reset" ->
              screen' = "done" /\ UNCHANGED <<claim, store>>
         [] OTHER -> UNCHANGED <<claim, screen, store>>
    /\ req' = [req EXCEPT ![k] = Quiet] /\ heard' = heard \ {k}
    /\ UNCHANGED <<app, redisVars, row, adm, crossed, loose, requests>>

\* Refused, lost on the way back, or nobody is there to hear: a message at
\* most.
Unanswered(k) ==
    /\ req[k].at \in {"yes", "no"}
    /\ req' = [req EXCEPT ![k] = Quiet] /\ heard' = heard \ {k}
    /\ crossed' = (crossed \/ req[k].at = "yes")
    /\ UNCHANGED <<app, claim, screen, store, redisVars, row, adm,
                   loose, requests>>

----------------------------------------------------------------------------
(* The admins and the scheduler.                                           *)

Begin(a, at, op) ==
    /\ adm[a].at = "idle" /\ requests < MaxRequests
    /\ adm' = [adm EXCEPT ![a] = [at |-> at, op |-> op]]
    /\ requests' = requests + 1
    /\ loose' = \/ loose
                \/ op = "enable" /\ \E s \in Suspensions : AtWork(s)
                \/ op \in Suspensions /\ AtWork("enable")
    /\ UNCHANGED <<appVars, redisVars, row, req, crossed>>

\* A button of a page whose list shows the row of a while ago: the request
\* may arrive as late.  One request of an admin at a time.
Act(a, op) == a \in Admins /\ Begin(a, "sent", op)

\* The users page: 7d and 30d for ACTIVE and PENDING_KYC, Enable for the
\* others; and a drawer in which every admin may choose another role.
UserRow(a) ==
    \/ row.status \in {"active", "pending"} /\ Act(a, "disable")
    \/ row.status # "active" /\ Act(a, "enable")
UserDetailDrawer(a) == Act(a, IF row.role = "admin" THEN "demote" ELSE "promote")

\* The route takes a permanent ban too, which no page offers.
PermanentBan(a) == Act(a, "permanent")

\* The page admin-management is the SUPER_ADMIN's and lists the admins; the
\* removal is confirmed in a dialog.
AdminManagement(a) == a = "super"
RemovableAdmin(a) == AdminManagement(a) /\ row.role = "admin"
RemoveAdmin(a) == RemovableAdmin(a) /\ Act(a, "remove")

BanQueue(a) == Act(a, "ban")

\* The KYC desk.  A submission may be waiting whatever became of the account
\* (ReviewDesk has the submissions).
KycQueue(a) == app # "admin" /\ Act(a, "verify")

\* The rules of the scheduler look at the row and suspend the active, but
\* checkCancellationRates suspends a transporter whatever his status.
AutoSuspend ==
    /\ row.status = "active" \/ app = "transporter"
    /\ Begin("scheduler", "read", "suspend")

\* What the handlers check of the row they read, and of the admin's role.
Allowed(a, op) ==
    LET overAdmin == row.role = "admin" => a = "super" IN
    CASE op = "disable"   -> row.status \in {"active", "pending"} /\ overAdmin
      [] op = "permanent" -> row.status \in {"active", "pending"} /\ a = "super"
      [] op = "enable"    -> /\ row.status # "active" /\ overAdmin
                             /\ row.status = "banned" => a = "super"
      [] op = "promote"   -> a = "super" /\ row.role = "member"
      [] op \in {"demote", "remove"} -> a = "super" /\ row.role = "admin"
      [] op = "ban"       -> row.status # "banned" /\ row.role # "admin"
      [] op = "verify"    -> TRUE

AdminRead(a) ==
    /\ adm[a].at = "sent"
    /\ adm' = [adm EXCEPT ![a] = IF Allowed(a, @.op) THEN [@ EXCEPT !.at = "read"] ELSE AtRest]
    /\ UNCHANGED <<appVars, redisVars, row, req, crossed, loose, requests>>

\* Updates of the columns concerned, whatever the row is by now.
AdminWrite(a) ==
    /\ adm[a].at = "read"
    /\ row' = CASE adm[a].op \in Suspensions          -> [row EXCEPT !.status = "suspended"]
                [] adm[a].op \in {"permanent", "ban"} -> [row EXCEPT !.status = "banned"]
                [] adm[a].op \in {"enable", "verify"} -> [row EXCEPT !.status = "active"]
                [] adm[a].op = "promote"               -> [row EXCEPT !.role = "admin"]
                [] adm[a].op \in {"demote", "remove"}  -> [row EXCEPT !.role = "member"]
    /\ adm' = [adm EXCEPT ![a].at =
                 CASE adm[a].op \in Revocations \cup {"enable"} -> "wrote"
                   [] adm[a].op = "remove" -> "flagged"
                   [] OTHER -> "done"]
    /\ UNCHANGED <<appVars, redisVars, req, crossed, loose, requests>>

AdminFlagsNot(a) ==   \* mutant: the key is written, the set is not, as in DeleteAdmin
    /\ adm[a].at = "wrote"
    /\ adm' = [adm EXCEPT ![a].at = "flagged"]
    /\ UNCHANGED <<appVars, redisVars, row, req, crossed, loose, requests>>

\* The SAdd of DisableUser and suspendUser, and EnableUser's SRem.
AdminFlags(a) ==
    /\ adm[a].at = "wrote"
    /\ member' = (adm[a].op \in Revocations)
    /\ adm' = [adm EXCEPT ![a].at = "flagged"]
    /\ UNCHANGED <<appVars, key, row, req, crossed, loose, requests>>

\* Set for 30 or 365 days, or Del; DeleteAdmin sets the key for 24 hours.
AdminKeys(a) ==
    /\ adm[a].at = "flagged"
    /\ key' = CASE adm[a].op \in Revocations -> "long"
                [] adm[a].op = "enable" -> "none"
                [] adm[a].op = "remove" -> "day"
    /\ adm' = [adm EXCEPT ![a].at = "done"]
    /\ UNCHANGED <<appVars, member, row, req, crossed, loose, requests>>

AdminAnswered(a) ==
    /\ adm[a].at = "done"
    /\ adm' = [adm EXCEPT ![a] = AtRest]
    /\ UNCHANGED <<appVars, redisVars, row, req, crossed, loose, requests>>

----------------------------------------------------------------------------
Handler(k) ==
    \/ Authorize(k) \/ CheckKey(k) \/ CleanUp(k) \/ ReadRow(k) \/ SaveRow(k)
    \/ RevokeAdds(k) \/ RevokeSets(k) \/ Answered(k) \/ Unanswered(k)

AdminNext(a) ==
    \/ UserRow(a) \/ UserDetailDrawer(a) \/ PermanentBan(a) \/ RemoveAdmin(a)
    \/ BanQueue(a) \/ KycQueue(a)
    \/ AdminRead(a) \/ AdminWrite(a) \/ AdminFlags(a) \/ AdminKeys(a) \/ AdminAnswered(a)

AccountsNext ==
    \/ CustomerForm \/ TransporterForm \/ AdminForm
    \/ CustomerDialog \/ TransporterDialog \/ AdminDialog
    \/ CustomerPassword \/ TransporterPassword \/ AdminPassword
    \/ CustomerKyc \/ TransporterKyc \/ SubmitKyc
    \/ CustomerForgot \/ TransporterForgot
    \/ CustomerLogin \/ TransporterLogin \/ AdminLogin
    \/ CustomerLayout \/ TransporterLayout \/ AdminLayout
    \/ \E k \in Kinds : Handler(k)
    \/ \E a \in Deciders : AdminNext(a)
    \/ AutoSuspend \/ KeyLapses

AccountsSpec == AccountsInit /\ [][AccountsNext]_accountVars

----------------------------------------------------------------------------
(* Properties.                                                             *)

\* A suspended account is kept out by JWTAuth as soon as no suspension is
\* between its write of the row and its last write of Redis, though the
\* handlers, the scheduler, saves, password revocations and JWTAuth's own
\* clean-up interleave (admin/service.go:101-111, scheduler.go:372-376) - unless
\* its revocation has run out, an Enable overlapped with a suspension, a
\* request saved SUSPENDED again, or JWTAuth was just removing an older entry
\* (middleware/auth.go:85).
OutWhenSuspended ==
    row.status = "suspended" /\ ~loose
      /\ ~(\E a \in Deciders : adm[a].op \in Suspensions /\ adm[a].at \in {"wrote", "flagged"})
    => Out

\* "Check if user account is revoked (suspended/banned)"
\* (middleware/auth.go:69): with no decision under way, a suspended account
\* whose key is set is in the set that JWTAuth asks first.  It fails when
\* JWTAuth looks between a suspension's SAdd and Set, takes the entry for a
\* lapsed one and removes it; and when an Enable overlaps with a suspension.
SuspendedIsListed ==
    row.status = "suspended" /\ key # "none" /\ (\A a \in Deciders : adm[a].at = "idle")
        => member

\* "Only SUPER_ADMIN can lift permanent bans" (admin/service.go:154).  It fails
\* because suspendUser (scheduler.go:366) and the approval of a KYC
\* (kyc/service.go:197) write the status by id, whatever it is.
BansAreLiftedBySuper ==
    [][row.status = "banned" /\ row'.status # "banned" =>
          "super" \in Admins /\ adm["super"].op = "enable" /\ adm["super"].at = "read"]_accountVars

\* The name and the picture an app shows are those of the row, as long as no
\* two requests of its user overlapped and no answer was lost: each answer is
\* a whole user, and replaces what a later one brought.
ProfileShowsRow ==
    screen = "app" /\ ~crossed /\ Busy = {} => store = Known

\* "This will revoke their admin access." (admin-management/page.tsx:189):
\* when the removal is answered, no token of the account passes as an admin's.
RemovedAdminIsOut ==
    \A a \in Admins :
        adm[a].at = "done" /\ adm[a].op = "remove" /\ row.role = "member"
            => ~(claim = "admin" /\ ~Out)
=============================================================================
