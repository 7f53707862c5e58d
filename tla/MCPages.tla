---------------------------- MODULE MCPages ----------------------------
(***************************************************************************)
(* Three parts of the apps that share no state, in one run: the chat, the  *)
(* page that makes a booking, and the accounts.  A behaviour is about one  *)
(* of them; the two others stay at one of their initial states.            *)
(*                                                                         *)
(* The chat's room changes while no history is on its way, which does not  *)
(* look at it.  The customer's app, which has the pages of the             *)
(* transporter's and one more way to sign in, makes fewer requests than    *)
(* the two other apps and is the only one to start with a pending account; *)
(* the third request about a transporter is an admin's or the scheduler's. *)
(***************************************************************************)
EXTENDS MCChat, NewBooking, Accounts

VARIABLE part

pagesVars == <<part, chatVars, newBookingVars, accountVars>>

FewRequests == 2    \* bound

\* Only a request of the admins or the scheduler changes adm.
MCRequests ==
    CASE app = "customer"    -> requests' <= FewRequests
      [] app = "transporter" -> requests' # requests /\ adm' = adm => requests' <= FewRequests
      [] OTHER               -> TRUE

PagesInit ==
    /\ part \in {"chat", "new", "accounts"}
    /\ IF part = "chat" THEN OneGone ELSE ChatStart({})
    /\ NewBookingInit /\ (part # "new" => geo = "done")
    /\ AccountsInit /\ (part # "accounts" => app = "customer")
    /\ row.status = "active" \/ (part = "accounts" /\ app = "customer")

ChatPart ==
    /\ ChatNext
    /\ room' # room => \A u \in Clients : hist[u] = {}

PagesNext ==
    /\ part' = part
    /\ \/ part = "chat" /\ ChatPart /\ UNCHANGED <<newBookingVars, accountVars>>
       \/ part = "new" /\ NewBookingNext /\ UNCHANGED <<chatVars, accountVars>>
       \/ part = "accounts" /\ AccountsNext /\ MCRequests /\ UNCHANGED <<chatVars, newBookingVars>>

PagesSpec == PagesInit /\ [][PagesNext]_pagesVars
=============================================================================
