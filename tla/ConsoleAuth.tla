---------------------------- MODULE ConsoleAuth ----------------------------
(***************************************************************************)
(* Who the console takes its visitor for: lib/auth.tsx, lib/router.tsx,    *)
(* api/client.ts and the pages under pages/auth.  The browser's cookie is  *)
(* set and cleared by answers of the gateway; token, user, branding and    *)
(* isLoading are memory of the page and end with it.  Calls are answered   *)
(* in any order.                                                           *)
(***************************************************************************)
EXTENDS Integers, FiniteSets

CONSTANTS
  Accounts,  \* people who can sign in
  None,      \* no account
  Slots,     \* bound: calls of this module outstanding at a time
  MaxMoves,  \* bound: sign-ins, sign-outs, navigations and saves
  MaxFaults  \* bound: calls lost or refused, and changes of other tabs

ASSUME NoneAssumption == None \notin Accounts

VARIABLES
  cookie,    \* the account of the browser's session cookie
  token,     \* the account of the bearer token in memory
  user, branding, isLoading,
  path,      \* the route, by name
  form,      \* the form of the auth page on screen
  sent,      \* the outstanding calls
  mixed,     \* identity calls have overlapped since memory was last cleared
  out,       \* signed out with no identity call outstanding, nothing since
  moves, faults

memory == <<token, user, branding, isLoading>>
authVars == <<cookie, memory, path, form, sent, mixed, out, moves, faults>>

Public == {"landing", "login", "signup", "forgot"}
Tabs == {"overview", "analytics", "activity", "agents", "delegations",
         "sessions", "receipts", "verify", "projects", "apikeys", "settings"}
Home == "overview"

MeOps == {"me", "loginMe", "saveMe"}
IdentityOps == MeOps \cup {"login", "save"}
Ops == IdentityOps \cup {"logout", "idle"}
Persons == Accounts \cup {None}

(***************************************************************************)
(* An outstanding call: what it is for, whom the server takes its sender   *)
(* for, and whether the component that awaits it is still on screen.       *)
(***************************************************************************)
Call(op, who) == [op |-> op, who |-> who, here |-> TRUE]
Idle == [op |-> "idle", who |-> None, here |-> FALSE]
NoForm == [busy |-> FALSE, error |-> FALSE, sent |-> FALSE]

Outstanding(ops) == {s \in Slots : sent[s].op \in ops}

(***************************************************************************)
(* The server takes the bearer token first and the cookie without one.     *)
(***************************************************************************)
Acting == IF token # None THEN token ELSE cookie

(***************************************************************************)
(* App: a tab of the dashboard is on screen unless the splash screen is.   *)
(***************************************************************************)
TabOf(route, loading) == IF route \in Tabs /\ ~loading THEN route ELSE "none"
tab == TabOf(path, isLoading)

\* Wrong variant: a visitor is sent to a route the router does not know.
RequireAuthElsewhere(route, person, bearer, loading) ==
  IF TabOf(route, loading) # "none" /\ person = None /\ bearer = None
  THEN "signin" ELSE route

\* Wrong variant: the page that needs a visitor does not send one away.
RequireAuthNever(route, person, bearer, loading) == route

(***************************************************************************)
(* useRequireAuth, which every tab runs after every render.                *)
(***************************************************************************)
RequireAuth(route, person, bearer, loading) ==
  IF TabOf(route, loading) # "none" /\ person = None /\ bearer = None
  THEN "login" ELSE route

(***************************************************************************)
(* The route a step ends on, with the effects of rendering it: a page      *)
(* that was left loses its form, and its calls find nobody.                *)
(***************************************************************************)
Render(route, formNow, calls) ==
  LET stays == route = path /\ path' = path
  IN  /\ path' = RequireAuth(route, user', token', isLoading')
      /\ form' = IF stays THEN formNow ELSE NoForm
      /\ sent' = [s \in Slots |->
                    [calls[s] EXCEPT
                       !.here = @ /\ stays /\ (path \in Tabs => ~isLoading')]]

\* Wrong variant: the user stays in memory.
ForgetsNotUser ==
  token' = None /\ user' = user /\ branding' = None

(***************************************************************************)
(* What a failed refreshMe and logout() do to the memory, and what a good  *)
(* answer of /v1/auth/me does to it.                                       *)
(***************************************************************************)
Forget == token' = None /\ user' = None /\ branding' = None

\* Wrong variant: the branding of whoever was known before stays.
LearnUserOnly(who) == user' = who /\ UNCHANGED <<branding, token>>

Learn(who) == user' = who /\ branding' = who /\ UNCHANGED token

\* Wrong variant: the flag is lowered with the data, not in the finally.
LoadingAfterFailure(known) == isLoading /\ ~known

LoadingAfter(known) == FALSE

Move == moves < MaxMoves /\ moves' = moves + 1
Fault == faults < MaxFaults /\ faults' = faults + 1

(***************************************************************************)
(* The page is loaded: memory is empty and AuthProvider asks who this is.  *)
(***************************************************************************)
Loaded(s) == [x \in Slots |-> IF x = s THEN Call("me", cookie) ELSE Idle]

AuthInit ==
  /\ cookie \in Persons
  /\ token = None /\ user = None /\ branding = None /\ isLoading = TRUE
  /\ path \in Public \cup Tabs
  /\ form = NoForm
  /\ \E s \in Slots : sent = Loaded(s)
  /\ mixed = FALSE /\ out = FALSE
  /\ moves = 0 /\ faults = 0

Reload(s) ==
  /\ Move
  /\ Forget /\ isLoading' = TRUE
  /\ form' = NoForm
  /\ sent' = Loaded(s)
  /\ mixed' = FALSE /\ out' = FALSE
  /\ UNCHANGED <<cookie, path, faults>>

(***************************************************************************)
(* refreshMe's answer.  Whatever fails, a 401 or the network, empties the  *)
(* memory.  After a sign-in the form goes to the dashboard either way:     *)
(* login() reports success before it knows who signed in.                  *)
(***************************************************************************)
MeAnswered(s, known) ==
  LET who == sent[s].who
  IN  /\ sent[s].op \in MeOps
      /\ known => who # None
      /\ IF known \/ who = None THEN UNCHANGED faults ELSE Fault
      /\ IF known THEN Learn(who) ELSE Forget
      /\ isLoading' = LoadingAfter(known)
      /\ Render(IF sent[s].op = "loginMe" THEN Home ELSE path,
                [form EXCEPT !.busy = @ /\ ~sent[s].here],
                [sent EXCEPT ![s] = Idle])
      /\ UNCHANGED <<cookie, mixed, out, moves>>

(***************************************************************************)
(* The forms.  Sign-in and sign-up send the same kind of call; the button  *)
(* of a form that is busy cannot be pressed.                               *)
(***************************************************************************)
OffersSubmit(pages) == path \in pages /\ ~form.busy /\ ~form.sent

Submit(s, who) ==
  /\ sent[s].op = "idle"
  /\ Move
  /\ form' = [form EXCEPT !.busy = TRUE, !.error = FALSE]
  /\ sent' = [sent EXCEPT ![s] = Call("login", who)]
  /\ mixed' = (mixed \/ Outstanding(IdentityOps \cup {"logout"}) # {})
  /\ out' = FALSE
  /\ UNCHANGED <<cookie, memory, path, faults>>

SubmitLogin(s, who) == OffersSubmit({"login"}) /\ Submit(s, who)

SubmitSignup(s, who) == OffersSubmit({"signup"}) /\ Submit(s, who)

\* Signup's own check of the password's length: no call is made.
SubmitShortPassword ==
  /\ OffersSubmit({"signup"}) /\ ~form.error
  /\ Move
  /\ form' = [form EXCEPT !.error = TRUE]
  /\ UNCHANGED <<cookie, memory, path, sent, mixed, out, faults>>

\* ForgotPassword: a timer, and no call at all.
SendReset ==
  /\ OffersSubmit({"forgot"})
  /\ Move
  /\ form' = [form EXCEPT !.busy = TRUE, !.error = FALSE]
  /\ UNCHANGED <<cookie, memory, path, sent, mixed, out, faults>>

ResetTimer ==
  /\ path = "forgot" /\ form.busy
  /\ form' = [form EXCEPT !.busy = FALSE, !.sent = TRUE]
  /\ UNCHANGED <<cookie, memory, path, sent, mixed, out, moves, faults>>

(***************************************************************************)
(* A good answer carries the cookie, the token and the user; then the      *)
(* profile is asked again with that token.                                 *)
(***************************************************************************)
LoginAnswered(s) ==
  LET who == sent[s].who
  IN  /\ sent[s].op = "login"
      /\ cookie' = who /\ token' = who /\ user' = who
      /\ isLoading' = TRUE
      /\ Render(path, form,
                [sent EXCEPT ![s] = [@ EXCEPT !.op = "loginMe"]])
      /\ UNCHANGED <<branding, mixed, out, moves, faults>>

LoginRefused(s) ==
  /\ sent[s].op = "login"
  /\ form' = IF sent[s].here THEN [form EXCEPT !.busy = FALSE, !.error = TRUE]
                             ELSE form
  /\ sent' = [sent EXCEPT ![s] = Idle]
  /\ UNCHANGED <<cookie, memory, path, mixed, out, moves, faults>>

(***************************************************************************)
(* Sign out, from the dashboard: logout() asks the gateway to clear the    *)
(* cookie, does not wait for it, and empties the memory.                   *)
(***************************************************************************)
SignOut(s) ==
  /\ tab # "none" /\ sent[s].op = "idle"
  /\ Move
  /\ Forget /\ UNCHANGED isLoading
  /\ Render("login", form, [sent EXCEPT ![s] = Call("logout", Acting)])
  /\ mixed' = (Outstanding(IdentityOps) # {})
  /\ out' = (Outstanding(IdentityOps) = {})
  /\ UNCHANGED <<cookie, faults>>

LogoutAnswered(s) ==
  /\ sent[s].op = "logout"
  /\ cookie' = None
  /\ sent' = [sent EXCEPT ![s] = Idle]
  /\ UNCHANGED <<memory, path, form, mixed, out, moves, faults>>

\* clearSessionCookie swallows the error: the cookie stays.
LogoutLost(s) ==
  /\ sent[s].op = "logout"
  /\ Fault
  /\ sent' = [sent EXCEPT ![s] = Idle]
  /\ UNCHANGED <<cookie, memory, path, form, mixed, out, moves>>

(***************************************************************************)
(* A link, a tab, the palette, or the browser's back button.               *)
(***************************************************************************)
Navigate(to) ==
  /\ to # path
  /\ Move
  /\ UNCHANGED memory
  /\ Render(to, form, sent)
  /\ UNCHANGED <<cookie, mixed, out, faults>>

\* Another tab of the browser signs in or out.
OtherTab(who) ==
  /\ who # cookie
  /\ Fault
  /\ cookie' = who
  /\ UNCHANGED <<memory, path, form, sent, mixed, out, moves>>

(***************************************************************************)
(* Settings' save(): a PATCH, and refreshMe after a good answer.           *)
(***************************************************************************)
saving == \E s \in Slots : sent[s].op \in {"save", "saveMe"} /\ sent[s].here

Save(s) ==
  /\ tab = "settings" /\ ~saving /\ sent[s].op = "idle"
  /\ Move
  /\ sent' = [sent EXCEPT ![s] = Call("save", Acting)]
  /\ mixed' = (mixed \/ Outstanding(IdentityOps) # {})
  /\ UNCHANGED <<cookie, memory, path, form, out, faults>>

SaveAnswered(s) ==
  /\ sent[s].op = "save" /\ sent[s].who # None
  /\ UNCHANGED <<token, user, branding>>
  /\ isLoading' = TRUE
  /\ Render(path, form, [sent EXCEPT ![s] = [@ EXCEPT !.op = "saveMe", !.who = Acting]])
  /\ UNCHANGED <<cookie, mixed, out, moves, faults>>

SaveRefused(s) ==
  /\ sent[s].op = "save"
  /\ sent' = [sent EXCEPT ![s] = Idle]
  /\ UNCHANGED <<cookie, memory, path, form, mixed, out, moves, faults>>

AuthNext ==
  \/ \E s \in Slots :
       \/ Reload(s) \/ SignOut(s) \/ Save(s)
       \/ LoginAnswered(s) \/ LoginRefused(s)
       \/ LogoutAnswered(s) \/ LogoutLost(s)
       \/ SaveAnswered(s) \/ SaveRefused(s)
       \/ \E known \in BOOLEAN : MeAnswered(s, known)
       \/ \E who \in Accounts : SubmitLogin(s, who) \/ SubmitSignup(s, who)
  \/ SubmitShortPassword \/ SendReset \/ ResetTimer
  \/ \E to \in Public \cup Tabs : Navigate(to)
  \/ \E who \in Persons : OtherTab(who)

AuthSpec == AuthInit /\ [][AuthNext]_authVars

(***************************************************************************)
(* Types.                                                                  *)
(***************************************************************************)
AuthTypeOK ==
  /\ {cookie, token, user, branding} \subseteq Persons
  /\ {isLoading, mixed, out} \subseteq BOOLEAN
  /\ path \in Public \cup Tabs
  /\ form \in [busy : BOOLEAN, error : BOOLEAN, sent : BOOLEAN]
  /\ sent \in [Slots -> [op : Ops, who : Persons, here : BOOLEAN]]
  /\ moves \in Nat /\ faults \in Nat

(***************************************************************************)
(* The three pieces of identity that answers set one at a time - the user  *)
(* in the header, the branding beside it, the token calls are signed with  *)
(* - are of one account whenever no profile call is outstanding, unless    *)
(* identity calls have overlapped (auth.tsx has no guard against that).    *)
(***************************************************************************)
IdentityAtRest ==
  ~mixed /\ Outstanding(MeOps) = {} =>
    branding = user /\ (token # None => user = token)

(***************************************************************************)
(* Signing out with no identity call under way is final: nothing that is   *)
(* answered later, the late clearing of the cookie included, brings the    *)
(* user or the token back, and once the gateway has answered the cookie is *)
(* gone too, unless a call was lost or another tab signed in.              *)
(***************************************************************************)
SignedOutStaysOut ==
  out =>
    /\ user = None /\ token = None /\ branding = None
    /\ faults = 0 /\ Outstanding({"logout"}) = {} => cookie = None

(***************************************************************************)
(* The splash screen over the dashboard is never for good: whenever        *)
(* isLoading holds, a profile call whose answer ends it is outstanding.    *)
(***************************************************************************)
SplashHasCall == isLoading => Outstanding(MeOps) # {}

(***************************************************************************)
(* No tab of the dashboard is on screen for a visitor whose user is not    *)
(* known, whatever answers fail after he was let in.                       *)
(***************************************************************************)
DashboardHasUser == tab # "none" => user # None
=============================================================================
