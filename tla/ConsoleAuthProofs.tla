------------------------- MODULE ConsoleAuthProofs -------------------------
(***************************************************************************)
(* Proofs of the safety of ConsoleAuth, for every set of accounts, every   *)
(* number of outstanding calls and every bound.                            *)
(***************************************************************************)
EXTENDS ConsoleAuth, TLAPS

Quiet == {"idle", "logout"}

(***************************************************************************)
(* The conjuncts that make the properties inductive.                       *)
(***************************************************************************)
LoginsHaveSender == \A s \in Slots : sent[s].op = "login" => sent[s].who # None

TokenHasUser == user = None => token = None

OutIsQuiet == out => \A s \in Slots : sent[s].op \in Quiet

OneIdentityCall ==
  ~mixed => \A s, t \in Slots :
              sent[s].op \in IdentityOps /\ sent[t].op \in IdentityOps => s = t

ProfileOfToken ==
  ~mixed => \A s \in Slots :
              sent[s].op \in MeOps /\ token # None => sent[s].who = token

IInv ==
  /\ AuthTypeOK /\ LoginsHaveSender /\ TokenHasUser
  /\ DashboardHasUser /\ SplashHasCall
  /\ OutIsQuiet /\ SignedOutStaysOut
  /\ OneIdentityCall /\ ProfileOfToken /\ IdentityAtRest
-----------------------------------------------------------------------------
(***************************************************************************)
(* Type correctness.                                                       *)
(***************************************************************************)
LEMMA RouteType ==
  ASSUME NEW route \in Public \cup Tabs, NEW person, NEW bearer, NEW loading
  PROVE  RequireAuth(route, person, bearer, loading) \in Public \cup Tabs
  BY DEF RequireAuth, Public

LEMMA RenderType ==
  ASSUME AuthTypeOK, NEW route \in Public \cup Tabs,
         NEW formNow \in [busy : BOOLEAN, error : BOOLEAN, sent : BOOLEAN],
         NEW calls \in [Slots -> [op : Ops, who : Persons, here : BOOLEAN]],
         Render(route, formNow, calls), isLoading' \in BOOLEAN
  PROVE  /\ path' \in Public \cup Tabs
         /\ form' \in [busy : BOOLEAN, error : BOOLEAN, sent : BOOLEAN]
         /\ sent' \in [Slots -> [op : Ops, who : Persons, here : BOOLEAN]]
  <1>1. path' \in Public \cup Tabs
    BY RouteType DEF Render
  <1>2. form' \in [busy : BOOLEAN, error : BOOLEAN, sent : BOOLEAN]
    BY DEF Render, NoForm
  <1>3. sent' \in [Slots -> [op : Ops, who : Persons, here : BOOLEAN]]
    <2>1. ASSUME NEW s \in Slots
          PROVE  [calls[s] EXCEPT
                    !.here = @ /\ (route = path /\ path' = path)
                               /\ (path \in Tabs => ~isLoading')]
                   \in [op : Ops, who : Persons, here : BOOLEAN]
      BY DEF Ops
    <2>. QED
      BY <2>1 DEF Render
  <1>. QED
    BY <1>1, <1>2, <1>3

LEMMA AuthTypeInit == AuthInit => AuthTypeOK
  <1> SUFFICES ASSUME AuthInit PROVE AuthTypeOK
    OBVIOUS
  <1> USE DEF AuthInit, Persons
  <1>1. PICK s \in Slots : sent = Loaded(s)
    OBVIOUS
  <1>2. ASSUME NEW x \in Slots
        PROVE  Loaded(s)[x] \in [op : Ops, who : Persons, here : BOOLEAN]
    BY DEF Loaded, Call, Idle, Ops, IdentityOps, MeOps
  <1>3. sent \in [Slots -> [op : Ops, who : Persons, here : BOOLEAN]]
    BY <1>1, <1>2 DEF Loaded
  <1>4. form \in [busy : BOOLEAN, error : BOOLEAN, sent : BOOLEAN]
    BY DEF NoForm
  <1>. QED
    BY <1>3, <1>4 DEF AuthTypeOK

LEMMA AuthTypeNext == AuthTypeOK /\ [AuthNext]_authVars => AuthTypeOK'
  <1> SUFFICES ASSUME AuthTypeOK, [AuthNext]_authVars PROVE AuthTypeOK'
    OBVIOUS
  <1> USE DEF AuthTypeOK, Persons, memory, Move, Fault
  <1>o. /\ MeOps \subseteq Ops /\ {"login", "logout", "save", "idle"} \subseteq Ops
        /\ {"login", "overview", "landing"} \subseteq Public \cup Tabs
    BY DEF Ops, IdentityOps, MeOps, Public, Tabs
  <1>f. NoForm \in [busy : BOOLEAN, error : BOOLEAN, sent : BOOLEAN]
    BY DEF NoForm
  <1>i. Idle \in [op : Ops, who : Persons, here : BOOLEAN]
    BY <1>o DEF Idle
  <1>c. ASSUME NEW op \in Ops, NEW who \in Persons
        PROVE  Call(op, who) \in [op : Ops, who : Persons, here : BOOLEAN]
    BY <1>c DEF Call
  <1>a. Acting \in Persons
    BY DEF Acting
  <1>1. ASSUME NEW s \in Slots, Reload(s) PROVE AuthTypeOK'
    <2>1. Loaded(s) \in [Slots -> [op : Ops, who : Persons, here : BOOLEAN]]
      <3>1. Call("me", cookie) \in [op : Ops, who : Persons, here : BOOLEAN]
        BY <1>o, <1>c DEF MeOps
      <3>. QED
        BY <3>1, <1>i DEF Loaded
    <2>. QED
      <3>1. {cookie', token', user', branding'} \subseteq Persons
        BY <1>1 DEF Reload, Forget
      <3>2. {isLoading', mixed', out'} \subseteq BOOLEAN
        BY <1>1 DEF Reload
      <3>3. path' \in Public \cup Tabs /\ moves' \in Nat /\ faults' \in Nat
        BY <1>1 DEF Reload
      <3>. QED
        BY <1>1, <1>f, <2>1, <3>1, <3>2, <3>3 DEF Reload
  <1>2. ASSUME NEW s \in Slots, SignOut(s) PROVE AuthTypeOK'
    <2>1. [sent EXCEPT ![s] = Call("logout", Acting)]
            \in [Slots -> [op : Ops, who : Persons, here : BOOLEAN]]
      BY <1>a, <1>c, <1>o
    <2>2. /\ Render("login", form, [sent EXCEPT ![s] = Call("logout", Acting)])
          /\ isLoading' \in BOOLEAN
      BY <1>2 DEF SignOut
    <2>3. /\ path' \in Public \cup Tabs
          /\ form' \in [busy : BOOLEAN, error : BOOLEAN, sent : BOOLEAN]
          /\ sent' \in [Slots -> [op : Ops, who : Persons, here : BOOLEAN]]
      BY <1>o, <2>1, <2>2, RenderType
    <2>. QED
      BY <1>2, <2>2, <2>3 DEF SignOut, Forget
  <1>3. ASSUME NEW s \in Slots, Save(s) PROVE AuthTypeOK'
    BY <1>3, <1>a, <1>c, <1>o DEF Save
  <1>4. ASSUME NEW s \in Slots, LoginAnswered(s) PROVE AuthTypeOK'
    <2>1. [sent EXCEPT ![s] = [@ EXCEPT !.op = "loginMe"]]
            \in [Slots -> [op : Ops, who : Persons, here : BOOLEAN]]
      BY <1>o DEF MeOps
    <2>. QED
      BY <1>4, <2>1, RenderType, ZenonT(40) DEF LoginAnswered
  <1>5. ASSUME NEW s \in Slots, LoginRefused(s) PROVE AuthTypeOK'
    BY <1>5, <1>i DEF LoginRefused
  <1>6. ASSUME NEW s \in Slots, LogoutAnswered(s) PROVE AuthTypeOK'
    BY <1>6, <1>i DEF LogoutAnswered
  <1>7. ASSUME NEW s \in Slots, LogoutLost(s) PROVE AuthTypeOK'
    BY <1>7, <1>i DEF LogoutLost
  <1>8. ASSUME NEW s \in Slots, SaveAnswered(s) PROVE AuthTypeOK'
    <2>1. [sent EXCEPT ![s] = [@ EXCEPT !.op = "saveMe", !.who = Acting]]
            \in [Slots -> [op : Ops, who : Persons, here : BOOLEAN]]
      BY <1>o, <1>a DEF MeOps
    <2>. QED
      BY <1>8, <2>1, RenderType DEF SaveAnswered
  <1>9. ASSUME NEW s \in Slots, SaveRefused(s) PROVE AuthTypeOK'
    BY <1>9, <1>i DEF SaveRefused
  <1>10. ASSUME NEW s \in Slots, NEW known \in BOOLEAN, MeAnswered(s, known)
         PROVE  AuthTypeOK'
    <2>1. [sent EXCEPT ![s] = Idle]
            \in [Slots -> [op : Ops, who : Persons, here : BOOLEAN]]
      BY <1>i
    <2>2. (IF sent[s].op = "loginMe" THEN Home ELSE path) \in Public \cup Tabs
      BY <1>o DEF Home
    <2>3. [form EXCEPT !.busy = @ /\ ~sent[s].here]
            \in [busy : BOOLEAN, error : BOOLEAN, sent : BOOLEAN]
      OBVIOUS
    <2>4. isLoading' = FALSE /\ {token', user', branding'} \subseteq Persons
      BY <1>10 DEF MeAnswered, LoadingAfter, Learn, Forget
    <2>5. faults' \in Nat
      BY <1>10 DEF MeAnswered
    <2>6. Render(IF sent[s].op = "loginMe" THEN Home ELSE path,
                 [form EXCEPT !.busy = @ /\ ~sent[s].here], [sent EXCEPT ![s] = Idle])
      BY <1>10 DEF MeAnswered
    <2>. QED
      BY <1>10, <2>1, <2>2, <2>3, <2>4, <2>5, <2>6, RenderType DEF MeAnswered
  <1>11. ASSUME NEW s \in Slots, NEW who \in Accounts, Submit(s, who)
         PROVE  AuthTypeOK'
    <2>1. [form EXCEPT !.busy = TRUE, !.error = FALSE]
            \in [busy : BOOLEAN, error : BOOLEAN, sent : BOOLEAN]
      OBVIOUS
    <2>2. [sent EXCEPT ![s] = Call("login", who)]
            \in [Slots -> [op : Ops, who : Persons, here : BOOLEAN]]
      BY <1>o, <1>c
    <2>. QED
      <3>1. mixed' \in BOOLEAN
        <4>1. mixed' = (mixed \/ Outstanding(IdentityOps \cup {"logout"}) # {})
          BY <1>11 DEF Submit
        <4>. QED
          BY <4>1, Zenon
      <3>. QED
        <4>1. /\ UNCHANGED <<cookie, token, user, branding, isLoading, path, faults>>
              /\ out' = FALSE /\ moves' \in Nat
          BY <1>11 DEF Submit
        <4>2. /\ form' = [form EXCEPT !.busy = TRUE, !.error = FALSE]
              /\ sent' = [sent EXCEPT ![s] = Call("login", who)]
          BY <1>11 DEF Submit
        <4>. QED
          BY <2>1, <2>2, <3>1, <4>1, <4>2
  <1>12. CASE SubmitShortPassword
    <2>1. [form EXCEPT !.error = TRUE]
            \in [busy : BOOLEAN, error : BOOLEAN, sent : BOOLEAN]
      OBVIOUS
    <2>. QED
      BY <1>12, <2>1 DEF SubmitShortPassword
  <1>13. CASE SendReset
    <2>1. [form EXCEPT !.busy = TRUE, !.error = FALSE]
            \in [busy : BOOLEAN, error : BOOLEAN, sent : BOOLEAN]
      OBVIOUS
    <2>. QED
      BY <1>13, <2>1 DEF SendReset
  <1>14. CASE ResetTimer
    <2>1. [form EXCEPT !.busy = FALSE, !.sent = TRUE]
            \in [busy : BOOLEAN, error : BOOLEAN, sent : BOOLEAN]
      OBVIOUS
    <2>. QED
      BY <1>14, <2>1 DEF ResetTimer
  <1>15. ASSUME NEW to \in Public \cup Tabs, Navigate(to) PROVE AuthTypeOK'
    BY <1>15, RenderType DEF Navigate
  <1>16. ASSUME NEW who \in Persons, OtherTab(who) PROVE AuthTypeOK'
    BY <1>16 DEF OtherTab
  <1>17. CASE UNCHANGED authVars
    BY <1>17 DEF authVars
  <1>. QED
    BY <1>1, <1>2, <1>3, <1>4, <1>5, <1>6, <1>7, <1>8, <1>9, <1>10, <1>11, <1>12,
       <1>13, <1>14, <1>15, <1>16, <1>17
    DEF AuthNext, SubmitLogin, SubmitSignup

(***************************************************************************)
(* The session's variables keep their types.                               *)
(***************************************************************************)
THEOREM AuthTypeCorrect == AuthSpec => []AuthTypeOK
  BY AuthTypeInit, AuthTypeNext, PTL DEF AuthSpec
-----------------------------------------------------------------------------
(***************************************************************************)
(* Rendering changes no call but for who awaits it, and lets nobody whose  *)
(* user is unknown into the dashboard.                                     *)
(***************************************************************************)
LEMMA RenderKeepsCalls ==
  ASSUME NEW route, NEW formNow,
         NEW calls \in [Slots -> [op : Ops, who : Persons, here : BOOLEAN]],
         Render(route, formNow, calls)
  PROVE  \A t \in Slots : sent'[t].op = calls[t].op /\ sent'[t].who = calls[t].who
  BY DEF Render

LEMMA RenderAdmitsUsers ==
  ASSUME NEW route, NEW formNow, NEW calls, Render(route, formNow, calls),
         TokenHasUser'
  PROVE  DashboardHasUser'
  <1>1. path' = RequireAuth(route, user', token', isLoading')
    BY DEF Render
  <1>2. CASE TabOf(route, isLoading') # "none" /\ user' = None /\ token' = None
    BY <1>1, <1>2 DEF RequireAuth, DashboardHasUser, tab, TabOf, Tabs
  <1>3. CASE ~(TabOf(route, isLoading') # "none" /\ user' = None /\ token' = None)
    BY <1>1, <1>3 DEF RequireAuth, DashboardHasUser, tab, TokenHasUser
  <1>. QED
    BY <1>2, <1>3

(***************************************************************************)
(* The identity of a page that was just loaded.                            *)
(***************************************************************************)
LEMMA IInvInit == AuthInit => IInv
  <1> SUFFICES ASSUME AuthInit PROVE IInv
    OBVIOUS
  <1>1. PICK s \in Slots : sent = Loaded(s)
    BY DEF AuthInit
  <1>2. \A t \in Slots : /\ t = s => sent[t].op = "me" /\ sent[t].who = cookie
                         /\ t # s => sent[t].op = "idle"
    BY <1>1 DEF Loaded, Call, Idle
  <1>3. LoginsHaveSender /\ OneIdentityCall /\ ProfileOfToken
    BY <1>2 DEF AuthInit, LoginsHaveSender, OneIdentityCall, ProfileOfToken, IdentityOps,
                MeOps
  <1>4. SplashHasCall /\ IdentityAtRest
    BY <1>2 DEF AuthInit, SplashHasCall, IdentityAtRest, Outstanding, MeOps
  <1>5. TokenHasUser /\ DashboardHasUser /\ OutIsQuiet /\ SignedOutStaysOut
    BY DEF AuthInit, TokenHasUser, DashboardHasUser, OutIsQuiet, SignedOutStaysOut, tab,
           TabOf
  <1>. QED
    BY AuthTypeInit, <1>3, <1>4, <1>5 DEF IInv

(***************************************************************************)
(* What each step does to the operation and sender of the calls.           *)
(***************************************************************************)
Others(s) == \A t \in Slots \ {s} : sent'[t].op = sent[t].op /\ sent'[t].who = sent[t].who
Becomes(s, op, who) == Others(s) /\ sent'[s].op = op /\ sent'[s].who = who

LEMMA Effects ==
  ASSUME AuthTypeOK, NEW s \in Slots
  PROVE  /\ SignOut(s) => Becomes(s, "logout", Acting)
         /\ Save(s) => Becomes(s, "save", Acting)
         /\ LoginAnswered(s) => Becomes(s, "loginMe", sent[s].who)
         /\ SaveAnswered(s) => Becomes(s, "saveMe", Acting)
         /\ \A who \in Accounts : Submit(s, who) => Becomes(s, "login", who)
         /\ \A known \in BOOLEAN : MeAnswered(s, known) => Becomes(s, "idle", None)
         /\ LoginRefused(s) \/ LogoutAnswered(s) \/ LogoutLost(s) \/ SaveRefused(s)
              => Becomes(s, "idle", None)
  <1> USE DEF AuthTypeOK, Becomes, Others
  <1>t. /\ {"logout", "save", "loginMe", "saveMe", "login", "idle"} \subseteq Ops
        /\ Acting \in Persons /\ None \in Persons /\ Accounts \subseteq Persons
    BY DEF Ops, IdentityOps, MeOps, Acting, Persons
  <1>r. ASSUME NEW route, NEW formNow, NEW op, NEW who,
               NEW calls \in [Slots -> [op : Ops, who : Persons, here : BOOLEAN]],
               calls[s].op = op, calls[s].who = who,
               \A t \in Slots \ {s} : calls[t] = sent[t],
               Render(route, formNow, calls)
        PROVE  Becomes(s, op, who)
    BY <1>r, RenderKeepsCalls
  <1>1. ASSUME SignOut(s) PROVE Becomes(s, "logout", Acting)
    <2> DEFINE calls == [sent EXCEPT ![s] = Call("logout", Acting)]
    <2>1. /\ calls \in [Slots -> [op : Ops, who : Persons, here : BOOLEAN]]
          /\ calls[s].op = "logout" /\ calls[s].who = Acting
          /\ \A t \in Slots \ {s} : calls[t] = sent[t]
      BY <1>t DEF Call
    <2>2. Render("login", form, calls)
      BY <1>1 DEF SignOut
    <2>. HIDE DEF calls
    <2>. QED
      BY <1>r, <2>1, <2>2
  <1>2. ASSUME Save(s) PROVE Becomes(s, "save", Acting)
    BY <1>2 DEF Save, Call
  <1>3. ASSUME LoginAnswered(s) PROVE Becomes(s, "loginMe", sent[s].who)
    <2> DEFINE calls == [sent EXCEPT ![s] = [@ EXCEPT !.op = "loginMe"]]
    <2>1. /\ calls \in [Slots -> [op : Ops, who : Persons, here : BOOLEAN]]
          /\ calls[s].op = "loginMe" /\ calls[s].who = sent[s].who
          /\ \A t \in Slots \ {s} : calls[t] = sent[t]
      BY <1>t
    <2>2. Render(path, form, calls)
      BY <1>3 DEF LoginAnswered
    <2>. HIDE DEF calls
    <2>. QED
      BY <1>r, <2>1, <2>2
  <1>4. ASSUME SaveAnswered(s) PROVE Becomes(s, "saveMe", Acting)
    <2> DEFINE calls == [sent EXCEPT ![s] = [@ EXCEPT !.op = "saveMe", !.who = Acting]]
    <2>1. /\ calls \in [Slots -> [op : Ops, who : Persons, here : BOOLEAN]]
          /\ calls[s].op = "saveMe" /\ calls[s].who = Acting
          /\ \A t \in Slots \ {s} : calls[t] = sent[t]
      BY <1>t
    <2>2. Render(path, form, calls)
      BY <1>4 DEF SaveAnswered
    <2>. HIDE DEF calls
    <2>. QED
      BY <1>r, <2>1, <2>2
  <1>5. ASSUME NEW who \in Accounts, Submit(s, who) PROVE Becomes(s, "login", who)
    BY <1>5 DEF Submit, Call
  <1>6. ASSUME NEW known \in BOOLEAN, MeAnswered(s, known) PROVE Becomes(s, "idle", None)
    <2> DEFINE calls == [sent EXCEPT ![s] = Idle]
    <2>1. /\ calls \in [Slots -> [op : Ops, who : Persons, here : BOOLEAN]]
          /\ calls[s].op = "idle" /\ calls[s].who = None
          /\ \A t \in Slots \ {s} : calls[t] = sent[t]
      BY <1>t DEF Idle
    <2>2. PICK route, formNow : Render(route, formNow, calls)
      BY <1>6 DEF MeAnswered
    <2>. HIDE DEF calls
    <2>. QED
      BY <1>r, <2>1, <2>2
  <1>7. ASSUME LoginRefused(s) \/ LogoutAnswered(s) \/ LogoutLost(s) \/ SaveRefused(s)
        PROVE  Becomes(s, "idle", None)
    BY <1>7 DEF LoginRefused, LogoutAnswered, LogoutLost, SaveRefused, Idle
  <1>. QED
    BY <1>1, <1>2, <1>3, <1>4, <1>5, <1>6, <1>7
-----------------------------------------------------------------------------
(***************************************************************************)
(* Each action keeps the invariant.                                        *)
(***************************************************************************)
LEMMA Unaffected == IInv /\ UNCHANGED authVars => IInv'
  BY DEF IInv, AuthTypeOK, LoginsHaveSender, TokenHasUser, DashboardHasUser, SplashHasCall,
         OutIsQuiet, SignedOutStaysOut, OneIdentityCall, ProfileOfToken, IdentityAtRest,
         authVars, memory, tab, TabOf, Outstanding

LEMMA ReloadKeeps == \A s \in Slots : IInv /\ AuthTypeOK' /\ Reload(s) => IInv'
  <1> SUFFICES ASSUME NEW s \in Slots, IInv, AuthTypeOK', Reload(s) PROVE IInv'
    OBVIOUS
  <1>1. \A t \in Slots : /\ t = s => sent'[t].op = "me"
                         /\ t # s => sent'[t].op = "idle"
    BY DEF Reload, Loaded, Call, Idle
  <1>2. token' = None /\ isLoading' = TRUE /\ out' = FALSE
    BY DEF Reload, Forget
  <1>3. LoginsHaveSender' /\ OneIdentityCall' /\ ProfileOfToken'
    BY <1>1, <1>2 DEF LoginsHaveSender, OneIdentityCall, ProfileOfToken, IdentityOps, MeOps
  <1>4. SplashHasCall' /\ IdentityAtRest'
    BY <1>1 DEF SplashHasCall, IdentityAtRest, Outstanding, MeOps
  <1>5. TokenHasUser' /\ DashboardHasUser' /\ OutIsQuiet' /\ SignedOutStaysOut'
    BY <1>2 DEF TokenHasUser, DashboardHasUser, OutIsQuiet, SignedOutStaysOut, tab, TabOf
  <1>. QED
    BY <1>3, <1>4, <1>5 DEF IInv

LEMMA SignOutKeeps == \A s \in Slots : IInv /\ AuthTypeOK' /\ SignOut(s) => IInv'
  <1> SUFFICES ASSUME NEW s \in Slots, IInv, AuthTypeOK', SignOut(s) PROVE IInv'
    OBVIOUS
  <1> USE DEF IInv
  <1>1. Becomes(s, "logout", Acting)
    BY Effects
  <1>2. /\ token' = None /\ user' = None /\ branding' = None /\ isLoading' = isLoading
        /\ sent[s].op = "idle"
        /\ mixed' = (Outstanding(IdentityOps) # {})
        /\ out' = (Outstanding(IdentityOps) = {})
    BY DEF SignOut, Forget
  <1>3. LoginsHaveSender' /\ SplashHasCall'
    BY <1>1, <1>2 DEF Becomes, Others, LoginsHaveSender, SplashHasCall, Outstanding, MeOps
  <1>4. TokenHasUser' /\ DashboardHasUser'
    BY <1>2, RenderAdmitsUsers DEF TokenHasUser, SignOut
  <1>5. OutIsQuiet'
    BY <1>1, <1>2 DEF Becomes, Others, OutIsQuiet, Outstanding, Quiet, AuthTypeOK, Ops
  <1>6. SignedOutStaysOut'
    BY <1>1, <1>2 DEF Becomes, SignedOutStaysOut, Outstanding
  <1>7. OneIdentityCall' /\ ProfileOfToken' /\ IdentityAtRest'
    BY <1>1, <1>2 DEF Becomes, Others, OneIdentityCall, ProfileOfToken, IdentityAtRest,
                      Outstanding, IdentityOps, MeOps
  <1>. QED
    BY <1>3, <1>4, <1>5, <1>6, <1>7

LEMMA SubmitKeeps ==
  \A s \in Slots, who \in Accounts : IInv /\ AuthTypeOK' /\ Submit(s, who) => IInv'
  <1> SUFFICES ASSUME NEW s \in Slots, NEW who \in Accounts, IInv, AuthTypeOK',
                      Submit(s, who)
               PROVE  IInv'
    OBVIOUS
  <1> USE DEF IInv
  <1>1. Becomes(s, "login", who)
    BY Effects
  <1>2. /\ UNCHANGED <<token, user, branding, isLoading, path, cookie>>
        /\ sent[s].op = "idle"
        /\ ~mixed' => ~mixed /\ Outstanding(IdentityOps \cup {"logout"}) = {}
        /\ out' = FALSE
    BY DEF Submit, memory
  <1>3. LoginsHaveSender'
    BY <1>1, NoneAssumption DEF Becomes, Others, LoginsHaveSender
  <1>4. SplashHasCall' /\ IdentityAtRest' /\ ProfileOfToken'
    BY <1>1, <1>2 DEF Becomes, Others, SplashHasCall, IdentityAtRest, ProfileOfToken,
                      Outstanding, MeOps
  <1>5. OneIdentityCall'
    BY <1>1, <1>2 DEF Becomes, Others, OneIdentityCall, Outstanding
  <1>6. TokenHasUser' /\ DashboardHasUser' /\ OutIsQuiet' /\ SignedOutStaysOut'
    BY <1>2 DEF TokenHasUser, DashboardHasUser, OutIsQuiet, SignedOutStaysOut, tab, TabOf
  <1>. QED
    BY <1>3, <1>4, <1>5, <1>6

LEMMA LoginAnsweredKeeps ==
  \A s \in Slots : IInv /\ AuthTypeOK' /\ LoginAnswered(s) => IInv'
  <1> SUFFICES ASSUME NEW s \in Slots, IInv, AuthTypeOK', LoginAnswered(s) PROVE IInv'
    OBVIOUS
  <1> USE DEF IInv
  <1>1. Becomes(s, "loginMe", sent[s].who)
    BY Effects
  <1>2. /\ token' = sent[s].who /\ user' = sent[s].who /\ mixed' = mixed /\ out' = out
        /\ sent[s].op = "login" /\ sent[s].who # None
    BY DEF LoginAnswered, LoginsHaveSender
  <1>3. LoginsHaveSender' /\ SplashHasCall' /\ IdentityAtRest'
    BY <1>1 DEF Becomes, Others, LoginsHaveSender, SplashHasCall, IdentityAtRest,
                Outstanding, MeOps
  <1>4. TokenHasUser' /\ DashboardHasUser'
    BY <1>2, RenderAdmitsUsers DEF TokenHasUser, LoginAnswered
  <1>5. OutIsQuiet' /\ SignedOutStaysOut'
    BY <1>2 DEF OutIsQuiet, SignedOutStaysOut, Quiet
  <1>6. OneIdentityCall' /\ ProfileOfToken'
    BY <1>1, <1>2 DEF Becomes, Others, OneIdentityCall, ProfileOfToken, IdentityOps, MeOps
  <1>. QED
    BY <1>3, <1>4, <1>5, <1>6

LEMMA MeAnsweredKeeps ==
  \A s \in Slots, known \in BOOLEAN : IInv /\ AuthTypeOK' /\ MeAnswered(s, known) => IInv'
  <1> SUFFICES ASSUME NEW s \in Slots, NEW known \in BOOLEAN, IInv, AuthTypeOK',
                      MeAnswered(s, known)
               PROVE  IInv'
    OBVIOUS
  <1> USE DEF IInv
  <1>1. Becomes(s, "idle", None)
    BY Effects
  <1>2. /\ sent[s].op \in MeOps /\ isLoading' = FALSE /\ mixed' = mixed /\ out' = out
        /\ known => /\ sent[s].who # None
                    /\ user' = sent[s].who /\ branding' = sent[s].who /\ token' = token
        /\ ~known => user' = None /\ branding' = None /\ token' = None
    BY DEF MeAnswered, LoadingAfter, Learn, Forget
  <1>3. LoginsHaveSender' /\ SplashHasCall'
    BY <1>1, <1>2 DEF Becomes, Others, LoginsHaveSender, SplashHasCall
  <1>4. TokenHasUser'
    BY <1>2 DEF TokenHasUser
  <1>5. DashboardHasUser'
    BY <1>4, RenderAdmitsUsers DEF MeAnswered
  <1>6. OutIsQuiet' /\ SignedOutStaysOut'
    BY <1>2 DEF OutIsQuiet, SignedOutStaysOut, Quiet, MeOps
  <1>7. OneIdentityCall' /\ ProfileOfToken'
    BY <1>1, <1>2 DEF Becomes, Others, OneIdentityCall, ProfileOfToken, IdentityOps, MeOps
  <1>8. IdentityAtRest'
    BY <1>2 DEF IdentityAtRest, ProfileOfToken
  <1>. QED
    BY <1>3, <1>4, <1>5, <1>6, <1>7, <1>8

\* A refused sign-in, an answered or lost sign-out, a refused save.
LEMMA SettledKeeps ==
  \A s \in Slots :
    /\ IInv /\ AuthTypeOK'
    /\ LoginRefused(s) \/ LogoutAnswered(s) \/ LogoutLost(s) \/ SaveRefused(s)
    => IInv'
  <1> SUFFICES ASSUME NEW s \in Slots, IInv, AuthTypeOK',
                      LoginRefused(s) \/ LogoutAnswered(s) \/ LogoutLost(s) \/ SaveRefused(s)
               PROVE  IInv'
    OBVIOUS
  <1> USE DEF IInv
  <1>1. Becomes(s, "idle", None)
    BY Effects
  <1>2. /\ UNCHANGED <<token, user, branding, isLoading, path, mixed, out>>
        /\ sent[s].op \in {"login", "logout", "save"}
        /\ \/ cookie' = None
           \/ cookie' = cookie /\ faults' = faults + 1
           \/ cookie' = cookie /\ faults' = faults /\ sent[s].op # "logout"
    BY DEF LoginRefused, LogoutAnswered, LogoutLost, SaveRefused, memory, Fault
  <1>3. LoginsHaveSender' /\ SplashHasCall' /\ IdentityAtRest' /\ ProfileOfToken'
    BY <1>1, <1>2 DEF Becomes, Others, LoginsHaveSender, SplashHasCall, IdentityAtRest,
                      ProfileOfToken, Outstanding, MeOps
  <1>4. TokenHasUser' /\ DashboardHasUser'
    BY <1>2 DEF TokenHasUser, DashboardHasUser, tab, TabOf
  <1>5. OutIsQuiet'
    BY <1>1, <1>2 DEF Becomes, Others, OutIsQuiet, Quiet
  <1>6. faults' = faults + 1 => faults' # 0
    BY DEF AuthTypeOK
  <1>7. SignedOutStaysOut'
    BY <1>1, <1>2, <1>6 DEF Becomes, Others, SignedOutStaysOut, Outstanding
  <1>8. OneIdentityCall'
    BY <1>1, <1>2 DEF Becomes, Others, OneIdentityCall, IdentityOps, MeOps
  <1>. QED
    BY <1>3, <1>4, <1>5, <1>7, <1>8

LEMMA SaveKeeps == \A s \in Slots : IInv /\ AuthTypeOK' /\ Save(s) => IInv'
  <1> SUFFICES ASSUME NEW s \in Slots, IInv, AuthTypeOK', Save(s) PROVE IInv'
    OBVIOUS
  <1> USE DEF IInv
  <1>1. Becomes(s, "save", Acting)
    BY Effects
  <1>2. /\ UNCHANGED <<token, user, branding, isLoading, path, out>>
        /\ sent[s].op = "idle" /\ tab = "settings"
        /\ ~mixed' => ~mixed /\ Outstanding(IdentityOps) = {}
    BY DEF Save, memory
  <1>3. LoginsHaveSender' /\ SplashHasCall' /\ IdentityAtRest' /\ ProfileOfToken'
    BY <1>1, <1>2 DEF Becomes, Others, LoginsHaveSender, SplashHasCall, IdentityAtRest,
                      ProfileOfToken, Outstanding, MeOps
  <1>4. TokenHasUser' /\ DashboardHasUser'
    BY <1>2 DEF TokenHasUser, DashboardHasUser, tab, TabOf
  <1>5. ~out'
    BY <1>2 DEF DashboardHasUser, SignedOutStaysOut
  <1>6. OutIsQuiet' /\ SignedOutStaysOut'
    BY <1>5 DEF OutIsQuiet, SignedOutStaysOut
  <1>7. OneIdentityCall'
    BY <1>1, <1>2 DEF Becomes, Others, OneIdentityCall, Outstanding
  <1>. QED
    BY <1>3, <1>4, <1>6, <1>7

LEMMA SaveAnsweredKeeps ==
  \A s \in Slots : IInv /\ AuthTypeOK' /\ SaveAnswered(s) => IInv'
  <1> SUFFICES ASSUME NEW s \in Slots, IInv, AuthTypeOK', SaveAnswered(s) PROVE IInv'
    OBVIOUS
  <1> USE DEF IInv
  <1>1. Becomes(s, "saveMe", Acting)
    BY Effects
  <1>2. /\ UNCHANGED <<token, user, branding, mixed, out>> /\ sent[s].op = "save"
    BY DEF SaveAnswered
  <1>3. LoginsHaveSender' /\ SplashHasCall' /\ IdentityAtRest'
    BY <1>1 DEF Becomes, Others, LoginsHaveSender, SplashHasCall, IdentityAtRest,
                Outstanding, MeOps
  <1>4. TokenHasUser' /\ DashboardHasUser'
    BY <1>2, RenderAdmitsUsers DEF TokenHasUser, SaveAnswered
  <1>5. OutIsQuiet' /\ SignedOutStaysOut'
    BY <1>2 DEF OutIsQuiet, SignedOutStaysOut, Quiet
  <1>6. OneIdentityCall' /\ ProfileOfToken'
    BY <1>1, <1>2 DEF Becomes, Others, OneIdentityCall, ProfileOfToken, IdentityOps, MeOps,
                      Acting
  <1>. QED
    BY <1>3, <1>4, <1>5, <1>6

LEMMA NavigateKeeps == \A to : IInv /\ AuthTypeOK' /\ Navigate(to) => IInv'
  <1> SUFFICES ASSUME NEW to, IInv, AuthTypeOK', Navigate(to) PROVE IInv'
    OBVIOUS
  <1> USE DEF IInv
  <1>1. \A t \in Slots : sent'[t].op = sent[t].op /\ sent'[t].who = sent[t].who
    BY RenderKeepsCalls DEF Navigate, AuthTypeOK
  <1>2. UNCHANGED <<token, user, branding, isLoading, cookie, mixed, out, faults>>
    BY DEF Navigate, memory
  <1>3. TokenHasUser' /\ DashboardHasUser'
    BY <1>2, RenderAdmitsUsers DEF TokenHasUser, Navigate
  <1>4. LoginsHaveSender' /\ OneIdentityCall' /\ ProfileOfToken' /\ OutIsQuiet'
    BY <1>1, <1>2 DEF LoginsHaveSender, OneIdentityCall, ProfileOfToken, OutIsQuiet
  <1>5. SplashHasCall' /\ IdentityAtRest' /\ SignedOutStaysOut'
    BY <1>1, <1>2 DEF SplashHasCall, IdentityAtRest, SignedOutStaysOut, Outstanding
  <1>. QED
    BY <1>3, <1>4, <1>5

\* The forms that make no call, and another tab's sign-in or sign-out.
LEMMA AsideKeeps ==
  /\ IInv /\ AuthTypeOK'
  /\ SubmitShortPassword \/ SendReset \/ ResetTimer \/ (\E who \in Persons : OtherTab(who))
  => IInv'
  <1> SUFFICES ASSUME IInv, AuthTypeOK',
                      \/ SubmitShortPassword \/ SendReset \/ ResetTimer
                      \/ \E who \in Persons : OtherTab(who)
               PROVE  IInv'
    OBVIOUS
  <1> USE DEF IInv
  <1>1. /\ UNCHANGED <<token, user, branding, isLoading, path, sent, mixed, out>>
        /\ UNCHANGED <<cookie, faults>> \/ faults' = faults + 1
    BY DEF SubmitShortPassword, SendReset, ResetTimer, OtherTab, memory, Fault
  <1>2. faults' = faults + 1 => faults' # 0
    BY DEF AuthTypeOK
  <1>3. /\ LoginsHaveSender' /\ OneIdentityCall' /\ ProfileOfToken' /\ OutIsQuiet'
        /\ SplashHasCall' /\ IdentityAtRest' /\ TokenHasUser' /\ DashboardHasUser'
    BY <1>1 DEF LoginsHaveSender, OneIdentityCall, ProfileOfToken, OutIsQuiet,
                SplashHasCall, IdentityAtRest, TokenHasUser, DashboardHasUser, tab, TabOf,
                Outstanding
  <1>4. SignedOutStaysOut'
    BY <1>1, <1>2 DEF SignedOutStaysOut, Outstanding
  <1>. QED
    BY <1>3, <1>4

LEMMA IInvNext == IInv /\ [AuthNext]_authVars => IInv'
  <1> SUFFICES ASSUME IInv, [AuthNext]_authVars PROVE IInv'
    OBVIOUS
  <1>1. AuthTypeOK'
    BY AuthTypeNext DEF IInv
  <1>. QED
    BY <1>1, Unaffected, ReloadKeeps, SignOutKeeps, SubmitKeeps, LoginAnsweredKeeps,
       MeAnsweredKeeps, SettledKeeps, SaveKeeps, SaveAnsweredKeeps, NavigateKeeps,
       AsideKeeps
    DEF AuthNext, SubmitLogin, SubmitSignup

LEMMA IInvAlways == AuthSpec => []IInv
  BY IInvInit, IInvNext, PTL DEF AuthSpec

-----------------------------------------------------------------------------
(***************************************************************************)
(* User, branding and token are of one account whenever no profile call is *)
(* outstanding, unless identity calls overlapped.                          *)
(***************************************************************************)
THEOREM OneIdentityAtRest == AuthSpec => []IdentityAtRest
  <1>1. IInv => IdentityAtRest
    BY DEF IInv
  <1>. QED
    BY <1>1, IInvAlways, PTL

(***************************************************************************)
(* A sign-out with no identity call under way is final.                    *)
(***************************************************************************)
THEOREM SignOutIsFinal == AuthSpec => []SignedOutStaysOut
  <1>1. IInv => SignedOutStaysOut
    BY DEF IInv
  <1>. QED
    BY <1>1, IInvAlways, PTL

(***************************************************************************)
(* The splash screen waits for a call whose answer ends it.                *)
(***************************************************************************)
THEOREM SplashIsAwaited == AuthSpec => []SplashHasCall
  <1>1. IInv => SplashHasCall
    BY DEF IInv
  <1>. QED
    BY <1>1, IInvAlways, PTL

(***************************************************************************)
(* Nobody whose user is unknown is in the dashboard.                       *)
(***************************************************************************)
THEOREM DashboardIsGuarded == AuthSpec => []DashboardHasUser
  <1>1. IInv => DashboardHasUser
    BY DEF IInv
  <1>. QED
    BY <1>1, IInvAlways, PTL

-----------------------------------------------------------------------------
(***************************************************************************)
(* The forms: one that is busy waits for a call of its own, or for the     *)
(* timer of ForgotPassword.                                                *)
(***************************************************************************)
SignsIn(call) == call.op \in {"login", "loginMe"} /\ call.here

FormInv ==
  form.busy => /\ path \in {"login", "signup", "forgot"}
               /\ path # "forgot" => \E s \in Slots : SignsIn(sent[s])

LEMMA NotBusy == form' = NoForm => FormInv'
  BY DEF FormInv, NoForm

\* Rendering keeps the calls of a form that stays.
LEMMA RenderKeepsForm ==
  ASSUME NEW route, NEW formNow, NEW callsNow, AuthTypeOK, FormInv,
         Render(route, formNow, callsNow), formNow.busy => form.busy,
         callsNow \in [Slots -> [op : Ops, who : Persons, here : BOOLEAN]],
         formNow.busy /\ path # "forgot" /\ route = path =>
           \E s \in Slots : SignsIn(callsNow[s])
  PROVE  FormInv'
  <1>1. CASE ~(route = path /\ path' = path)
    BY <1>1, NotBusy DEF Render
  <1>2. CASE route = path /\ path' = path /\ formNow.busy
    <2>1. path \in {"login", "signup", "forgot"} /\ path \notin Tabs
      BY <1>2 DEF FormInv, Tabs
    <2>2. form' = formNow /\ \A s \in Slots : callsNow[s].here => SignsIn(callsNow[s]) = SignsIn(sent'[s])
      BY <1>2, <2>1 DEF Render, SignsIn
    <2>. QED
      BY <1>2, <2>1, <2>2 DEF FormInv, SignsIn
  <1>3. CASE route = path /\ path' = path /\ ~formNow.busy
    BY <1>3 DEF Render, FormInv
  <1>. QED
    BY <1>1, <1>2, <1>3

\* A call that is not the form's settles, or changes what it is for.
LEMMA OthersStay ==
  ASSUME NEW s \in Slots, NEW call, AuthTypeOK, ~SignsIn(sent[s]) \/ SignsIn(call),
         \E x \in Slots : SignsIn(sent[x])
  PROVE  \E x \in Slots : SignsIn([sent EXCEPT ![s] = call][x])
  <1>1. PICK x \in Slots : SignsIn(sent[x])
    OBVIOUS
  <1>2. /\ [sent EXCEPT ![s] = call][s] = call
        /\ x # s => [sent EXCEPT ![s] = call][x] = sent[x]
    BY DEF AuthTypeOK
  <1>. QED
    BY <1>1, <1>2

LEMMA FormNext == FormInv /\ AuthTypeOK /\ [AuthNext]_authVars => FormInv'
  <1>. SUFFICES ASSUME FormInv, AuthTypeOK, [AuthNext]_authVars PROVE FormInv'
    OBVIOUS
  <1>0. /\ sent \in [Slots -> [op : Ops, who : Persons, here : BOOLEAN]]
        /\ form \in [busy : BOOLEAN, error : BOOLEAN, sent : BOOLEAN]
        /\ token \in Persons /\ cookie \in Persons
    BY DEF AuthTypeOK
  <1>o. /\ {"loginMe", "saveMe", "idle", "logout"} \subseteq Ops
        /\ Idle \in [op : Ops, who : Persons, here : BOOLEAN]
        /\ Acting \in Persons
    BY <1>0 DEF Ops, IdentityOps, MeOps, Idle, Persons, Acting
  <1>1. ASSUME NEW s \in Slots, Reload(s) PROVE FormInv'
    BY <1>1, NotBusy DEF Reload
  <1>2. ASSUME NEW s \in Slots, SignOut(s) PROVE FormInv'
    <2>1. path # "login"
      BY <1>2 DEF SignOut, tab, TabOf, Tabs
    <2>. QED
      BY <1>2, <2>1, NotBusy DEF SignOut, Render
  <1>3. ASSUME NEW s \in Slots, Save(s) \/ SaveRefused(s) \/ LogoutAnswered(s) \/ LogoutLost(s)
        PROVE  FormInv'
    <2>1. PICK call : sent' = [sent EXCEPT ![s] = call]
      BY <1>3 DEF Save, SaveRefused, LogoutAnswered, LogoutLost
    <2>2. ~SignsIn(sent[s]) /\ UNCHANGED <<path, form>>
      BY <1>3 DEF Save, SaveRefused, LogoutAnswered, LogoutLost, SignsIn
    <2>3. CASE \E x \in Slots : SignsIn(sent[x])
      BY <2>1, <2>2, <2>3, OthersStay DEF FormInv
    <2>4. CASE ~\E x \in Slots : SignsIn(sent[x])
      BY <2>2, <2>4 DEF FormInv
    <2>. QED
      BY <2>3, <2>4
  <1>4. ASSUME NEW s \in Slots, LoginAnswered(s) PROVE FormInv'
    <2>. DEFINE call == [sent[s] EXCEPT !.op = "loginMe"]
                after == [sent EXCEPT ![s] = call]
    <2>1. /\ call \in [op : Ops, who : Persons, here : BOOLEAN]
          /\ SignsIn(sent[s]) => SignsIn(call)
      BY <1>0, <1>4, <1>o DEF SignsIn
    <2>2. Render(path, form, after)
      BY <1>4 DEF LoginAnswered
    <2>. HIDE DEF call
    <2>3. after \in [Slots -> [op : Ops, who : Persons, here : BOOLEAN]]
      BY <1>0, <2>1
    <2>4. (\E x \in Slots : SignsIn(sent[x])) => \E x \in Slots : SignsIn(after[x])
      BY <2>1, OthersStay
    <2>. HIDE DEF after
    <2>. QED
      BY <2>2, <2>3, <2>4, RenderKeepsForm DEF FormInv
  <1>5. ASSUME NEW s \in Slots, LoginRefused(s) PROVE FormInv'
    <2>1. CASE sent[s].here
      BY <1>0, <1>5, <2>1 DEF LoginRefused, FormInv
    <2>2. CASE ~sent[s].here
      <3>1. ~SignsIn(sent[s]) /\ UNCHANGED <<path, form>> /\ sent' = [sent EXCEPT ![s] = Idle]
        BY <1>5, <2>2 DEF LoginRefused, SignsIn
      <3>. QED
        BY <3>1, OthersStay DEF FormInv
    <2>. QED
      BY <2>1, <2>2
  <1>6. ASSUME NEW s \in Slots, SaveAnswered(s) PROVE FormInv'
    <2>. DEFINE call == [sent[s] EXCEPT !.op = "saveMe", !.who = Acting]
                after == [sent EXCEPT ![s] = call]
    <2>1. /\ call \in [op : Ops, who : Persons, here : BOOLEAN]
          /\ ~SignsIn(sent[s])
      BY <1>0, <1>6, <1>o DEF SignsIn, SaveAnswered
    <2>2. Render(path, form, after)
      BY <1>6 DEF SaveAnswered
    <2>. HIDE DEF call
    <2>3. after \in [Slots -> [op : Ops, who : Persons, here : BOOLEAN]]
      BY <1>0, <2>1
    <2>4. (\E x \in Slots : SignsIn(sent[x])) => \E x \in Slots : SignsIn(after[x])
      BY <2>1, OthersStay
    <2>. HIDE DEF after
    <2>. QED
      BY <2>2, <2>3, <2>4, RenderKeepsForm DEF FormInv
  <1>7. ASSUME NEW s \in Slots, NEW known \in BOOLEAN, MeAnswered(s, known) PROVE FormInv'
    <2>. DEFINE route == IF sent[s].op = "loginMe" THEN Home ELSE path
                now   == [form EXCEPT !.busy = @ /\ ~sent[s].here]
                after == [sent EXCEPT ![s] = Idle]
    <2>1. Render(route, now, after) /\ sent[s].op \in MeOps
      BY <1>7 DEF MeAnswered
    <2>2. now.busy => form.busy /\ ~sent[s].here
      BY <1>0
    <2>3. after \in [Slots -> [op : Ops, who : Persons, here : BOOLEAN]]
      BY <1>0, <1>o
    <2>4. (\E x \in Slots : SignsIn(sent[x])) /\ ~sent[s].here
            => \E x \in Slots : SignsIn(after[x])
      BY OthersStay DEF SignsIn
    <2>. HIDE DEF route, now, after
    <2>. QED
      BY <2>1, <2>2, <2>3, <2>4, RenderKeepsForm DEF FormInv
  <1>8. ASSUME NEW s \in Slots, NEW who, SubmitLogin(s, who) \/ SubmitSignup(s, who)
        PROVE  FormInv'
    <2>1. /\ path' = path /\ path \in {"login", "signup"}
          /\ sent' = [sent EXCEPT ![s] = Call("login", who)]
      BY <1>8 DEF SubmitLogin, SubmitSignup, Submit, OffersSubmit
    <2>2. SignsIn(sent'[s])
      BY <1>0, <2>1 DEF SignsIn, Call
    <2>. QED
      BY <2>1, <2>2 DEF FormInv
  <1>9. CASE SubmitShortPassword
    BY <1>0, <1>9 DEF SubmitShortPassword, OffersSubmit, FormInv
  <1>10. CASE SendReset
    BY <1>10 DEF SendReset, OffersSubmit, FormInv
  <1>11. CASE ResetTimer
    BY <1>0, <1>11 DEF ResetTimer, FormInv
  <1>12. ASSUME NEW to, Navigate(to) PROVE FormInv'
    BY <1>12, NotBusy DEF Navigate, Render
  <1>13. ASSUME NEW who, OtherTab(who) PROVE FormInv'
    BY <1>13 DEF OtherTab, FormInv
  <1>14. CASE UNCHANGED authVars
    BY <1>14 DEF authVars, FormInv
  <1>. QED
    BY <1>1, <1>2, <1>3, <1>4, <1>5, <1>6, <1>7, <1>8, <1>9, <1>10, <1>11, <1>12, <1>13, <1>14
    DEF AuthNext

LEMMA FormAlways == AuthSpec => []FormInv
  <1>1. AuthInit => FormInv
    BY DEF AuthInit, FormInv, NoForm
  <1>. QED
    BY <1>1, FormNext, AuthTypeCorrect, PTL DEF AuthSpec

-----------------------------------------------------------------------------
(***************************************************************************)
(* The visitor: unless identity calls overlapped or something failed, the  *)
(* account of the cookie and of the token is the user's, so every call of  *)
(* the dashboard is made for the user it shows.                            *)
(***************************************************************************)
LogoutIsLast ==
  ~mixed /\ (user # None \/ Outstanding(IdentityOps) # {}) => Outstanding({"logout"}) = {}

ProfileIsLoading == ~mixed => \A s \in Slots : sent[s].op \in MeOps => isLoading

CookieOfUser ==
  ~mixed /\ faults = 0 =>
    /\ user # None => cookie = user
    /\ token # None => token = user
    /\ \A s \in Slots : sent[s].op \in MeOps => sent[s].who = cookie

VisitorInv == LogoutIsLast /\ ProfileIsLoading /\ CookieOfUser

LEMMA VisitorInit == AuthInit => VisitorInv
  <1>. SUFFICES ASSUME AuthInit PROVE VisitorInv
    OBVIOUS
  <1>1. PICK s \in Slots : sent = Loaded(s)
    BY DEF AuthInit
  <1>2. \A t \in Slots : /\ t = s => sent[t].op = "me" /\ sent[t].who = cookie
                         /\ t # s => sent[t].op = "idle"
    BY <1>1 DEF Loaded, Call, Idle
  <1>3. LogoutIsLast
    BY <1>2 DEF LogoutIsLast, Outstanding
  <1>4. ProfileIsLoading /\ CookieOfUser
    BY <1>2 DEF AuthInit, ProfileIsLoading, CookieOfUser, MeOps
  <1>. QED
    BY <1>3, <1>4 DEF VisitorInv

LEMMA VisitorNext == IInv /\ VisitorInv /\ [AuthNext]_authVars => VisitorInv'
  <1>. SUFFICES ASSUME IInv, VisitorInv, [AuthNext]_authVars PROVE VisitorInv'
    OBVIOUS
  <1>0. AuthTypeOK /\ LogoutIsLast /\ ProfileIsLoading /\ CookieOfUser
    BY DEF IInv, VisitorInv
  <1>f. faults' = faults + 1 => faults' # 0
    BY <1>0 DEF AuthTypeOK
  <1>1. ASSUME NEW s \in Slots, Reload(s) PROVE VisitorInv'
    <2>1. \A t \in Slots : /\ t = s => sent'[t].op = "me" /\ sent'[t].who = cookie
                           /\ t # s => sent'[t].op = "idle"
      BY <1>1 DEF Reload, Loaded, Call, Idle
    <2>2. cookie' = cookie /\ token' = None /\ user' = None /\ isLoading' = TRUE
      BY <1>1 DEF Reload, Forget
    <2>3. LogoutIsLast'
      BY <2>1 DEF LogoutIsLast, Outstanding
    <2>4. ProfileIsLoading' /\ CookieOfUser'
      BY <2>1, <2>2 DEF ProfileIsLoading, CookieOfUser, MeOps
    <2>. QED
      BY <2>3, <2>4 DEF VisitorInv
  <1>2. ASSUME NEW s \in Slots, SignOut(s) PROVE VisitorInv'
    <2>1. Becomes(s, "logout", Acting) /\ token' = None /\ user' = None
          /\ mixed' = (Outstanding(IdentityOps) # {})
      BY <1>0, <1>2, Effects DEF SignOut, Forget
    <2>2. ~mixed' => \A t \in Slots : sent'[t].op \notin IdentityOps
      BY <2>1 DEF Becomes, Others, Outstanding, IdentityOps, MeOps
    <2>3. LogoutIsLast'
      BY <2>1, <2>2 DEF LogoutIsLast, Outstanding
    <2>4. ProfileIsLoading' /\ CookieOfUser'
      BY <2>1, <2>2 DEF ProfileIsLoading, CookieOfUser, IdentityOps
    <2>. QED
      BY <2>3, <2>4 DEF VisitorInv
  <1>3. ASSUME NEW s \in Slots, Save(s) PROVE VisitorInv'
    <2>1. /\ Becomes(s, "save", Acting) /\ user # None
          /\ UNCHANGED <<cookie, token, user, isLoading, faults>> /\ (~mixed' => ~mixed)
      BY <1>0, <1>3, Effects DEF Save, memory, IInv, DashboardHasUser
    <2>2. LogoutIsLast'
      BY <1>0, <2>1 DEF Becomes, Others, LogoutIsLast, Outstanding
    <2>3. ProfileIsLoading' /\ CookieOfUser'
      BY <1>0, <2>1 DEF Becomes, Others, ProfileIsLoading, CookieOfUser, MeOps
    <2>. QED
      BY <2>2, <2>3 DEF VisitorInv
  <1>4. ASSUME NEW s \in Slots, LoginAnswered(s) PROVE VisitorInv'
    <2>1. /\ Becomes(s, "loginMe", sent[s].who) /\ sent[s].op = "login"
          /\ cookie' = sent[s].who /\ token' = sent[s].who /\ user' = sent[s].who
          /\ isLoading' = TRUE /\ mixed' = mixed
      BY <1>0, <1>4, Effects DEF LoginAnswered
    <2>2. ~mixed => \A t \in Slots \ {s} : sent[t].op \notin IdentityOps
      BY <2>1 DEF IInv, OneIdentityCall, IdentityOps
    <2>3. ~mixed => \A t \in Slots : sent[t].op # "logout"
      BY <1>0, <2>1 DEF LogoutIsLast, Outstanding, IdentityOps
    <2>4. LogoutIsLast'
      BY <2>1, <2>3 DEF Becomes, Others, LogoutIsLast, Outstanding
    <2>5. ProfileIsLoading' /\ CookieOfUser'
      BY <2>1, <2>2 DEF Becomes, Others, ProfileIsLoading, CookieOfUser, IdentityOps
    <2>. QED
      BY <2>4, <2>5 DEF VisitorInv
  <1>5. ASSUME NEW s \in Slots, LoginRefused(s) \/ LogoutLost(s) \/ SaveRefused(s)
        PROVE  VisitorInv'
    <2>1. /\ Becomes(s, "idle", None) /\ UNCHANGED <<cookie, token, user, isLoading, mixed>>
          /\ faults' # 0 \/ faults' = faults
      BY <1>0, <1>5, <1>f, Effects DEF LoginRefused, LogoutLost, SaveRefused, memory, Fault
    <2>2. LogoutIsLast'
      BY <1>0, <2>1 DEF Becomes, Others, LogoutIsLast, Outstanding, IdentityOps, MeOps
    <2>3. ProfileIsLoading' /\ CookieOfUser'
      BY <1>0, <2>1 DEF Becomes, Others, ProfileIsLoading, CookieOfUser, MeOps
    <2>. QED
      BY <2>2, <2>3 DEF VisitorInv
  <1>6. ASSUME NEW s \in Slots, LogoutAnswered(s) PROVE VisitorInv'
    <2>1. /\ Becomes(s, "idle", None) /\ UNCHANGED <<token, user, isLoading, mixed>>
          /\ sent[s].op = "logout"
      BY <1>0, <1>6, Effects DEF LogoutAnswered, memory
    <2>2. ~mixed => user = None /\ \A t \in Slots : sent[t].op \notin IdentityOps
      BY <1>0, <2>1 DEF LogoutIsLast, Outstanding
    <2>3. ~mixed => token = None /\ \A t \in Slots : sent'[t].op \notin IdentityOps
      BY <2>1, <2>2 DEF IInv, TokenHasUser, Becomes, Others, IdentityOps, MeOps
    <2>4. LogoutIsLast'
      BY <2>1, <2>2, <2>3 DEF LogoutIsLast, Outstanding
    <2>5. ProfileIsLoading' /\ CookieOfUser'
      BY <2>1, <2>2, <2>3 DEF ProfileIsLoading, CookieOfUser, IdentityOps
    <2>. QED
      BY <2>4, <2>5 DEF VisitorInv
  <1>7. ASSUME NEW s \in Slots, SaveAnswered(s) PROVE VisitorInv'
    <2>1. /\ Becomes(s, "saveMe", Acting) /\ sent[s].op = "save" /\ isLoading' = TRUE
          /\ UNCHANGED <<cookie, token, user, mixed, faults>>
      BY <1>0, <1>7, Effects DEF SaveAnswered
    <2>2. ~mixed /\ faults = 0 => Acting = cookie
      BY <1>0 DEF Acting, CookieOfUser, IInv, TokenHasUser
    <2>3. LogoutIsLast'
      BY <1>0, <2>1 DEF Becomes, Others, LogoutIsLast, Outstanding, IdentityOps, MeOps
    <2>4. ProfileIsLoading' /\ CookieOfUser'
      BY <1>0, <2>1, <2>2 DEF Becomes, Others, ProfileIsLoading, CookieOfUser, MeOps
    <2>. QED
      BY <2>3, <2>4 DEF VisitorInv
  <1>8. ASSUME NEW s \in Slots, NEW known \in BOOLEAN, MeAnswered(s, known) PROVE VisitorInv'
    <2>1. /\ Becomes(s, "idle", None) /\ sent[s].op \in MeOps /\ mixed' = mixed
          /\ cookie' = cookie /\ (faults' # 0 \/ faults' = faults)
          /\ known => user' = sent[s].who /\ token' = token
          /\ ~known => user' = None /\ token' = None
      BY <1>0, <1>8, <1>f, Effects DEF MeAnswered, Learn, Forget, Fault
    <2>2. ~mixed => \A t \in Slots \ {s} : sent[t].op \notin IdentityOps
      BY <2>1 DEF IInv, OneIdentityCall, IdentityOps
    <2>3. ~mixed => \A t \in Slots : sent[t].op # "logout"
      BY <1>0, <2>1 DEF LogoutIsLast, Outstanding, IdentityOps
    <2>4. ~mixed => \A t \in Slots : sent'[t].op \notin MeOps
      BY <2>1, <2>2 DEF Becomes, Others, IdentityOps, MeOps
    <2>5. ~mixed /\ token # None => sent[s].who = token
      BY <2>1 DEF IInv, ProfileOfToken
    <2>6. LogoutIsLast'
      BY <2>1, <2>3 DEF Becomes, Others, LogoutIsLast, Outstanding
    <2>7. ProfileIsLoading' /\ CookieOfUser'
      BY <1>0, <2>1, <2>4, <2>5 DEF ProfileIsLoading, CookieOfUser
    <2>. QED
      BY <2>6, <2>7 DEF VisitorInv
  <1>9. ASSUME NEW s \in Slots, NEW who \in Accounts, Submit(s, who) PROVE VisitorInv'
    <2>1. /\ Becomes(s, "login", who) /\ UNCHANGED <<cookie, token, user, isLoading, faults>>
          /\ ~mixed' => ~mixed /\ Outstanding(IdentityOps \cup {"logout"}) = {}
      BY <1>0, <1>9, Effects DEF Submit, memory
    <2>2. LogoutIsLast'
      BY <2>1 DEF Becomes, Others, LogoutIsLast, Outstanding
    <2>3. ProfileIsLoading' /\ CookieOfUser'
      BY <1>0, <2>1 DEF Becomes, Others, ProfileIsLoading, CookieOfUser, MeOps
    <2>. QED
      BY <2>2, <2>3 DEF VisitorInv
  <1>10. ASSUME NEW to, Navigate(to) PROVE VisitorInv'
    <2>1. \A t \in Slots : sent'[t].op = sent[t].op /\ sent'[t].who = sent[t].who
      BY <1>0, <1>10, RenderKeepsCalls DEF Navigate, AuthTypeOK
    <2>2. UNCHANGED <<cookie, token, user, isLoading, mixed, faults>>
      BY <1>10 DEF Navigate, memory
    <2>. QED
      BY <1>0, <2>1, <2>2 DEF VisitorInv, LogoutIsLast, Outstanding, ProfileIsLoading, CookieOfUser
  <1>11. CASE SubmitShortPassword \/ SendReset \/ ResetTimer \/ \E who \in Persons : OtherTab(who)
    <2>1. /\ UNCHANGED <<token, user, isLoading, sent, mixed>>
          /\ faults' # 0 \/ UNCHANGED <<cookie, faults>>
      BY <1>11, <1>f DEF SubmitShortPassword, SendReset, ResetTimer, OtherTab, memory, Fault
    <2>. QED
      BY <1>0, <2>1 DEF VisitorInv, LogoutIsLast, Outstanding, ProfileIsLoading, CookieOfUser
  <1>12. CASE UNCHANGED authVars
    BY <1>0, <1>12 DEF authVars, memory, VisitorInv, LogoutIsLast, Outstanding,
                       ProfileIsLoading, CookieOfUser
  <1>. QED
    BY <1>1, <1>2, <1>3, <1>4, <1>5, <1>6, <1>7, <1>8, <1>9, <1>10, <1>11, <1>12
    DEF AuthNext, SubmitLogin, SubmitSignup

LEMMA VisitorAlways == AuthSpec => [](IInv /\ VisitorInv)
  BY VisitorInit, VisitorNext, IInvInit, IInvNext, PTL DEF AuthSpec

(***************************************************************************)
(* A call of the dashboard is made for its user, and a step that stays in  *)
(* the dashboard keeps him.                                                *)
(***************************************************************************)
LEMMA UserActs == IInv /\ VisitorInv /\ ~mixed /\ faults = 0 /\ user # None => Acting = user
  BY DEF IInv, TokenHasUser, VisitorInv, CookieOfUser, Acting

LEMMA SameVisitor ==
  ASSUME IInv, VisitorInv, [AuthNext]_authVars, tab # "none", tab' # "none",
         ~mixed', faults' = 0
  PROVE  user' = user /\ ~mixed /\ faults = 0
  <1>0. AuthTypeOK /\ faults \in Nat /\ ~isLoading /\ ~isLoading'
    BY DEF IInv, AuthTypeOK, tab, TabOf
  <1>f. faults' # faults + 1
    BY <1>0
  <1>1. ASSUME NEW s \in Slots, Reload(s) \/ LoginAnswered(s) \/ SaveAnswered(s) PROVE FALSE
    BY <1>0, <1>1 DEF Reload, LoginAnswered, SaveAnswered
  <1>2. ASSUME NEW s \in Slots, SignOut(s) PROVE FALSE
    <2>1. path' = RequireAuth("login", user', token', isLoading')
      BY <1>2 DEF SignOut, Render
    <2>. QED
      BY <2>1 DEF RequireAuth, TabOf, Tabs, tab
  <1>3. ASSUME NEW s \in Slots, NEW known \in BOOLEAN, MeAnswered(s, known) PROVE FALSE
    BY <1>0, <1>3 DEF MeAnswered, VisitorInv, ProfileIsLoading
  <1>4. ASSUME NEW s \in Slots,
               \/ Save(s) \/ LoginRefused(s) \/ LogoutAnswered(s) \/ LogoutLost(s) \/ SaveRefused(s)
               \/ \E who \in Accounts : Submit(s, who)
        PROVE  user' = user /\ ~mixed /\ faults = 0
    <2>1. CASE Save(s) \/ \E who \in Accounts : Submit(s, who)
      <3>1. (mixed => mixed') /\ user' = user /\ faults' = faults
        BY <2>1 DEF Save, Submit, memory
      <3>. QED
        BY <3>1
    <2>2. CASE LoginRefused(s) \/ LogoutAnswered(s) \/ LogoutLost(s) \/ SaveRefused(s)
      BY <1>f, <2>2 DEF LoginRefused, LogoutAnswered, LogoutLost, SaveRefused, memory, Fault
    <2>. QED
      BY <1>4, <2>1, <2>2
  <1>5. ASSUME NEW to, Navigate(to) PROVE user' = user /\ ~mixed /\ faults = 0
    BY <1>5 DEF Navigate, memory
  <1>6. CASE \/ SubmitShortPassword \/ SendReset \/ ResetTimer \/ UNCHANGED authVars
             \/ \E who \in Persons : OtherTab(who)
    BY <1>6, <1>f DEF SubmitShortPassword, SendReset, ResetTimer, OtherTab, memory, Fault, authVars
  <1>. QED
    BY <1>1, <1>2, <1>3, <1>4, <1>5, <1>6 DEF AuthNext, SubmitLogin, SubmitSignup
=============================================================================
