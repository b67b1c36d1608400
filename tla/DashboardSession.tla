-------------------------- MODULE DashboardSession --------------------------
(***************************************************************************)
(* One browser tab of the dashboard over AuthTokens: the token store, the  *)
(* request machinery of createApiClient with its shared refresh, session   *)
(* restore on page load, login, logout and the queries of protected pages. *)
(* Requests that a page no longer waits for, because it was reloaded or    *)
(* gave up, go on at the server.                                           *)
(***************************************************************************)
EXTENDS AuthTokens

CONSTANTS
    Queries,   \* queries of the page that may be in flight together
    Logins,    \* logins and registrations that may be in flight together
    Logouts,   \* logouts that may be in flight together
    Slots,     \* connections that one activity of the page may have in progress
    MaxForms,  \* bound on logins, registrations and logouts together
    MaxFaults  \* bound on reloads, failed calls, timeouts and logouts elsewhere together

Threads == {"restore"} \cup Logins \cup Logouts \cup Queries

ASSUME CallsAssumption == Calls = (Threads \cup {"refresh"}) \X Slots
ASSUME ThreadsAssumption ==
    /\ {"restore", "refresh"} \cap (Logins \cup Logouts \cup Queries) = {}
    /\ Logins \cap Logouts = {} /\ Logins \cap Queries = {} /\ Logouts \cap Queries = {}
ASSUME TokensAssumption == Tokens # {}
ASSUME BoundsAssumption == MaxForms \in Nat /\ MaxFaults \in Nat

VARIABLES
    accessToken,     \* tokenStore: in memory
    refreshToken,    \* tokenStore: in sessionStorage
    user,            \* useAuthStore: whether the page shows a user
    isInitializing,  \* useAuthStore
    refreshCall,     \* the call of refreshPromise, or None
    thread,          \* what each activity of the page waits for
    formsLeft,       \* how often the user may still log in or out
    faultsLeft       \* reloads and failures that may still happen

storeVars == <<accessToken, refreshToken>>
pageVars == <<user, isInitializing>>
boundVars == <<formsLeft, faultsLeft>>
vars == <<serverVars, call, storeVars, pageVars, refreshCall, thread, boundVars>>

Idle == [pc |-> "idle", kind |-> "query", body |-> None, retried |-> FALSE, call |-> None]

\* Between two tasks of the page nothing is left that runs without waiting.
Settled == \A h \in Threads : thread[h].pc \notin {"start", "resend", "rejected"}

\* The calls of an activity that nobody uses, and the tokens nobody refers to.
FreeCalls(h) == {c \in {h} \X Slots : call[c].pc = "idle"}
FreeCall(h) == CHOOSE c \in FreeCalls(h) : TRUE
FreeTokens == {t \in Tokens : /\ tokenRow[t] # "live" /\ t \notin accessFresh
                              /\ t \notin {accessToken, refreshToken}
                              /\ \A c \in Calls : t \notin {call[c].body, call[c].issued}
                              /\ \A h \in Threads : t # thread[h].body}

\* The page is loaded; sessionStorage may hold a token of the tab's earlier
\* life, which is the only one that may still be good.
Init ==
    /\ AuthInit
    /\ accessToken = None /\ refreshToken \in {None, CHOOSE t \in Tokens : TRUE}
    /\ refreshToken # None => account # "none"
    /\ \A t \in Tokens \ {refreshToken} : tokenRow[t] = "none"
    /\ user = FALSE /\ isInitializing = TRUE
    /\ refreshCall = None
    /\ thread = [h \in Threads |-> IF h = "restore" THEN [Idle EXCEPT !.pc = "start"] ELSE Idle]
    /\ formsLeft = MaxForms /\ faultsLeft = MaxFaults

Goto(h, pc) == thread' = [thread EXCEPT ![h].pc = pc]
Return(h) == thread' = [thread EXCEPT ![h] = Idle]
SetTokens(t) == accessToken' = t /\ refreshToken' = t
ClearTokens == SetTokens(None)
HangUp(c) == call' = [call EXCEPT ![c] = NoCall]

\* Thread h sends a request on call c, with the access token of the store.
Request(h, c, kind, body, token, retried) ==
    /\ call' = [call EXCEPT ![c] = Message(kind, body, token)]
    /\ thread' = [thread EXCEPT ![h] =
                    [pc |-> "sent", kind |-> kind, body |-> body, retried |-> retried, call |-> c]]

\* Thread h, which waits for nothing, sends a request on a call of its own.
NewRequest(h, kind, body, retried) ==
    /\ FreeCalls(h) # {}
    /\ Request(h, FreeCall(h), kind, body, accessToken, retried)

Answered(h, answer) ==
    /\ Settled
    /\ thread[h].pc = "sent"
    /\ call[thread[h].call].pc = answer

----------------------------------------------------------------------------
(* The response interceptor of createApiClient.                            *)

\* 401 for the first time: the request waits for the refresh in flight, or
\* starts one with the token of the store, or is rejected if there is none.
Unauthorized(h) ==
    /\ Answered(h, "unauthorized")
    /\ ~thread[h].retried
    /\ \/ /\ refreshCall # None
          /\ Goto(h, "waiting") /\ HangUp(thread[h].call)
          /\ UNCHANGED refreshCall
       \/ /\ refreshCall = None /\ refreshToken # None
          /\ Goto(h, "waiting")
          /\ FreeCalls("refresh") # {} /\ refreshCall' = FreeCall("refresh")
          /\ call' = [call EXCEPT ![thread[h].call] = NoCall,
                                  ![FreeCall("refresh")] = Message("refresh", refreshToken, None)]
       \/ /\ refreshCall = None /\ refreshToken = None
          /\ Goto(h, "rejected") /\ HangUp(thread[h].call)
          /\ UNCHANGED refreshCall
    /\ UNCHANGED <<serverVars, storeVars, pageVars, boundVars>>

\* A second 401, or no answer at all.
RequestRejected(h) ==
    /\ \/ Answered(h, "unauthorized") /\ thread[h].retried
       \/ Answered(h, "failed")
    /\ Goto(h, "rejected")
    /\ HangUp(thread[h].call)
    /\ UNCHANGED <<serverVars, storeVars, pageVars, refreshCall, boundVars>>

Wake(pc) ==
    thread' = [h \in Threads |-> IF thread[h].pc = "waiting" THEN [thread[h] EXCEPT !.pc = pc]
                                                             ELSE thread[h]]

\* performRefresh succeeds: every request that waits is sent again.
RefreshSucceeds ==
    /\ Settled
    /\ refreshCall # None /\ call[refreshCall].pc = "ok"
    /\ SetTokens(call[refreshCall].issued)
    /\ Wake("resend")
    /\ HangUp(refreshCall) /\ refreshCall' = None
    /\ UNCHANGED <<serverVars, pageVars, boundVars>>

\* As RefreshFails without the clean-up of the store.
RefreshFailsSilently ==
    /\ Settled
    /\ refreshCall # None /\ call[refreshCall].pc \in {"unauthorized", "failed"}
    /\ Wake("rejected")
    /\ HangUp(refreshCall) /\ refreshCall' = None
    /\ UNCHANGED <<serverVars, storeVars, pageVars, boundVars>>

\* As RefreshFails, leaving refreshPromise as it is.
RefreshFailsForGood ==
    /\ Settled
    /\ refreshCall # None /\ call[refreshCall].pc \in {"unauthorized", "failed"}
    /\ ClearTokens
    /\ Wake("rejected")
    /\ HangUp(refreshCall)
    /\ UNCHANGED <<serverVars, pageVars, refreshCall, boundVars>>

\* performRefresh fails: the store is cleared, every request rejected.
RefreshFails ==
    /\ Settled
    /\ refreshCall # None /\ call[refreshCall].pc \in {"unauthorized", "failed"}
    /\ ClearTokens
    /\ Wake("rejected")
    /\ HangUp(refreshCall) /\ refreshCall' = None
    /\ UNCHANGED <<serverVars, pageVars, boundVars>>

\* As Resend, forgetting that the request was sent before.
ResendAsNew(h) ==
    /\ thread[h].pc = "resend"
    /\ NewRequest(h, thread[h].kind, thread[h].body, FALSE)
    /\ UNCHANGED <<serverVars, storeVars, pageVars, refreshCall, boundVars>>

\* The original request, body included, with the new access token.
Resend(h) ==
    /\ thread[h].pc = "resend"
    /\ NewRequest(h, thread[h].kind, thread[h].body, TRUE)
    /\ UNCHANGED <<serverVars, storeVars, pageVars, refreshCall, boundVars>>

----------------------------------------------------------------------------
(* Restore, login, logout and queries.                                     *)

\* The effect of useSessionRestore.
Restore ==
    /\ thread["restore"].pc = "start"
    /\ \/ /\ refreshToken = None
          /\ isInitializing' = FALSE
          /\ Return("restore")
          /\ UNCHANGED <<call, user>>
       \/ /\ refreshToken # None
          /\ NewRequest("restore", "refresh", refreshToken, FALSE)
          /\ UNCHANGED pageVars
    /\ UNCHANGED <<serverVars, storeVars, refreshCall, boundVars>>

\* The new pair is stored, and the profile asked for with it.
RestoreRefreshed ==
    /\ Answered("restore", "ok")
    /\ thread["restore"].kind = "refresh"
    /\ LET c == thread["restore"].call IN
          /\ SetTokens(call[c].issued)
          /\ Request("restore", c, "query", None, call[c].issued, FALSE)
    /\ UNCHANGED <<serverVars, pageVars, refreshCall, boundVars>>

Restored ==
    /\ Answered("restore", "ok")
    /\ thread["restore"].kind = "query"
    /\ user' = TRUE /\ isInitializing' = FALSE
    /\ Return("restore") /\ HangUp(thread["restore"].call)
    /\ UNCHANGED <<serverVars, storeVars, refreshCall, boundVars>>

\* As RestoreFailed without the finally block.
RestoreFailsOnly ==
    /\ thread["restore"].pc = "rejected"
    /\ ClearTokens
    /\ user' = FALSE
    /\ Return("restore")
    /\ UNCHANGED <<serverVars, call, isInitializing, refreshCall, boundVars>>

RestoreFailed ==
    /\ thread["restore"].pc = "rejected"
    /\ ClearTokens
    /\ user' = FALSE /\ isInitializing' = FALSE
    /\ Return("restore")
    /\ UNCHANGED <<serverVars, call, refreshCall, boundVars>>

\* One of the activities that are idle; which of them starts makes no difference.
Spare(hs) == CHOOSE h \in hs : thread[h].pc = "idle"

Form == formsLeft > 0 /\ formsLeft' = formsLeft - 1

\* The login or the register form is submitted.  A form disables its own button
\* only, and whoever leaves it finds another one enabled; a form stays open when
\* a restore or another login shows the user.
SubmitLogin(h, kind) ==
    /\ Form
    /\ Settled
    /\ h \in Logins /\ thread[h].pc = "idle" /\ h = Spare(Logins)
    /\ kind \in {"login", "register"}
    /\ NewRequest(h, kind, None, FALSE)
    /\ UNCHANGED <<serverVars, storeVars, pageVars, refreshCall, faultsLeft>>

LoggedIn(h) ==
    /\ h \in Logins
    /\ Answered(h, "ok")
    /\ SetTokens(call[thread[h].call].issued)
    /\ user' = TRUE
    /\ Return(h) /\ HangUp(thread[h].call)
    /\ UNCHANGED <<serverVars, isInitializing, refreshCall, boundVars>>

\* The user logs out, perhaps again before the first logout is answered: the
\* button is never disabled.  Without a token there is nothing to revoke.
StartLogout(h) ==
    /\ Form
    /\ Settled
    /\ h \in Logouts /\ thread[h].pc = "idle" /\ h = Spare(Logouts)
    /\ user
    /\ \/ /\ refreshToken = None
          /\ ClearTokens /\ user' = FALSE
          /\ UNCHANGED <<call, thread>>
       \/ /\ refreshToken # None
          /\ NewRequest(h, "logout", refreshToken, FALSE)
          /\ UNCHANGED <<storeVars, user>>
    /\ UNCHANGED <<serverVars, isInitializing, refreshCall, faultsLeft>>

\* Whether the server has revoked the token or not, the tab forgets it.
LoggedOut(h) ==
    /\ h \in Logouts
    /\ \/ Answered(h, "ok") /\ HangUp(thread[h].call)
       \/ thread[h].pc = "rejected" /\ UNCHANGED call
    /\ ClearTokens /\ user' = FALSE
    /\ Return(h)
    /\ UNCHANGED <<serverVars, isInitializing, refreshCall, boundVars>>

\* A protected page, shown to a user only, asks for its data.
StartQuery(q) ==
    /\ Settled
    /\ user /\ ~isInitializing
    /\ q \in Queries /\ thread[q].pc = "idle"
    /\ NewRequest(q, "query", None, FALSE)
    /\ UNCHANGED <<serverVars, storeVars, pageVars, refreshCall, boundVars>>

QueryAnswered(q) ==
    /\ q \in Queries
    /\ Answered(q, "ok")
    /\ Return(q) /\ HangUp(thread[q].call)
    /\ UNCHANGED <<serverVars, storeVars, pageVars, refreshCall, boundVars>>

\* A login form or a page shows an error.
ShowError(h) ==
    /\ h \in Queries \cup Logins
    /\ thread[h].pc = "rejected"
    /\ Return(h)
    /\ UNCHANGED <<serverVars, call, storeVars, pageVars, refreshCall, boundVars>>

----------------------------------------------------------------------------
(* Failures.                                                               *)

Fault == faultsLeft > 0 /\ faultsLeft' = faultsLeft - 1

\* The page is loaded again: only sessionStorage is left of it.
Reload ==
    /\ Fault
    /\ Settled
    /\ accessToken' = None
    /\ user' = FALSE /\ isInitializing' = TRUE
    /\ refreshCall' = None
    /\ thread' = [h \in Threads |-> IF h = "restore" THEN [Idle EXCEPT !.pc = "start"] ELSE Idle]
    /\ UNCHANGED <<serverVars, call, refreshToken, formsLeft>>

\* A request times out, or its answer is lost.
GiveUp(h) ==
    /\ Fault
    /\ Settled
    /\ thread[h].pc = "sent"
    /\ Goto(h, "rejected")
    /\ UNCHANGED <<serverVars, call, storeVars, pageVars, refreshCall, formsLeft>>

Waited(c) ==
    \/ refreshCall = c
    \/ \E h \in Threads : thread[h].pc = "sent" /\ thread[h].call = c

\* The answer to a request nobody waits for.
Unheard(c) ==
    /\ call[c].pc \in Answers
    /\ ~Waited(c)
    /\ HangUp(c)
    /\ UNCHANGED <<serverVars, storeVars, pageVars, refreshCall, thread, boundVars>>

----------------------------------------------------------------------------
ClientVars == <<storeVars, pageVars, refreshCall, thread>>

Handler(c) ==
    /\ \/ HandlerStep(c)
       \/ /\ call[c].pc = "issue" /\ FreeTokens # {}
          /\ IssueTokenPair(c, CHOOSE t \in FreeTokens : TRUE)
    /\ UNCHANGED <<ClientVars, boundVars>>

PageStep(h) ==
    \/ Unauthorized(h)
    \/ RequestRejected(h)
    \/ Resend(h)
    \/ QueryAnswered(h)
    \/ ShowError(h)
    \/ h = "restore" /\ (Restore \/ RestoreRefreshed \/ Restored \/ RestoreFailed)
    \/ LoggedIn(h)
    \/ LoggedOut(h)

RefreshStep == RefreshSucceeds \/ RefreshFails

Expire(t) ==
    /\ ExpireAccess(t) \/ ExpireToken(t)
    /\ UNCHANGED <<ClientVars, boundVars>>

UserStep ==
    \/ \E h \in Logins, kind \in {"login", "register"} : SubmitLogin(h, kind)
    \/ \E h \in Logouts : StartLogout(h)
    \/ \E q \in Queries : StartQuery(q)
    \/ Reload

Next ==
    \/ \E c \in Calls : Handler(c)
    \/ \E c \in Calls : Fault /\ HandlerFails(c) /\ UNCHANGED <<ClientVars, formsLeft>>
    \/ \E c \in Calls : Unheard(c)
    \/ \E h \in Threads : PageStep(h) \/ GiveUp(h)
    \/ RefreshStep
    \/ UserStep
    \/ Fault /\ LogoutAllDevices /\ UNCHANGED <<ClientVars, formsLeft>>
    \/ AdminUpdate /\ UNCHANGED <<ClientVars, boundVars>>
    \/ \E t \in Tokens : Expire(t)

Spec == Init /\ [][Next]_vars

\* Handlers run and every token expires one day.  The browser runs the page's
\* tasks in the order they come, so none of them is passed over for ever by
\* others that are as often ready.
FairSpec ==
    /\ Spec
    /\ \A c \in Calls : WF_vars(Handler(c)) /\ WF_vars(Unheard(c))
    /\ \A h \in Threads : SF_vars(PageStep(h))
    /\ SF_vars(RefreshStep)
    /\ \A t \in Tokens : WF_vars(Expire(t))

----------------------------------------------------------------------------
(* Properties.                                                             *)

\* Every value is of its type; refreshPromise stands for a call in progress,
\* and a request waits only while there is one: performRefresh wakes all that
\* wait, and the finally block resets the promise (apiClient.ts:46-57).
SessionTypeOK ==
    /\ AuthTypeOK
    /\ {accessToken, refreshToken} \subseteq Tokens \cup {None}
    /\ user \in BOOLEAN /\ isInitializing \in BOOLEAN
    /\ refreshCall \in Calls \cup {None}
    /\ formsLeft \in 0..MaxForms /\ faultsLeft \in 0..MaxFaults
    /\ thread \in [Threads -> [pc : {"idle", "start", "sent", "waiting", "resend", "rejected"},
                               kind : Kinds, body : Tokens \cup {None}, retried : BOOLEAN,
                               call : Calls \cup {None}]]
    /\ refreshCall # None => call[refreshCall].pc # "idle"
    /\ (\E h \in Threads : thread[h].pc = "waiting") => refreshCall # None

\* A tab at rest does not keep a refresh token that was rotated away or
\* revoked by a logout: the next refresh of a tab that is left alone is not
\* refused for what the tab itself did (apiClient.ts:16-24,
\* useSessionRestore.ts:26-38, authStore.ts:36-48).
StoreNotSpent ==
    (refreshCall = None /\ \A h \in Threads : thread[h].pc = "idle")
        => refreshToken = None \/ tokenRow[refreshToken] # "revoked"

\* The spinner that ProtectedRoute shows while the session is restored goes
\* away, whatever becomes of the restore (useSessionRestore.ts:35-37).
InitializingEnds == isInitializing ~> ~isInitializing

\* Every request of the page ends: a request that keeps getting 401 is sent
\* again once and no more (apiClient.ts:43-44).
RequestsEnd == \A h \in Threads : (thread[h].pc # "idle") ~> (thread[h].pc = "idle")

\* A user who is deactivated for good has no valid access token in the end:
\* neither login nor refresh issues another one (auth.service.ts:80-82,114-116).
DeactivatedLosesAccess == <>[](account = "inactive") => <>[](accessFresh = {})
============================================================================
