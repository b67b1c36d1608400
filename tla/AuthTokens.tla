----------------------------- MODULE AuthTokens -----------------------------
(***************************************************************************)
(* admin-api's AuthService for one user: registration, login, rotation of  *)
(* refresh tokens, logout, and what an access token is good for after the  *)
(* session it came from is gone.  A handler runs from one awaited call to  *)
(* the next.                                                               *)
(*                                                                         *)
(*    register:  arrived -> create -> issue -> ok                          *)
(*    login:     arrived -> issue -> ok                                    *)
(*    refresh:   arrived -> findUser -> revoke -> issue -> ok              *)
(*    others:    arrived -> ok                                             *)
(*                                                                         *)
(* Tokens and calls are names that are used again when nothing refers to   *)
(* them any more; sessions and requests go on without end.                 *)
(***************************************************************************)
EXTENDS Integers, FiniteSets

CONSTANTS
    Tokens,  \* token pairs: a refresh token and the access token issued with it
    Calls,   \* HTTP requests in progress
    None     \* no token, no call

ASSUME NoTokenAssumption == None \notin Tokens \cup Calls

VARIABLES
    account,      \* the User row: "none", or its isActive
    tokenRow,     \* the RefreshToken rows: "revoked" by rotation or logout; "none" is no
                  \* row, or one that expired or that logout-all revoked
    accessFresh,  \* the pairs whose access token has not expired
    call          \* each request: where its handler is, what it carries, what it answers

serverVars == <<account, tokenRow, accessFresh>>

Kinds == {"register", "login", "refresh", "logout", "query"}
Answers == {"ok", "unauthorized", "failed"}
HandlerPc == {"arrived", "create", "findUser", "revoke", "issue"}

NoCall == [pc |-> "idle", kind |-> "query", body |-> None, bearer |-> None, issued |-> None]

AuthTypeOK ==
    /\ account \in {"none", "active", "inactive"}
    /\ tokenRow \in [Tokens -> {"none", "live", "revoked"}]
    /\ accessFresh \subseteq Tokens
    /\ call \in [Calls -> [pc : {"idle"} \cup HandlerPc \cup Answers, kind : Kinds,
                           body : Tokens \cup {None}, bearer : Tokens \cup {None},
                           issued : Tokens \cup {None}]]

AuthInit ==
    /\ account \in {"none", "active"}
    /\ tokenRow \in [Tokens -> {"none", "live"}]
    /\ account = "none" => \A t \in Tokens : tokenRow[t] = "none"
    /\ accessFresh = {}
    /\ call = [c \in Calls |-> NoCall]

\* What a client sends on call c; only the routes behind JwtAuthGuard look at
\* the access token.
Message(kind, body, bearer) ==
    [NoCall EXCEPT !.pc = "arrived", !.kind = kind, !.body = body,
                   !.bearer = IF kind \in {"logout", "query"} THEN bearer ELSE None]

Continue(c, pc) == call' = [call EXCEPT ![c].pc = pc]
Answer(c, answer, t) == call' = [call EXCEPT ![c] = [NoCall EXCEPT !.pc = answer, !.issued = t]]

\* The handler goes on at pc, or answers with it.
HandlerGoto(c, pc) ==
    /\ IF pc \in Answers THEN Answer(c, pc, None) ELSE Continue(c, pc)
    /\ UNCHANGED serverVars

Arrived(c, kind) == call[c].pc = "arrived" /\ call[c].kind = kind

----------------------------------------------------------------------------
(* register and login.                                                     *)

RegisterFind(c) ==
    /\ Arrived(c, "register")
    /\ HandlerGoto(c, IF account = "none" THEN "create" ELSE "failed")

\* user.create fails if the address was registered in the meantime.
RegisterCreate(c) ==
    /\ call[c].pc = "create"
    /\ \/ /\ account = "none" /\ account' = "active"
          /\ Continue(c, "issue")
          /\ UNCHANGED <<tokenRow, accessFresh>>
       \/ account # "none" /\ HandlerGoto(c, "failed")

\* No such user, a wrong password, or a deactivated account: 401.
Login(c) ==
    /\ Arrived(c, "login")
    /\ \/ HandlerGoto(c, "unauthorized")
       \/ account = "active" /\ HandlerGoto(c, "issue")

----------------------------------------------------------------------------
(* refresh.                                                                *)

\* The token is verified and its row found: live, or 401.
FindToken(c) ==
    /\ Arrived(c, "refresh")
    /\ HandlerGoto(c, IF tokenRow[call[c].body] = "live" THEN "findUser" ELSE "unauthorized")

\* As FindUser without the check of isActive.
FindAnyUser(c) ==
    /\ call[c].pc = "findUser"
    /\ HandlerGoto(c, "revoke")

FindUser(c) ==
    /\ call[c].pc = "findUser"
    /\ HandlerGoto(c, IF account = "active" THEN "revoke" ELSE "unauthorized")

\* The row is written by its id, whatever it holds by now; the token is not
\* needed any more.
RevokeUsed(c) ==
    /\ call[c].pc = "revoke"
    /\ tokenRow' = [tokenRow EXCEPT ![call[c].body] = "revoked"]
    /\ call' = [call EXCEPT ![c].pc = "issue", ![c].body = None]
    /\ UNCHANGED <<account, accessFresh>>

\* issueTokenPair: t is a pair that was never issued before.
IssueTokenPair(c, t) ==
    /\ call[c].pc = "issue"
    /\ tokenRow' = [tokenRow EXCEPT ![t] = "live"]
    /\ accessFresh' = accessFresh \cup {t}
    /\ Answer(c, "ok", t)
    /\ UNCHANGED account

----------------------------------------------------------------------------
(* Calls behind JwtAuthGuard, which looks at nothing but the access token. *)

Query(c) ==
    /\ Arrived(c, "query")
    /\ HandlerGoto(c, IF call[c].bearer \in accessFresh THEN "ok" ELSE "unauthorized")

RefuseLogout(c) ==
    /\ Arrived(c, "logout")
    /\ call[c].bearer \notin accessFresh
    /\ HandlerGoto(c, "unauthorized")

\* logout: the row of the token in the body is revoked if it is not yet.
Logout(c) ==
    /\ Arrived(c, "logout")
    /\ call[c].bearer \in accessFresh
    /\ tokenRow' = [tokenRow EXCEPT ![call[c].body] = IF @ = "live" THEN "revoked" ELSE @]
    /\ Answer(c, "ok", None)
    /\ UNCHANGED <<account, accessFresh>>

\* logoutAllDevices, called from another device of the user.
LogoutAllDevices ==
    /\ tokenRow' = [t \in Tokens |-> IF tokenRow[t] = "live" THEN "none" ELSE tokenRow[t]]
    /\ UNCHANGED <<account, accessFresh, call>>

\* adminUpdate: an administrator deactivates or activates the account.
AdminUpdate ==
    /\ account # "none"
    /\ account' = IF account = "active" THEN "inactive" ELSE "active"
    /\ UNCHANGED <<tokenRow, accessFresh, call>>

----------------------------------------------------------------------------
(* Time.                                                                   *)

ExpireAccess(t) ==
    /\ t \in accessFresh
    /\ accessFresh' = accessFresh \ {t}
    /\ UNCHANGED <<account, tokenRow, call>>

\* A refresh token outlives the access token issued with it.
ExpireToken(t) ==
    /\ tokenRow[t] = "live" /\ t \notin accessFresh
    /\ tokenRow' = [tokenRow EXCEPT ![t] = "none"]
    /\ UNCHANGED <<account, accessFresh, call>>

HandlerStep(c) ==
    \/ RegisterFind(c)
    \/ RegisterCreate(c)
    \/ Login(c)
    \/ FindToken(c)
    \/ FindUser(c)
    \/ RevokeUsed(c)
    \/ Query(c)
    \/ RefuseLogout(c)
    \/ Logout(c)

\* The process dies, or a call of the handler to the database fails.
HandlerFails(c) ==
    /\ call[c].pc \in HandlerPc
    /\ HandlerGoto(c, "failed")
============================================================================
