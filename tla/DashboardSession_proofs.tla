---------------------- MODULE DashboardSession_proofs ----------------------
(***************************************************************************)
(* The session of one tab, for any number of tokens, connections, queries, *)
(* forms and faults: the types, and StoreNotSpent.  The argument follows   *)
(* the tokens: one that was issued is in one answer only until it is       *)
(* stored, and one in the store that is spent, or may be spent by a        *)
(* request under way, is about to be replaced or forgotten.                *)
(***************************************************************************)
EXTENDS DashboardSession, TLAPS

CallType ==
    [pc : {"idle"} \cup HandlerPc \cup Answers, kind : Kinds, body : Tokens \cup {None},
     bearer : Tokens \cup {None}, issued : Tokens \cup {None}]

ThreadType ==
    [pc : {"idle", "start", "sent", "waiting", "resend", "rejected"}, kind : Kinds,
     body : Tokens \cup {None}, retried : BOOLEAN, call : Calls \cup {None}]

\* An activity has connections of its own.  Only a logout and the refresh of a
\* restore carry a token.
ActivityOK(h) ==
    /\ thread[h].call \in ({h} \X Slots) \cup {None}
    /\ thread[h].body # None => h \in Logouts \/ (h = "restore" /\ thread[h].kind = "refresh")
    /\ thread[h].pc = "sent" => thread[h].call # None
    /\ thread[h].pc = "waiting" => refreshCall # None

\* The shared refresh has connections of its own as well.
PageTypes ==
    /\ {accessToken, refreshToken} \subseteq Tokens \cup {None}
    /\ user \in BOOLEAN /\ isInitializing \in BOOLEAN
    /\ formsLeft \in 0 .. MaxForms /\ faultsLeft \in 0 .. MaxFaults
    /\ thread \in [Threads -> ThreadType]
    /\ refreshCall \in ({"refresh"} \X Slots) \cup {None}
    /\ \A h \in Threads : ActivityOK(h)

RefreshUnderWay == refreshCall # None => call[refreshCall].pc # "idle"

\* Something is under way that ends with another token in the store, or none.
Replacing ==
    \/ refreshCall # None
    \/ \E o \in Logouts : thread[o].pc # "idle"
    \/ thread["restore"].pc = "start"
    \/ thread["restore"].pc # "idle" /\ thread["restore"].kind = "refresh"

\* The token is revoked, or a request under way may revoke it.
Spent(t) == tokenRow[t] = "revoked" \/ \E c \in Calls : call[c].body = t

StoreInv == refreshToken # None /\ Spent(refreshToken) => Replacing

\* A token that was issued and has yet to be stored is known to its answer alone.
IssuedInv ==
    \A c \in Calls : LET t == call[c].issued IN t # None =>
        /\ ~Spent(t) /\ t # refreshToken
        /\ \A h \in Threads : thread[h].body # t
        /\ \A d \in Calls \ {c} : call[d].issued # t

SessionInv == AuthTypeOK /\ PageTypes /\ RefreshUnderWay /\ StoreInv /\ IssuedInv

----------------------------------------------------------------------------
(* Requests and answers.                                                   *)

LEMMA CallTypes ==
    /\ NoCall \in CallType /\ NoCall.pc = "idle" /\ NoCall.body = None /\ NoCall.issued = None
    /\ \A answer \in Answers, t \in Tokens \cup {None} :
          LET m == [NoCall EXCEPT !.pc = answer, !.issued = t]
          IN  m \in CallType /\ m.pc = answer /\ m.body = None /\ m.issued = t
<1>1. /\ NoCall \in CallType /\ NoCall.pc = "idle" /\ NoCall.body = None /\ NoCall.issued = None
    BY DEF NoCall, CallType, Kinds
<1>2. ASSUME NEW answer \in Answers, NEW t \in Tokens \cup {None}
      PROVE  LET m == [NoCall EXCEPT !.pc = answer, !.issued = t]
             IN  m \in CallType /\ m.pc = answer /\ m.body = None /\ m.issued = t
    BY <1>1 DEF CallType
<1>. QED
    BY <1>1, <1>2

LEMMA MessageTypes ==
    ASSUME NEW kind \in Kinds, NEW body \in Tokens \cup {None}, NEW bearer \in Tokens \cup {None}
    PROVE  /\ Message(kind, body, bearer) \in CallType
           /\ Message(kind, body, bearer).pc = "arrived"
           /\ Message(kind, body, bearer).body = body
           /\ Message(kind, body, bearer).issued = None
BY CallTypes DEF Message, CallType, HandlerPc

LEMMA ThreadTypes ==
    /\ Idle \in ThreadType /\ Idle.pc = "idle" /\ Idle.body = None /\ Idle.call = None
    /\ LET m == [Idle EXCEPT !.pc = "start"]
       IN  m \in ThreadType /\ m.pc = "start" /\ m.body = None /\ m.call = None
    /\ "restore" \in Threads /\ "refresh" \notin Threads
    /\ Logins \cup Logouts \cup Queries \subseteq Threads \ {"restore"}
    /\ Logouts \cap (Logins \cup Queries) = {}
    /\ None \notin Calls /\ None \notin Tokens
    /\ \A h \in Threads : {h} \X Slots \subseteq Calls
    /\ {"refresh"} \X Slots \subseteq Calls
<1>1. Idle \in ThreadType /\ Idle.pc = "idle" /\ Idle.body = None /\ Idle.call = None
    BY DEF Idle, ThreadType, Kinds
<1>2. LET m == [Idle EXCEPT !.pc = "start"]
      IN  m \in ThreadType /\ m.pc = "start" /\ m.body = None /\ m.call = None
    BY <1>1 DEF ThreadType
<1>3. /\ "restore" \in Threads /\ "refresh" \notin Threads
      /\ Logins \cup Logouts \cup Queries \subseteq Threads \ {"restore"}
      /\ Logouts \cap (Logins \cup Queries) = {}
    BY ThreadsAssumption DEF Threads
<1>. QED
    BY <1>1, <1>2, <1>3, CallsAssumption, NoTokenAssumption

----------------------------------------------------------------------------
(* The server.                                                             *)

\* What the server does to a call, to the rows, and to nothing of the page.
ServerMove(d) ==
    /\ call'[d] \in CallType
    /\ call'[d].body \in {call[d].body, None}
    /\ call'[d].issued \in {call[d].issued, None}
    /\ call'[d].pc = "idle" => call[d].pc = "idle" \/ ~Waited(d)

Issues(d, t) ==
    /\ t \in FreeTokens /\ tokenRow'[t] = "live"
    /\ call'[d] \in CallType /\ call'[d].pc # "idle"
    /\ call'[d].body = None /\ call'[d].issued = t

LEMMA AnswerMoves ==
    ASSUME call \in [Calls -> CallType], NEW c \in Calls, NEW answer \in Answers,
           NEW t \in Tokens \cup {None}, Answer(c, answer, t)
    PROVE  /\ call' \in [Calls -> CallType]
           /\ call'[c].pc = answer /\ call'[c].body = None /\ call'[c].issued = t
           /\ \A d \in Calls \ {c} : call'[d] = call[d]
<1> DEFINE m == [NoCall EXCEPT !.pc = answer, !.issued = t]
<1>1. m \in CallType /\ m.pc = answer /\ m.body = None /\ m.issued = t
    BY CallTypes
<1>2. call' = [call EXCEPT ![c] = m]
    BY DEF Answer
<1> HIDE DEF m
<1>. QED
    BY <1>1, <1>2

LEMMA GotoMoves ==
    ASSUME AuthTypeOK, NEW c \in Calls, NEW pc \in HandlerPc \cup Answers, HandlerGoto(c, pc)
    PROVE  /\ call' \in [Calls -> CallType] /\ \A d \in Calls : ServerMove(d)
           /\ UNCHANGED serverVars
<1>0. call \in [Calls -> CallType]
    BY DEF AuthTypeOK, CallType
<1>1. CASE Continue(c, pc) /\ pc \in HandlerPc
    <2>1. /\ call' \in [Calls -> CallType] /\ call'[c].pc = pc
          /\ call'[c].body = call[c].body /\ call'[c].issued = call[c].issued
          /\ \A d \in Calls \ {c} : call'[d] = call[d]
        BY <1>0, <1>1 DEF Continue, CallType
    <2>2. ASSUME NEW d \in Calls
          PROVE  ServerMove(d)
        BY <1>1, <2>1 DEF ServerMove, HandlerPc
    <2>. QED
        BY <1>1, <2>1, <2>2 DEF HandlerGoto, HandlerPc, Answers
<1>2. CASE Answer(c, pc, None) /\ pc \in Answers
    <2>1. /\ call' \in [Calls -> CallType]
          /\ call'[c].pc = pc /\ call'[c].body = None /\ call'[c].issued = None
          /\ \A d \in Calls \ {c} : call'[d] = call[d]
        BY <1>0, <1>2, AnswerMoves
    <2>2. ASSUME NEW d \in Calls
          PROVE  ServerMove(d)
        BY <1>2, <2>1 DEF ServerMove, Answers
    <2>. QED
        BY <2>1, <2>2 DEF HandlerGoto
<1>. QED
    BY <1>1, <1>2 DEF HandlerGoto

LEMMA HandlerMoves ==
    ASSUME AuthTypeOK, NEW c \in Calls, HandlerStep(c) \/ HandlerFails(c)
    PROVE  /\ AuthTypeOK' /\ \A d \in Calls : ServerMove(d)
           /\ \A t \in Tokens : tokenRow'[t] = "revoked" => Spent(t)
<1>0. call \in [Calls -> CallType]
    BY DEF AuthTypeOK, CallType
<1>1. ASSUME NEW pc \in HandlerPc \cup Answers, HandlerGoto(c, pc)
      PROVE  /\ AuthTypeOK' /\ \A d \in Calls : ServerMove(d)
             /\ \A t \in Tokens : tokenRow'[t] = "revoked" => Spent(t)
    BY <1>1, GotoMoves DEF AuthTypeOK, CallType, serverVars, Spent
<1>2. CASE RevokeUsed(c)
    <2>1. call' \in [Calls -> CallType] /\ \A d \in Calls : ServerMove(d)
        BY <1>0, <1>2 DEF RevokeUsed, CallType, ServerMove, HandlerPc
    <2>2. tokenRow' \in [Tokens -> {"none", "live", "revoked"}] /\ UNCHANGED <<account, accessFresh>>
        BY <1>2 DEF RevokeUsed, AuthTypeOK
    <2>3. \A t \in Tokens : tokenRow'[t] = "revoked" => Spent(t)
        BY <1>2 DEF RevokeUsed, AuthTypeOK, Spent
    <2>. QED
        BY <2>1, <2>2, <2>3 DEF AuthTypeOK, CallType
<1>3. CASE Logout(c)
    <2>1. /\ call' \in [Calls -> CallType]
          /\ call'[c].pc = "ok" /\ call'[c].body = None /\ call'[c].issued = None
          /\ \A d \in Calls \ {c} : call'[d] = call[d]
        BY <1>0, <1>3, AnswerMoves DEF Logout, Answers
    <2>2. \A d \in Calls : call'[d] \in CallType /\ call[d] \in CallType
        BY <1>0, <2>1
    <2>3. \A d \in Calls : ServerMove(d)
        BY <2>1, <2>2 DEF ServerMove
    <2>4. tokenRow' \in [Tokens -> {"none", "live", "revoked"}] /\ UNCHANGED <<account, accessFresh>>
        BY <1>3 DEF Logout, AuthTypeOK
    <2>5. \A t \in Tokens : tokenRow'[t] = "revoked" => Spent(t)
        BY <1>3 DEF Logout, AuthTypeOK, Spent
    <2>. QED
        BY <2>1, <2>3, <2>4, <2>5 DEF AuthTypeOK, CallType
<1>4. CASE RegisterCreate(c)
    <2>1. CASE Continue(c, "issue") /\ account' = "active" /\ UNCHANGED <<tokenRow, accessFresh>>
        <3>1. call' \in [Calls -> CallType] /\ \A d \in Calls : ServerMove(d)
            BY <1>0, <2>1 DEF Continue, CallType, ServerMove, HandlerPc
        <3>. QED
            BY <2>1, <3>1 DEF AuthTypeOK, CallType, Spent
    <2>2. CASE HandlerGoto(c, "failed")
        BY <1>1, <2>2 DEF Answers
    <2>. QED
        BY <1>4, <2>1, <2>2 DEF RegisterCreate
<1>5. CASE RegisterFind(c) \/ FindToken(c) \/ FindUser(c)
    <2>1. \E pc \in HandlerPc \cup Answers : HandlerGoto(c, pc)
        BY <1>5 DEF RegisterFind, FindToken, FindUser, HandlerPc, Answers
    <2>. QED
        BY <1>1, <2>1
<1>6. CASE Login(c) \/ Query(c) \/ RefuseLogout(c) \/ HandlerFails(c)
    <2>1. \E pc \in HandlerPc \cup Answers : HandlerGoto(c, pc)
        BY <1>6 DEF Login, Query, RefuseLogout, HandlerFails, HandlerPc, Answers
    <2>. QED
        BY <1>1, <2>1
<1>. QED
    BY <1>2, <1>3, <1>4, <1>5, <1>6 DEF HandlerStep

LEMMA IssueMoves ==
    ASSUME AuthTypeOK, NEW c \in Calls, NEW t \in FreeTokens, IssueTokenPair(c, t)
    PROVE  /\ AuthTypeOK' /\ Issues(c, t) /\ \A d \in Calls \ {c} : call'[d] = call[d]
           /\ \A u \in Tokens : tokenRow'[u] = "revoked" => Spent(u)
<1>0. t \in Tokens /\ call \in [Calls -> CallType]
    BY DEF FreeTokens, AuthTypeOK, CallType
<1>1. /\ call' \in [Calls -> CallType]
      /\ call'[c].pc = "ok" /\ call'[c].body = None /\ call'[c].issued = t
      /\ \A d \in Calls \ {c} : call'[d] = call[d]
    BY <1>0, AnswerMoves DEF IssueTokenPair, Answers
<1>2. /\ tokenRow' \in [Tokens -> {"none", "live", "revoked"}] /\ tokenRow'[t] = "live"
      /\ account' = account /\ accessFresh' \subseteq Tokens
      /\ \A u \in Tokens : tokenRow'[u] = "revoked" => Spent(u)
    BY <1>0 DEF IssueTokenPair, AuthTypeOK, Spent
<1>3. call'[c] \in CallType
    BY <1>1
<1>4. AuthTypeOK'
    BY <1>1, <1>2 DEF AuthTypeOK, CallType
<1>. QED
    BY <1>1, <1>2, <1>3, <1>4 DEF Issues

\* Nothing that the server does spends the token of a tab at rest, and an answer
\* that somebody waits for stays.
LEMMA ServerStep ==
    ASSUME SessionInv, UNCHANGED <<thread, refreshCall, refreshToken>>,
           \A t \in Tokens : tokenRow'[t] = "revoked" => Spent(t),
           \A d \in Calls : ServerMove(d) \/ \E t \in Tokens : Issues(d, t)
    PROVE  /\ RefreshUnderWay' /\ StoreInv'
           /\ (\A d \in Calls : ServerMove(d)) => IssuedInv'
<1> USE DEF SessionInv
<1>1. ASSUME NEW t \in Tokens, Spent(t)'
      PROVE  Spent(t)
    BY <1>1, ThreadTypes DEF Spent, ServerMove, Issues
<1>2. RefreshUnderWay'
    BY ThreadTypes DEF RefreshUnderWay, PageTypes, ActivityOK, ServerMove, Issues, Waited
<1>3. StoreInv'
    BY <1>1 DEF StoreInv, Replacing, PageTypes
<1>4. ASSUME \A d \in Calls : ServerMove(d)
      PROVE  IssuedInv'
    <2> SUFFICES ASSUME NEW c \in Calls, NEW t, t = call'[c].issued, t # None
                 PROVE  /\ ~Spent(t)' /\ t # refreshToken
                        /\ \A h \in Threads : thread[h].body # t
                        /\ \A d \in Calls \ {c} : call'[d].issued # t
        BY DEF IssuedInv
    <2>1. t = call[c].issued /\ t \in Tokens
        BY <1>4 DEF ServerMove, CallType
    <2>2. \A d \in Calls \ {c} : call'[d].issued # t
        BY <1>4, <2>1 DEF ServerMove, IssuedInv
    <2>. QED
        BY <1>1, <2>1, <2>2 DEF IssuedInv
<1>. QED
    BY <1>2, <1>3, <1>4

\* A pair that is issued was nobody's before.
LEMMA IssueStep ==
    ASSUME SessionInv, NEW c \in Calls, NEW t \in FreeTokens, IssueTokenPair(c, t),
           UNCHANGED <<ClientVars, boundVars>>
    PROVE  SessionInv'
<1> USE DEF SessionInv
<1>1. /\ AuthTypeOK' /\ Issues(c, t) /\ \A d \in Calls \ {c} : call'[d] = call[d]
      /\ \A u \in Tokens : tokenRow'[u] = "revoked" => Spent(u)
    BY IssueMoves
<1>2. call \in [Calls -> CallType]
    BY DEF AuthTypeOK, CallType
<1>3. ASSUME NEW d \in Calls
      PROVE  ServerMove(d) \/ \E u \in Tokens : Issues(d, u)
    <2>1. CASE d = c
        BY <1>1, <2>1 DEF FreeTokens
    <2>2. CASE d # c
        BY <1>1, <1>2, <2>2 DEF ServerMove
    <2>. QED
        BY <2>1, <2>2
<1>4. RefreshUnderWay' /\ StoreInv'
    BY <1>1, <1>3, ServerStep DEF ClientVars, storeVars
<1>5. PageTypes'
    BY DEF PageTypes, ActivityOK, ClientVars, storeVars, pageVars, boundVars
<1>6. /\ t \in Tokens /\ t # None /\ t # refreshToken
      /\ \A d \in Calls : call[d].body # t /\ call[d].issued # t
      /\ \A h \in Threads : thread[h].body # t
    BY NoTokenAssumption DEF FreeTokens
<1>7. IssuedInv'
    <2>1. UNCHANGED <<thread, refreshToken>>
        BY DEF ClientVars, storeVars
    <2>2. ASSUME NEW u \in Tokens, Spent(u)'
          PROVE  Spent(u) /\ u # t
        BY <1>1, <1>6, <2>2, NoTokenAssumption DEF Spent, Issues
    <2>3. ASSUME NEW d \in Calls, NEW u, u = call'[d].issued, u # None
          PROVE  /\ ~Spent(u)' /\ u # refreshToken'
                 /\ \A h \in Threads : thread'[h].body # u
                 /\ \A e \in Calls \ {d} : call'[e].issued # u
        <3>1. CASE d = c
            BY <1>1, <1>6, <2>1, <2>2, <2>3, <3>1 DEF Issues
        <3>2. CASE d # c
            <4>1. u = call[d].issued /\ u \in Tokens
                BY <1>1, <1>2, <2>3, <3>2 DEF CallType
            <4>2. /\ ~Spent(u) /\ u # refreshToken /\ \A h \in Threads : thread[h].body # u
                  /\ \A e \in Calls \ {d} : call[e].issued # u
                BY <2>3, <4>1 DEF IssuedInv
            <4>3. \A e \in Calls \ {d} : call'[e].issued # u
                BY <1>1, <1>6, <3>2, <4>1, <4>2 DEF Issues
            <4>. QED
                BY <2>1, <2>2, <4>1, <4>2, <4>3
        <3>. QED
            BY <3>1, <3>2
    <2>. QED
        BY <2>3 DEF IssuedInv
<1>. QED
    BY <1>1, <1>4, <1>5, <1>7

\* Every step of the server, of time, and of a request that nobody waits for.
LEMMA ServerSteps ==
    ASSUME SessionInv,
           \/ \E c \in Calls : Handler(c)
           \/ \E c \in Calls : Fault /\ HandlerFails(c) /\ UNCHANGED <<ClientVars, formsLeft>>
           \/ \E c \in Calls : Unheard(c)
           \/ Fault /\ LogoutAllDevices /\ UNCHANGED <<ClientVars, formsLeft>>
           \/ AdminUpdate /\ UNCHANGED <<ClientVars, boundVars>>
           \/ \E t \in Tokens : Expire(t)
    PROVE  SessionInv'
<1> USE DEF SessionInv
<1>0. call \in [Calls -> CallType]
    BY DEF AuthTypeOK, CallType
<1>1. ASSUME AuthTypeOK', \A d \in Calls : ServerMove(d),
             \A t \in Tokens : tokenRow'[t] = "revoked" => Spent(t),
             \/ UNCHANGED <<ClientVars, boundVars>>
             \/ Fault /\ UNCHANGED <<ClientVars, formsLeft>>
      PROVE  SessionInv'
    <2>1. RefreshUnderWay' /\ StoreInv' /\ IssuedInv'
        BY <1>1, ServerStep DEF ClientVars, storeVars
    <2>2. PageTypes'
        BY <1>1, BoundsAssumption DEF PageTypes, ActivityOK, ClientVars, storeVars, pageVars, boundVars, Fault
    <2>. QED
        BY <1>1, <2>1, <2>2
<1>2. ASSUME NEW c \in Calls, Handler(c)
      PROVE  SessionInv'
    <2>1. CASE HandlerStep(c)
        BY <1>1, <1>2, <2>1, HandlerMoves DEF Handler
    <2>2. CASE FreeTokens # {} /\ IssueTokenPair(c, CHOOSE t \in FreeTokens : TRUE)
        BY <1>2, <2>2, IssueStep DEF Handler
    <2>. QED
        BY <1>2, <2>1, <2>2 DEF Handler
<1>3. ASSUME NEW c \in Calls, Fault, HandlerFails(c), UNCHANGED <<ClientVars, formsLeft>>
      PROVE  SessionInv'
    BY <1>1, <1>3, HandlerMoves
<1>4. ASSUME NEW c \in Calls, Unheard(c)
      PROVE  SessionInv'
    <2>1. call' \in [Calls -> CallType] /\ call'[c] = NoCall /\ \A d \in Calls \ {c} : call'[d] = call[d]
        BY <1>0, <1>4, CallTypes DEF Unheard, HangUp
    <2>2. ASSUME NEW d \in Calls
          PROVE  ServerMove(d)
        BY <1>4, <2>1, CallTypes DEF ServerMove, Unheard
    <2>3. AuthTypeOK' /\ \A t \in Tokens : tokenRow'[t] = "revoked" => Spent(t)
        BY <1>4, <2>1 DEF Unheard, AuthTypeOK, CallType, serverVars, Spent
    <2>. QED
        BY <1>1, <1>4, <2>2, <2>3 DEF Unheard, ClientVars, boundVars
<1>5. ASSUME UNCHANGED call
      PROVE  \A d \in Calls : ServerMove(d)
    BY <1>0, <1>5 DEF ServerMove
<1>6. ASSUME Fault, LogoutAllDevices, UNCHANGED <<ClientVars, formsLeft>>
      PROVE  SessionInv'
    <2>1. AuthTypeOK' /\ \A t \in Tokens : tokenRow'[t] = "revoked" => Spent(t)
        BY <1>6 DEF LogoutAllDevices, AuthTypeOK, Spent
    <2>. QED
        BY <1>1, <1>5, <1>6, <2>1 DEF LogoutAllDevices
<1>7. ASSUME AdminUpdate, UNCHANGED <<ClientVars, boundVars>>
      PROVE  SessionInv'
    <2>1. AuthTypeOK' /\ \A t \in Tokens : tokenRow'[t] = "revoked" => Spent(t)
        BY <1>7 DEF AdminUpdate, AuthTypeOK, Spent
    <2>. QED
        BY <1>1, <1>5, <1>7, <2>1 DEF AdminUpdate
<1>8. ASSUME NEW t \in Tokens, Expire(t)
      PROVE  SessionInv'
    <2>1. AuthTypeOK' /\ UNCHANGED call /\ \A u \in Tokens : tokenRow'[u] = "revoked" => Spent(u)
        BY <1>8 DEF Expire, ExpireAccess, ExpireToken, AuthTypeOK, Spent
    <2>. QED
        BY <1>1, <1>5, <1>8, <2>1 DEF Expire
<1>. QED
    BY <1>2, <1>3, <1>4, <1>6, <1>7, <1>8

----------------------------------------------------------------------------
(* The page.                                                               *)

\* What a step of the page does to a call: it drops it, or sends on it one of
\* the tokens it has in hand, while something is under way that replaces it.
Sends(d) ==
    /\ call'[d].issued \in {None, call[d].issued}
    /\ \/ call'[d].body \in {None, call[d].body}
       \/ /\ Replacing'
          /\ call'[d].body = refreshToken \/ \E h \in Threads : call'[d].body = thread[h].body

\* The store is kept, cleared, or takes what an answer that is used up brought.
Stores ==
    \/ refreshToken' = None
    \/ refreshToken' = refreshToken /\ (Replacing => Replacing')
    \/ \E c \in Calls : refreshToken' = call[c].issued /\ call'[c].issued = None

PageMove ==
    /\ AuthTypeOK' /\ PageTypes' /\ RefreshUnderWay'
    /\ UNCHANGED tokenRow
    /\ \A d \in Calls : Sends(d)
    /\ \A h \in Threads : thread'[h].body \in {None, thread[h].body, refreshToken}
    /\ Stores

LEMMA PageMoves ==
    ASSUME SessionInv, PageMove
    PROVE  SessionInv'
<1> USE DEF SessionInv
<1>0. /\ call' \in [Calls -> CallType] /\ call \in [Calls -> CallType]
      /\ refreshToken \in Tokens \cup {None} /\ refreshToken' \in Tokens \cup {None}
    BY DEF PageMove, PageTypes, AuthTypeOK, CallType
<1>1. ASSUME NEW t \in Tokens, Spent(t)', ~Spent(t)
      PROVE  Replacing' /\ (t = refreshToken \/ \E h \in Threads : thread[h].body = t)
    BY <1>1, NoTokenAssumption DEF PageMove, Sends, Spent
<1>2. StoreInv'
    <2> SUFFICES ASSUME refreshToken' # None, Spent(refreshToken)', ~Replacing'
                 PROVE  FALSE
        BY DEF StoreInv
    <2>1. Spent(refreshToken')
        BY <1>0, <1>1
    <2>2. CASE refreshToken' = refreshToken /\ (Replacing => Replacing')
        BY <2>1, <2>2 DEF StoreInv
    <2>3. CASE \E c \in Calls : refreshToken' = call[c].issued /\ call'[c].issued = None
        BY <2>1, <2>3 DEF IssuedInv
    <2>. QED
        BY <2>2, <2>3 DEF PageMove, Stores
<1>3. IssuedInv'
    <2> SUFFICES ASSUME NEW d \in Calls, NEW t, t = call'[d].issued, t # None
                 PROVE  /\ ~Spent(t)' /\ t # refreshToken'
                        /\ \A h \in Threads : thread'[h].body # t
                        /\ \A e \in Calls \ {d} : call'[e].issued # t
        BY DEF IssuedInv
    <2>1. t = call[d].issued /\ t \in Tokens
        BY <1>0 DEF PageMove, Sends, CallType
    <2>2. /\ ~Spent(t) /\ t # refreshToken /\ \A h \in Threads : thread[h].body # t
          /\ \A e \in Calls \ {d} : call[e].issued # t
        BY <2>1 DEF IssuedInv
    <2>3. ~Spent(t)'
        BY <1>1, <2>1, <2>2
    <2>4. t # refreshToken'
        BY <2>1, <2>2 DEF PageMove, Stores
    <2>5. \A h \in Threads : thread'[h].body # t
        BY <2>2 DEF PageMove
    <2>6. \A e \in Calls \ {d} : call'[e].issued # t
        BY <2>2 DEF PageMove, Sends
    <2>. QED
        BY <2>3, <2>4, <2>5, <2>6
<1>. QED
    BY <1>2, <1>3 DEF PageMove

\* A step of one activity, which may start the shared refresh.
LEMMA ActivityStep ==
    ASSUME SessionInv, NEW h \in Threads, UNCHANGED serverVars,
           call' \in [Calls -> CallType], \A d \in Calls : Sends(d),
           thread' \in [Threads -> ThreadType], ActivityOK(h)',
           \A g \in Threads \ {h} : thread'[g] = thread[g],
           thread'[h].body \in {None, thread[h].body, refreshToken},
           \/ refreshCall' = refreshCall /\ \A d \in {"refresh"} \X Slots : call'[d] = call[d]
           \/ /\ refreshCall = None /\ refreshCall' \in {"refresh"} \X Slots
              /\ call'[refreshCall'].pc # "idle",
           {accessToken', refreshToken'} \subseteq Tokens \cup {None}, Stores,
           user' \in BOOLEAN, isInitializing' \in BOOLEAN,
           formsLeft' \in 0 .. MaxForms, faultsLeft' \in 0 .. MaxFaults
    PROVE  SessionInv'
<1> USE DEF SessionInv
<1>1. AuthTypeOK' /\ UNCHANGED tokenRow
    BY DEF AuthTypeOK, CallType, serverVars
<1>2. /\ refreshCall' \in ({"refresh"} \X Slots) \cup {None}
      /\ refreshCall # None => refreshCall' # None
    BY ThreadTypes DEF PageTypes
<1>3. ASSUME NEW g \in Threads \ {h}
      PROVE  ActivityOK(g)'
    BY <1>2 DEF PageTypes, ActivityOK
<1>4. PageTypes'
    BY <1>2, <1>3 DEF PageTypes
<1>5. RefreshUnderWay'
    BY ThreadTypes DEF RefreshUnderWay, PageTypes
<1>6. \A g \in Threads : thread'[g].body \in {None, thread[g].body, refreshToken}
    OBVIOUS
<1>. QED
    BY <1>1, <1>4, <1>5, <1>6, PageMoves DEF PageMove

LEMMA HangUpMoves ==
    ASSUME SessionInv, NEW c, HangUp(c)
    PROVE  /\ call' \in [Calls -> CallType] /\ \A d \in Calls : Sends(d)
           /\ c \in Calls => call'[c] = NoCall
           /\ \A d \in Calls \ {c} : call'[d] = call[d]
<1>1. call \in [Calls -> CallType]
    BY DEF SessionInv, AuthTypeOK, CallType
<1>2. /\ call' \in [Calls -> CallType]
      /\ c \in Calls => call'[c] = NoCall
      /\ \A d \in Calls \ {c} : call'[d] = call[d]
    BY <1>1, CallTypes DEF HangUp
<1>. QED
    BY <1>2, CallTypes DEF Sends

\* The calls of an activity are not those of the shared refresh.
LEMMA OwnCalls ==
    ASSUME SessionInv, NEW h \in Threads
    PROVE  /\ thread[h].call \notin {"refresh"} \X Slots
           /\ thread[h].pc = "sent" => thread[h].call \in Calls
           /\ FreeCalls(h) # {} => FreeCall(h) \in {h} \X Slots /\ call[FreeCall(h)].pc = "idle"
           /\ {h} \X Slots \subseteq Calls
<1>1. thread[h].call \in ({h} \X Slots) \cup {None} /\ h # "refresh"
    BY ThreadTypes DEF SessionInv, PageTypes, ActivityOK
<1>2. ASSUME FreeCalls(h) # {}
      PROVE  FreeCall(h) \in FreeCalls(h)
    BY <1>2 DEF FreeCall
<1>3. thread[h].pc = "sent" => thread[h].call \in Calls
    BY ThreadTypes, <1>1 DEF SessionInv, PageTypes, ActivityOK
<1>. QED
    BY <1>1, <1>2, <1>3, ThreadTypes DEF FreeCalls

LEMMA GoingMoves ==
    ASSUME SessionInv, NEW h \in Threads, Return(h) \/ \E pc \in {"rejected", "waiting"} : Goto(h, pc)
    PROVE  /\ thread' \in [Threads -> ThreadType] /\ \A g \in Threads \ {h} : thread'[g] = thread[g]
           /\ thread'[h].call \in {None, thread[h].call}
           /\ thread'[h].body \in {None, thread[h].body}
           /\ thread'[h].kind = thread[h].kind \/ thread'[h].body = None
           /\ Return(h) => thread'[h].pc = "idle"
           /\ \A pc \in {"rejected", "waiting"} :
                 Goto(h, pc) => thread'[h].pc = pc /\ thread'[h].kind = thread[h].kind
<1>1. thread \in [Threads -> ThreadType]
    BY DEF SessionInv, PageTypes
<1>2. CASE Return(h)
    <2>1. /\ thread' \in [Threads -> ThreadType] /\ thread'[h] = Idle
          /\ \A g \in Threads \ {h} : thread'[g] = thread[g]
        BY <1>1, <1>2, ThreadTypes DEF Return
    <2>2. ASSUME NEW pc \in {"rejected", "waiting"}
          PROVE  ~Goto(h, pc)
        <3>1. Goto(h, pc) => thread'[h].pc = pc
            BY <1>1 DEF Goto, ThreadType
        <3>. QED
            BY <2>1, <3>1, ThreadTypes
    <2>. QED
        BY <2>1, <2>2, ThreadTypes
<1>3. ASSUME NEW pc \in {"rejected", "waiting"}, Goto(h, pc)
      PROVE  /\ thread' \in [Threads -> ThreadType] /\ \A g \in Threads \ {h} : thread'[g] = thread[g]
             /\ thread'[h].pc = pc /\ thread'[h].call = thread[h].call
             /\ thread'[h].body = thread[h].body /\ thread'[h].kind = thread[h].kind
    BY <1>1, <1>3 DEF Goto, ThreadType
<1>4. CASE \E pc \in {"rejected", "waiting"} : Goto(h, pc)
    <2>1. PICK pc \in {"rejected", "waiting"} : Goto(h, pc)
        BY <1>4
    <2>2. ~Return(h)
        <3>1. Return(h) => thread'[h] = Idle
            BY <1>1 DEF Return
        <3>. QED
            BY <1>3, <2>1, <3>1, ThreadTypes
    <2>3. \A other \in {"rejected", "waiting"} : Goto(h, other) => other = pc
        BY <1>3, <2>1
    <2>. QED
        BY <1>3, <2>1, <2>2, <2>3
<1>. QED
    BY <1>2, <1>4

LEMMA RequestMoves ==
    ASSUME SessionInv, NEW h \in Threads, NEW c \in {h} \X Slots, NEW kind \in Kinds,
           NEW body \in Tokens \cup {None}, NEW token \in Tokens \cup {None}, NEW retried \in BOOLEAN,
           Request(h, c, kind, body, token, retried),
           body # None => h \in Logouts \/ (h = "restore" /\ kind = "refresh")
    PROVE  /\ call' \in [Calls -> CallType] /\ call'[c].body = body /\ call'[c].issued = None
           /\ \A d \in Calls \ {c} : call'[d] = call[d]
           /\ thread' \in [Threads -> ThreadType] /\ \A g \in Threads \ {h} : thread'[g] = thread[g]
           /\ thread'[h].pc = "sent" /\ thread'[h].kind = kind /\ thread'[h].body = body
           /\ ActivityOK(h)'
<1>1. call \in [Calls -> CallType] /\ thread \in [Threads -> ThreadType]
    BY DEF SessionInv, PageTypes, AuthTypeOK, CallType
<1>2. c \in Calls /\ c # None
    BY ThreadTypes
<1> DEFINE m == Message(kind, body, token)
<1>3. m \in CallType /\ m.body = body /\ m.issued = None
    BY MessageTypes
<1>4. call' = [call EXCEPT ![c] = m]
    BY DEF Request
<1>5. /\ call' \in [Calls -> CallType] /\ call'[c] = m
      /\ \A d \in Calls \ {c} : call'[d] = call[d]
    <2> HIDE DEF m
    <2>. QED
        BY <1>1, <1>2, <1>3, <1>4
<1>6. /\ thread' \in [Threads -> ThreadType] /\ \A g \in Threads \ {h} : thread'[g] = thread[g]
      /\ thread'[h] = [pc |-> "sent", kind |-> kind, body |-> body, retried |-> retried, call |-> c]
    BY <1>1, <1>2 DEF Request, ThreadType
<1>7. ActivityOK(h)'
    BY <1>2, <1>6 DEF ActivityOK
<1>. QED
    BY <1>3, <1>5, <1>6, <1>7

\* An activity sends a request on a call of its own.
LEMMA NewRequestStep ==
    ASSUME SessionInv, NEW h \in Threads, NEW kind \in Kinds, NEW body \in Tokens \cup {None},
           body \in {None, refreshToken, thread[h].body}, NEW retried \in BOOLEAN,
           NewRequest(h, kind, body, retried),
           body # None => h \in Logouts \/ (h = "restore" /\ kind = "refresh"),
           h = "restore" => kind = "refresh" \/ (thread[h].pc # "start" /\ thread[h].kind # "refresh"),
           UNCHANGED <<serverVars, storeVars, refreshCall>>,
           user' \in BOOLEAN, isInitializing' \in BOOLEAN,
           formsLeft' \in 0 .. MaxForms, faultsLeft' \in 0 .. MaxFaults
    PROVE  SessionInv'
<1> DEFINE c == FreeCall(h)
<1>1. c \in {h} \X Slots
    BY OwnCalls DEF NewRequest
<1>2. accessToken \in Tokens \cup {None} /\ refreshToken \in Tokens \cup {None}
    BY DEF SessionInv, PageTypes
<1>3. Request(h, c, kind, body, accessToken, retried)
    BY DEF NewRequest
<1> HIDE DEF c
<1>4. /\ call' \in [Calls -> CallType] /\ call'[c].body = body /\ call'[c].issued = None
      /\ \A d \in Calls \ {c} : call'[d] = call[d]
      /\ thread' \in [Threads -> ThreadType] /\ \A g \in Threads \ {h} : thread'[g] = thread[g]
      /\ thread'[h].pc = "sent" /\ thread'[h].kind = kind /\ thread'[h].body = body
      /\ ActivityOK(h)'
    BY <1>1, <1>2, <1>3, RequestMoves
<1>5. body # None => Replacing'
    BY <1>4 DEF Replacing
<1>6. ASSUME Replacing
      PROVE  Replacing'
    BY <1>4, <1>6, ThreadTypes DEF Replacing
<1>7. Stores
    BY <1>6 DEF Stores, storeVars
<1>8. \A d \in Calls : Sends(d)
    BY <1>4, <1>5 DEF Sends
<1>9. \A d \in {"refresh"} \X Slots : call'[d] = call[d]
    BY <1>1, <1>4, ThreadTypes
<1>10. {accessToken', refreshToken'} \subseteq Tokens \cup {None}
    BY <1>2 DEF storeVars
<1>11. UNCHANGED serverVars /\ UNCHANGED refreshCall
    OBVIOUS
<1>12. thread'[h].body \in {None, thread[h].body, refreshToken}
    BY <1>4
<1>. QED
    BY <1>4, <1>7, <1>8, <1>9, <1>10, <1>11, <1>12, ActivityStep

\* An activity stops waiting for its call.
LEMMA GoingStep ==
    ASSUME SessionInv, NEW h \in Threads, HangUp(thread[h].call) \/ UNCHANGED call,
           \/ Return(h)
           \/ Goto(h, "rejected") /\ thread[h].pc = "sent"
           \/ Goto(h, "waiting") /\ thread[h].pc = "sent" /\ refreshCall # None,
           \/ refreshToken' = None
           \/ /\ refreshToken' = refreshToken
              /\ \/ Return(h) => h \notin Logouts \cup {"restore"}
                 \/ h = "restore" /\ thread[h].pc = "sent" /\ thread[h].kind # "refresh"
           \/ /\ thread[h].pc = "sent" /\ refreshToken' = call[thread[h].call].issued
              /\ HangUp(thread[h].call),
           accessToken' \in {accessToken, refreshToken'},
           UNCHANGED <<serverVars, refreshCall>>,
           user' \in BOOLEAN, isInitializing' \in BOOLEAN,
           formsLeft' \in 0 .. MaxForms, faultsLeft' \in 0 .. MaxFaults
    PROVE  SessionInv'
<1>1. /\ call \in [Calls -> CallType] /\ {accessToken, refreshToken} \subseteq Tokens \cup {None}
      /\ ActivityOK(h)
    BY DEF SessionInv, PageTypes, AuthTypeOK, CallType
<1>2. /\ call' \in [Calls -> CallType] /\ \A d \in Calls : Sends(d)
      /\ \A d \in Calls \ {thread[h].call} : call'[d] = call[d]
    BY <1>1, HangUpMoves DEF Sends
<1>3. /\ thread' \in [Threads -> ThreadType] /\ \A g \in Threads \ {h} : thread'[g] = thread[g]
      /\ thread'[h].call \in {None, thread[h].call}
      /\ thread'[h].body \in {None, thread[h].body}
      /\ thread'[h].kind = thread[h].kind \/ thread'[h].body = None
      /\ Return(h) => thread'[h].pc = "idle"
      /\ \A pc \in {"rejected", "waiting"} :
            Goto(h, pc) => thread'[h].pc = pc /\ thread'[h].kind = thread[h].kind
    BY GoingMoves
<1>4. ActivityOK(h)'
    BY <1>1, <1>3 DEF ActivityOK
<1>5. \A d \in {"refresh"} \X Slots : call'[d] = call[d]
    BY <1>2, OwnCalls, ThreadTypes
<1>6. ASSUME refreshToken' = refreshToken, Replacing,
             \/ Return(h) => h \notin Logouts \cup {"restore"}
             \/ h = "restore" /\ thread[h].pc = "sent" /\ thread[h].kind # "refresh"
      PROVE  Replacing'
    BY <1>3, <1>6, ThreadTypes DEF Replacing
<1>7. ASSUME thread[h].pc = "sent", HangUp(thread[h].call)
      PROVE  /\ thread[h].call \in Calls /\ call'[thread[h].call].issued = None
             /\ call[thread[h].call].issued \in Tokens \cup {None}
    <2>1. thread[h].call \in Calls
        BY <1>7, OwnCalls
    <2>. QED
        BY <1>1, <1>7, <2>1, HangUpMoves, CallTypes DEF CallType
<1>8. Stores
    BY <1>6, <1>7 DEF Stores
<1>9. {accessToken', refreshToken'} \subseteq Tokens \cup {None}
    BY <1>1, <1>7
<1>10. thread'[h].body \in {None, thread[h].body, refreshToken}
    BY <1>3
<1>11. UNCHANGED serverVars /\ UNCHANGED refreshCall
    OBVIOUS
<1>. QED
    BY <1>2, <1>3, <1>4, <1>5, <1>8, <1>9, <1>10, <1>11, ActivityStep

\* What a step that leaves the rest of the page alone keeps of its types.
LEMMA RestOfPage ==
    ASSUME SessionInv
    PROVE  /\ user \in BOOLEAN /\ isInitializing \in BOOLEAN
           /\ formsLeft \in 0 .. MaxForms /\ faultsLeft \in 0 .. MaxFaults
           /\ Form => formsLeft' \in 0 .. MaxForms
           /\ Fault => faultsLeft' \in 0 .. MaxFaults
BY BoundsAssumption DEF SessionInv, PageTypes, Form, Fault

LEMMA UnauthorizedStep ==
    ASSUME SessionInv, NEW h \in Threads, Unauthorized(h)
    PROVE  SessionInv'
<1> USE DEF Unauthorized, Answered, storeVars, pageVars, boundVars
<1>1. CASE UNCHANGED refreshCall
    <2>1. /\ HangUp(thread[h].call) /\ thread[h].pc = "sent"
          /\ Goto(h, "rejected") \/ (Goto(h, "waiting") /\ refreshCall # None)
          /\ ~Return(h)
        <3>1. /\ HangUp(thread[h].call) /\ thread[h].pc = "sent"
              /\ Goto(h, "rejected") \/ (Goto(h, "waiting") /\ refreshCall # None)
            <4>1. FreeCalls("refresh") # {} => FreeCall("refresh") \in FreeCalls("refresh")
                BY DEF FreeCall
            <4>2. FreeCalls("refresh") # {} => FreeCall("refresh") # None
                BY <4>1, ThreadTypes DEF FreeCalls
            <4>. QED
                BY <1>1, <4>2
        <3>2. Goto(h, "rejected") \/ Goto(h, "waiting") => ~Return(h)
            BY GoingMoves
        <3>. QED
            BY <3>1, <3>2
    <2>. QED
        BY <1>1, <2>1, GoingStep, RestOfPage
<1>2. CASE ~UNCHANGED refreshCall
    <2> DEFINE c == FreeCall("refresh")
               m == Message("refresh", refreshToken, None)
    <2>1. /\ refreshCall = None /\ refreshToken # None /\ FreeCalls("refresh") # {}
          /\ refreshCall' = c /\ Goto(h, "waiting")
          /\ call' = [call EXCEPT ![thread[h].call] = NoCall, ![c] = m]
        BY <1>2
    <2>2. c \in {"refresh"} \X Slots /\ c \in Calls /\ c # None
        <3>1. c \in FreeCalls("refresh")
            BY <2>1 DEF FreeCall
        <3>. QED
            BY <3>1, ThreadTypes DEF FreeCalls
    <2>3. /\ refreshToken \in Tokens /\ {accessToken, refreshToken} \subseteq Tokens \cup {None}
          /\ call \in [Calls -> CallType] /\ ActivityOK(h)
        BY <2>1 DEF SessionInv, PageTypes, AuthTypeOK, CallType
    <2>4. m \in CallType /\ m.pc = "arrived" /\ m.body = refreshToken /\ m.issued = None
        BY <2>3, MessageTypes DEF Kinds
    <2> HIDE DEF c, m
    <2>5. /\ call' \in [Calls -> CallType] /\ call'[c] = m
          /\ \A d \in Calls \ {c} : call'[d] \in {call[d], NoCall}
        BY <2>1, <2>2, <2>3, <2>4, CallTypes
    <2>6. Replacing'
        BY <2>1, <2>2 DEF Replacing
    <2>7. \A d \in Calls : Sends(d)
        BY <2>4, <2>5, <2>6, CallTypes DEF Sends
    <2>8. /\ thread' \in [Threads -> ThreadType] /\ \A g \in Threads \ {h} : thread'[g] = thread[g]
          /\ thread'[h].call \in {None, thread[h].call}
          /\ thread'[h].body \in {None, thread[h].body}
          /\ thread'[h].kind = thread[h].kind /\ thread'[h].pc = "waiting"
        BY <2>1, GoingMoves
    <2>9. ActivityOK(h)'
        BY <2>1, <2>2, <2>3, <2>8 DEF ActivityOK
    <2>10. Stores
        BY <2>6 DEF Stores
    <2>11. call'[refreshCall'].pc # "idle" /\ refreshCall' \in {"refresh"} \X Slots
        BY <2>1, <2>2, <2>4, <2>5
    <2>12. thread'[h].body \in {None, thread[h].body, refreshToken}
        BY <2>8
    <2>13. {accessToken', refreshToken'} \subseteq Tokens \cup {None}
        BY <2>3
    <2>14. UNCHANGED <<user, isInitializing, formsLeft, faultsLeft>> /\ UNCHANGED serverVars
        OBVIOUS
    <2>. QED
        BY <2>1, <2>5, <2>7, <2>8, <2>9, <2>10, <2>11, <2>12, <2>13, <2>14, ActivityStep, RestOfPage
<1>. QED
    BY <1>1, <1>2

LEMMA RestoreRefreshedStep ==
    ASSUME SessionInv, RestoreRefreshed
    PROVE  SessionInv'
<1> DEFINE c == thread["restore"].call
           t == call[c].issued
<1>1. thread["restore"].pc = "sent" /\ SetTokens(t) /\ Request("restore", c, "query", None, t, FALSE)
    BY DEF RestoreRefreshed, Answered
<1>2. "restore" \in Threads
    BY ThreadTypes
<1>3. c \in {"restore"} \X Slots /\ c \in Calls
    BY <1>1, <1>2, OwnCalls DEF SessionInv, PageTypes, ActivityOK
<1>4. t \in Tokens \cup {None}
    BY <1>3 DEF SessionInv, AuthTypeOK
<1>0. PICK kind \in Kinds, retried \in BOOLEAN : Request("restore", c, kind, None, t, retried)
    BY <1>1 DEF Kinds
<1> HIDE DEF c, t
<1>5. /\ call' \in [Calls -> CallType] /\ call'[c].body = None /\ call'[c].issued = None
      /\ \A d \in Calls \ {c} : call'[d] = call[d]
      /\ thread' \in [Threads -> ThreadType]
      /\ \A g \in Threads \ {"restore"} : thread'[g] = thread[g]
      /\ thread'["restore"].body = None /\ ActivityOK("restore")'
    BY <1>0, <1>2, <1>3, <1>4, RequestMoves
<1>6. \A d \in Calls : Sends(d)
    BY <1>5 DEF Sends
<1>7. Stores
    BY <1>1, <1>3, <1>5 DEF Stores, SetTokens, t
<1>8. \A d \in {"refresh"} \X Slots : call'[d] = call[d]
    BY <1>3, <1>5, ThreadTypes
<1>9. {accessToken', refreshToken'} \subseteq Tokens \cup {None}
    BY <1>1, <1>4 DEF SetTokens
<1>10. /\ UNCHANGED <<user, isInitializing, formsLeft, faultsLeft>>
       /\ UNCHANGED serverVars /\ UNCHANGED refreshCall
    BY DEF RestoreRefreshed, pageVars, boundVars
<1>. QED
    BY <1>2, <1>5, <1>6, <1>7, <1>8, <1>9, <1>10, ActivityStep, RestOfPage

LEMMA RefreshEnds ==
    ASSUME SessionInv, RefreshStep
    PROVE  SessionInv'
<1> USE DEF SessionInv, RefreshStep, RefreshSucceeds, RefreshFails, SetTokens, ClearTokens
<1>1. /\ refreshCall \in {"refresh"} \X Slots /\ refreshCall \in Calls
      /\ HangUp(refreshCall) /\ refreshCall' = None
      /\ refreshToken' \in {None, call[refreshCall].issued} /\ accessToken' = refreshToken'
      /\ UNCHANGED <<serverVars, pageVars, boundVars>>
      /\ \E pc \in {"resend", "rejected"} : Wake(pc)
    BY ThreadTypes DEF PageTypes
<1>2. call \in [Calls -> CallType] /\ thread \in [Threads -> ThreadType]
    BY DEF AuthTypeOK, CallType, PageTypes
<1>3. /\ call' \in [Calls -> CallType] /\ \A d \in Calls : Sends(d)
      /\ call'[refreshCall].issued = None /\ call[refreshCall].issued \in Tokens \cup {None}
    BY <1>1, <1>2, HangUpMoves, CallTypes DEF CallType
<1>4. /\ thread' \in [Threads -> ThreadType]
      /\ \A h \in Threads : /\ thread'[h].pc # "waiting" /\ (thread'[h].pc = "sent" => thread[h].pc = "sent")
                            /\ thread'[h].body = thread[h].body /\ thread'[h].kind = thread[h].kind
                            /\ thread'[h].call = thread[h].call
    <2>1. PICK pc \in {"resend", "rejected"} : Wake(pc)
        BY <1>1
    <2>2. ASSUME NEW h \in Threads
          PROVE  /\ thread'[h] \in ThreadType
                 /\ thread'[h].pc # "waiting" /\ (thread'[h].pc = "sent" => thread[h].pc = "sent")
                 /\ thread'[h].body = thread[h].body /\ thread'[h].kind = thread[h].kind
                 /\ thread'[h].call = thread[h].call
        <3>1. thread[h] \in ThreadType
            BY <1>2
        <3>2. thread'[h] = IF thread[h].pc = "waiting" THEN [thread[h] EXCEPT !.pc = pc] ELSE thread[h]
            BY <2>1 DEF Wake
        <3>. QED
            BY <3>1, <3>2 DEF ThreadType
    <2>3. thread' = [h \in Threads |-> thread'[h]]
        BY <2>1 DEF Wake
    <2>. QED
        BY <2>2, <2>3
<1>5. PageTypes'
    <2>1. ASSUME NEW h \in Threads
          PROVE  ActivityOK(h)'
        BY <1>4 DEF ActivityOK, PageTypes
    <2>. QED
        BY <1>1, <1>3, <1>4, <2>1 DEF PageTypes, pageVars, boundVars
<1>6. AuthTypeOK' /\ RefreshUnderWay' /\ UNCHANGED tokenRow
    BY <1>1, <1>3 DEF AuthTypeOK, CallType, RefreshUnderWay, serverVars
<1>7. Stores
    BY <1>1, <1>3 DEF Stores
<1>. QED
    BY <1>3, <1>4, <1>5, <1>6, <1>7, PageMoves DEF PageMove

LEMMA ReloadStep ==
    ASSUME SessionInv, Reload
    PROVE  SessionInv'
<1> USE DEF SessionInv, Reload
<1>1. ASSUME NEW h \in Threads
      PROVE  /\ thread'[h] \in ThreadType /\ thread'[h].body = None /\ thread'[h].call = None
             /\ thread'[h].pc \in {"idle", "start"}
    BY ThreadTypes
<1>2. thread' \in [Threads -> ThreadType] /\ thread'["restore"].pc = "start"
    BY <1>1, ThreadTypes
<1>3. call \in [Calls -> CallType]
    BY DEF AuthTypeOK, CallType
<1>4. PageTypes'
    <2>1. \A h \in Threads : ActivityOK(h)'
        BY <1>1 DEF ActivityOK
    <2>2. /\ {accessToken', refreshToken'} \subseteq Tokens \cup {None} /\ refreshCall' = None
          /\ user' \in BOOLEAN /\ isInitializing' \in BOOLEAN
          /\ formsLeft' \in 0 .. MaxForms /\ faultsLeft' \in 0 .. MaxFaults
        BY RestOfPage DEF PageTypes
    <2>. QED
        BY <1>2, <2>1, <2>2 DEF PageTypes
<1>5. AuthTypeOK' /\ RefreshUnderWay' /\ UNCHANGED tokenRow
    BY DEF AuthTypeOK, RefreshUnderWay, serverVars
<1>6. \A d \in Calls : Sends(d)
    BY <1>3 DEF Sends
<1>7. Stores
    BY <1>2 DEF Stores, Replacing
<1>8. \A h \in Threads : thread'[h].body \in {None, thread[h].body, refreshToken}
    BY <1>1
<1>. QED
    BY <1>4, <1>5, <1>6, <1>7, <1>8, PageMoves DEF PageMove

LEMMA ResendStep ==
    ASSUME SessionInv, NEW h \in Threads, Resend(h)
    PROVE  SessionInv'
<1>1. thread[h] \in ThreadType /\ ActivityOK(h)
    BY DEF SessionInv, PageTypes
<1> DEFINE kind == thread[h].kind
           body == thread[h].body
<1>2. /\ kind \in Kinds /\ body \in Tokens \cup {None}
      /\ body # None => h \in Logouts \/ (h = "restore" /\ kind = "refresh")
    BY <1>1 DEF ThreadType, ActivityOK
<1>3. PICK retried \in BOOLEAN : NewRequest(h, kind, body, retried)
    BY DEF Resend
<1>4. thread[h].pc # "start" /\ UNCHANGED <<serverVars, storeVars, pageVars, refreshCall, boundVars>>
    BY DEF Resend
<1>5. /\ user' \in BOOLEAN /\ isInitializing' \in BOOLEAN
      /\ formsLeft' \in 0 .. MaxForms /\ faultsLeft' \in 0 .. MaxFaults
    BY <1>4, RestOfPage DEF pageVars, boundVars
<1>6. h = "restore" => kind = "refresh" \/ (thread[h].pc # "start" /\ thread[h].kind # "refresh")
    BY <1>4
<1>7. body \in {None, refreshToken, thread[h].body} /\ UNCHANGED <<serverVars, storeVars, refreshCall>>
    BY <1>4
<1> HIDE DEF kind, body
<1>. QED
    BY <1>2, <1>3, <1>5, <1>6, <1>7, NewRequestStep

LEMMA RestoreStep ==
    ASSUME SessionInv, Restore
    PROVE  SessionInv'
<1>1. "restore" \in Threads /\ refreshToken \in Tokens \cup {None}
    BY ThreadTypes DEF SessionInv, PageTypes
<1>2. /\ user' \in BOOLEAN /\ isInitializing' \in BOOLEAN
      /\ formsLeft' \in 0 .. MaxForms /\ faultsLeft' \in 0 .. MaxFaults
      /\ UNCHANGED <<serverVars, storeVars, refreshCall>>
    BY RestOfPage DEF Restore, pageVars, boundVars
<1>3. CASE refreshToken = None
    BY <1>1, <1>2, <1>3, GoingStep DEF Restore, storeVars
<1>4. CASE refreshToken # None
    <2>1. PICK kind \in Kinds, retried \in BOOLEAN :
             kind = "refresh" /\ NewRequest("restore", kind, refreshToken, retried)
        BY <1>4 DEF Restore, Kinds
    <2>. QED
        BY <1>1, <1>2, <2>1, NewRequestStep
<1>. QED
    BY <1>3, <1>4

LEMMA StartLogoutStep ==
    ASSUME SessionInv, NEW h \in Logouts, StartLogout(h)
    PROVE  SessionInv'
<1>1. h \in Threads \ {"restore"} /\ refreshToken \in Tokens \cup {None}
    BY ThreadTypes DEF SessionInv, PageTypes
<1>2. /\ user' \in BOOLEAN /\ isInitializing' \in BOOLEAN
      /\ formsLeft' \in 0 .. MaxForms /\ faultsLeft' \in 0 .. MaxFaults
      /\ UNCHANGED serverVars /\ UNCHANGED refreshCall
    BY RestOfPage DEF StartLogout
<1>3. CASE refreshToken = None
    <2>1. /\ UNCHANGED <<call, thread>> /\ accessToken' = None /\ refreshToken' = None
        BY <1>3 DEF StartLogout, ClearTokens, SetTokens
    <2>2. /\ call' \in [Calls -> CallType] /\ thread' \in [Threads -> ThreadType]
          /\ ActivityOK(h)'
        BY <1>1, <1>2, <2>1 DEF SessionInv, PageTypes, AuthTypeOK, CallType, ActivityOK
    <2>3. (\A d \in Calls : Sends(d)) /\ Stores
        BY <2>1 DEF Sends, Stores
    <2>. QED
        BY <1>1, <1>2, <2>1, <2>2, <2>3, ActivityStep
<1>4. CASE refreshToken # None
    <2>1. PICK kind \in Kinds, retried \in BOOLEAN :
             kind = "logout" /\ NewRequest(h, kind, refreshToken, retried)
        BY <1>4 DEF StartLogout, Kinds
    <2>2. UNCHANGED <<serverVars, storeVars, refreshCall>>
        BY <1>4 DEF StartLogout
    <2>. QED
        BY <1>1, <1>2, <2>1, <2>2, NewRequestStep
<1>. QED
    BY <1>3, <1>4

\* A request without a token in its body, from a form or a page.
LEMMA PlainRequest ==
    ASSUME SessionInv, NEW h \in Threads \ {"restore"}, NEW kind \in Kinds,
           NewRequest(h, kind, None, FALSE), UNCHANGED <<serverVars, storeVars, pageVars, refreshCall>>,
           \/ UNCHANGED boundVars
           \/ Form /\ UNCHANGED faultsLeft
    PROVE  SessionInv'
<1>1. PICK retried \in BOOLEAN, body \in Tokens \cup {None} : body = None /\ NewRequest(h, kind, body, retried)
    OBVIOUS
<1>2. /\ user' \in BOOLEAN /\ isInitializing' \in BOOLEAN
      /\ formsLeft' \in 0 .. MaxForms /\ faultsLeft' \in 0 .. MaxFaults
    BY RestOfPage DEF pageVars, boundVars
<1>3. UNCHANGED <<serverVars, storeVars, refreshCall>>
    OBVIOUS
<1>. QED
    BY <1>1, <1>2, <1>3, NewRequestStep

LEMMA AnsweredSteps ==
    ASSUME SessionInv, NEW h \in Threads,
           \/ RequestRejected(h)
           \/ QueryAnswered(h)
           \/ ShowError(h)
           \/ h = "restore" /\ (Restored \/ RestoreFailed)
           \/ LoggedIn(h)
           \/ LoggedOut(h)
           \/ GiveUp(h)
    PROVE  SessionInv'
<1>1. Goto(h, "rejected") => ~Return(h)
    BY GoingMoves
<1>2. \A q \in Queries \cup Logins : q \notin Logouts \cup {"restore"}
    BY ThreadTypes
<1>3. /\ user' \in BOOLEAN /\ isInitializing' \in BOOLEAN
      /\ formsLeft' \in 0 .. MaxForms /\ faultsLeft' \in 0 .. MaxFaults
      /\ UNCHANGED <<serverVars, refreshCall>>
    BY RestOfPage DEF RequestRejected, QueryAnswered, ShowError, Restored, RestoreFailed, LoggedIn,
                      LoggedOut, GiveUp, pageVars, boundVars
<1>4. HangUp(thread[h].call) \/ UNCHANGED call
    BY DEF RequestRejected, QueryAnswered, ShowError, Restored, RestoreFailed, LoggedIn, LoggedOut, GiveUp
<1>5. CASE RequestRejected(h) \/ GiveUp(h)
    <2>1. /\ Goto(h, "rejected") /\ thread[h].pc = "sent"
          /\ refreshToken' = refreshToken /\ accessToken' = accessToken
        BY <1>5 DEF RequestRejected, Answered, GiveUp, storeVars
    <2>. QED
        BY <1>1, <1>3, <1>4, <2>1, GoingStep
<1>6. CASE QueryAnswered(h) \/ ShowError(h)
    <2>1. /\ Return(h) /\ h \in Queries \cup Logins
          /\ refreshToken' = refreshToken /\ accessToken' = accessToken
        BY <1>6 DEF QueryAnswered, ShowError, storeVars
    <2>. QED
        BY <1>2, <1>3, <1>4, <2>1, GoingStep
<1>7. CASE h = "restore" /\ Restored
    <2>1. /\ Return(h) /\ thread[h].pc = "sent" /\ thread[h].kind # "refresh"
          /\ refreshToken' = refreshToken /\ accessToken' = accessToken
        BY <1>7 DEF Restored, Answered, storeVars
    <2>. QED
        BY <1>3, <1>4, <1>7, <2>1, GoingStep
<1>8. CASE (h = "restore" /\ RestoreFailed) \/ LoggedOut(h)
    <2>1. Return(h) /\ refreshToken' = None /\ accessToken' = None
        BY <1>8 DEF RestoreFailed, LoggedOut, ClearTokens, SetTokens
    <2>. QED
        BY <1>3, <1>4, <2>1, GoingStep
<1>9. CASE LoggedIn(h)
    <2>1. /\ Return(h) /\ thread[h].pc = "sent" /\ HangUp(thread[h].call)
          /\ refreshToken' = call[thread[h].call].issued /\ accessToken' = refreshToken'
        BY <1>9 DEF LoggedIn, Answered, SetTokens
    <2>. QED
        BY <1>3, <2>1, GoingStep
<1>. QED
    BY <1>5, <1>6, <1>7, <1>8, <1>9

----------------------------------------------------------------------------
(* The invariant.                                                          *)

LEMMA SessionInvInit == Init => SessionInv
<1> SUFFICES ASSUME Init
             PROVE  SessionInv
    OBVIOUS
<1>1. AuthTypeOK
    BY CallTypes DEF Init, AuthInit, AuthTypeOK, CallType
<1>2. PageTypes
    <2>1. ASSUME NEW h \in Threads
          PROVE  /\ thread[h] \in ThreadType /\ ActivityOK(h)
        BY ThreadTypes DEF Init, ActivityOK
    <2>2. (CHOOSE t \in Tokens : TRUE) \in Tokens
        BY TokensAssumption
    <2>3. thread \in [Threads -> ThreadType]
        BY ThreadTypes DEF Init
    <2>4. /\ {accessToken, refreshToken} \subseteq Tokens \cup {None} /\ refreshCall = None
          /\ user \in BOOLEAN /\ isInitializing \in BOOLEAN
        BY <2>2 DEF Init
    <2>5. formsLeft \in 0 .. MaxForms /\ faultsLeft \in 0 .. MaxFaults
        BY BoundsAssumption DEF Init
    <2>. QED
        BY <2>1, <2>3, <2>4, <2>5 DEF PageTypes
<1>3. RefreshUnderWay /\ StoreInv
    BY ThreadTypes DEF Init, RefreshUnderWay, StoreInv, Replacing
<1>4. IssuedInv
    BY CallTypes DEF Init, AuthInit, IssuedInv
<1>. QED
    BY <1>1, <1>2, <1>3, <1>4 DEF SessionInv

LEMMA SessionInvKept == SessionInv /\ [Next]_vars => SessionInv'
<1> SUFFICES ASSUME SessionInv, [Next]_vars
             PROVE  SessionInv'
    OBVIOUS
<1>1. CASE \/ \E c \in Calls : Handler(c)
           \/ \E c \in Calls : Fault /\ HandlerFails(c) /\ UNCHANGED <<ClientVars, formsLeft>>
           \/ \E c \in Calls : Unheard(c)
           \/ Fault /\ LogoutAllDevices /\ UNCHANGED <<ClientVars, formsLeft>>
           \/ AdminUpdate /\ UNCHANGED <<ClientVars, boundVars>>
           \/ \E t \in Tokens : Expire(t)
    BY <1>1, ServerSteps
<1>2. ASSUME NEW h \in Threads, PageStep(h) \/ GiveUp(h)
      PROVE  SessionInv'
    BY <1>2, UnauthorizedStep, ResendStep, RestoreStep, RestoreRefreshedStep, AnsweredSteps
       DEF PageStep
<1>3. CASE RefreshStep
    BY <1>3, RefreshEnds
<1>4. CASE UserStep
    <2>1. ASSUME NEW h \in Logins, NEW kind \in {"login", "register"}, SubmitLogin(h, kind)
          PROVE  SessionInv'
        BY <2>1, PlainRequest, ThreadTypes DEF SubmitLogin, Kinds
    <2>2. ASSUME NEW q \in Queries, StartQuery(q)
          PROVE  SessionInv'
        <3>1. q \in Threads \ {"restore"} /\ "query" \in Kinds
            BY ThreadTypes DEF Kinds
        <3>. QED
            BY <2>2, <3>1, PlainRequest DEF StartQuery
    <2>. QED
        BY <1>4, <2>1, <2>2, StartLogoutStep, ReloadStep DEF UserStep
<1>5. CASE UNCHANGED vars
    <2>1. AuthTypeOK' /\ PageTypes'
        BY <1>5 DEF vars, serverVars, storeVars, pageVars, boundVars, SessionInv, AuthTypeOK,
                    PageTypes, ActivityOK
    <2>2. RefreshUnderWay' /\ StoreInv' /\ IssuedInv'
        BY <1>5 DEF vars, serverVars, storeVars, SessionInv, RefreshUnderWay, StoreInv, Replacing,
                    IssuedInv, Spent
    <2>. QED
        BY <2>1, <2>2 DEF SessionInv
<1>. QED
    BY <1>1, <1>2, <1>3, <1>4, <1>5 DEF Next

\* Every variable of the session keeps its type, and a request waits only for a
\* refresh that is in progress (SessionTypeOK).
THEOREM SessionTypesHold == Spec => []SessionTypeOK
<1>1. SessionInv => SessionTypeOK
    BY ThreadTypes DEF SessionInv, SessionTypeOK, PageTypes, ActivityOK, ThreadType, RefreshUnderWay
<1>. QED
    BY <1>1, SessionInvInit, SessionInvKept, PTL DEF Spec

\* A tab at rest holds no token that a rotation or a logout has revoked,
\* whatever was reloaded, refused, lost or given up on before (StoreNotSpent).
THEOREM StoreIsNeverSpent == Spec => []StoreNotSpent
<1>1. SessionInv => StoreNotSpent
    BY ThreadTypes DEF SessionInv, StoreInv, Replacing, Spent, StoreNotSpent
<1>. QED
    BY <1>1, SessionInvInit, SessionInvKept, PTL DEF Spec
=============================================================================
