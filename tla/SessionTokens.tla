---------------------------- MODULE SessionTokens ----------------------------
(***************************************************************************)
(* Signing in, staying so and signing out, in a browser whose tabs share   *)
(* what is on disk (src/frontend/src/services/api.ts, store/authStore.ts,  *)
(* lib/offlineResume.ts, src/backend/apps/authentication).  A refresh      *)
(* token is used once: the server answers with the next one and refuses    *)
(* the last.  A pair of tokens is its number; the server's library, which  *)
(* rotates and refuses, is external.                                       *)
(*                                                                         *)
(* The password-wrapped token on disk (`blob`) lets a session that was     *)
(* unlocked offline resume by itself.  Its encryption is one step.         *)
(***************************************************************************)
EXTENDS Integers, FiniteSets, Sequences

CONSTANTS
    Users, Tabs,
    MaxTokens,     \* bound: pairs of tokens issued
    MaxTroubles    \* bound: lost answers, throttled calls, dropped connections, sign-outs,
                   \* locks and reloads

VARIABLES
    owner,    \* user of each refresh token issued: a sequence
    live,     \* tokens the server accepts
    session,  \* in the memory of each tab
    stored,   \* the persisted session: localStorage finventory-auth
    verifier, \* the user who can unlock offline here
    blob,     \* the wrapped token: localStorage audity-offline-refresh
    wrap,     \* _wrapKey and _refreshToken of each tab
    stash,    \* stashRefreshAtLogin under way
    refresh,  \* isRefreshing, with what was sent and answered
    waiting,  \* whether requests wait in failedQueue
    resume,   \* trySilentResume under way
    leaving,  \* the sign-out under way
    troubles,
    signedOut, \* history: users whose session the client ended because of a refresh
    lapses    \* history: <<what happened, to which tab>>

vars == <<owner, live, session, stored, verifier, blob, wrap, stash, refresh, waiting, resume, leaving, troubles, signedOut, lapses>>
server == <<owner, live>>
offline == <<verifier, blob>>
disk == <<stored, offline>>
rest == <<troubles, signedOut>>

None == [none |-> TRUE]
NoToken == 0
NoKey == [key |-> NoToken, token |-> NoToken]
Issued == 1..Len(owner)

Init ==
    /\ owner = <<>> /\ live = {} /\ stored = None /\ verifier = None /\ blob = None
    /\ session = [t \in Tabs |-> None] /\ wrap = [t \in Tabs |-> NoKey] /\ stash = [t \in Tabs |-> None]
    /\ refresh = [t \in Tabs |-> None] /\ waiting = {} /\ resume = [t \in Tabs |-> None]
    /\ leaving = [t \in Tabs |-> None] /\ troubles = 0 /\ signedOut = {} /\ lapses = {}

Lapse(cond, name, t) == IF cond THEN {<<name, t>>} ELSE {}
\* Another tab is signed in, or about to write to the same disk.
Shared(t) ==
    Lapse(\E o \in Tabs \ {t} : {session[o], refresh[o], resume[o], leaving[o], stash[o]} # {None}, "shared", "tabs")
Online(user, token) == [user |-> user, offline |-> FALSE, token |-> token]
Offline(user) == [user |-> user, offline |-> TRUE, token |-> NoToken]
Set(f, t, x) == f' = [f EXCEPT ![t] = x]
\* A call of the refresh endpoint: the token sent, the answer, the token answered, and the
\* session seen when it was sent.
Sent(t, token) == [token |-> token, reply |-> "sent", next |-> NoToken, seen |-> session[t]]
Given(call) == call # None /\ call.reply = "given"
Failed(call) == call # None /\ call.reply \in {"refused", "throttled", "unreachable"}
Trouble == troubles < MaxTroubles /\ troubles' = troubles + 1

\* The store writes what it persists with every change: the whole session, but not that it
\* is an offline one.
Persist(s) == stored' = IF s = None THEN None ELSE [s EXCEPT !.offline = FALSE]
Commit(t, s) == Set(session, t, s) /\ Persist(s)

-----------------------------------------------------------------------------
(* Signing in.                                                              *)

\* LoginPage: the tokens are committed.  After a password alone, the verifier is issued and
\* the refresh token is to be wrapped, which is done before the next sign-in; not after a
\* second factor.
Login(t, u, factors) ==
    /\ session[t] = None /\ stash[t] = None /\ Len(owner) < MaxTokens
    /\ LET n == Len(owner) + 1
       IN /\ owner' = Append(owner, u) /\ live' = live \cup {n}
          /\ Commit(t, Online(u, n))
          /\ IF factors = 1 THEN Set(stash, t, [user |-> u, token |-> n]) /\ verifier' = u
             ELSE UNCHANGED <<stash, verifier>>
    /\ lapses' = lapses \cup Shared(t)
    /\ UNCHANGED <<blob, wrap, refresh, waiting, resume, leaving, rest>>

\* stashRefreshAtLogin, once the key is derived: a new salt, a new key.
Stash(t) ==
    /\ stash[t] # None
    /\ LET n == stash[t].token
       IN /\ blob' = [user |-> stash[t].user, token |-> n, salt |-> n, key |-> n]
          /\ Set(wrap, t, [key |-> n, token |-> n])
          /\ lapses' = lapses \cup Lapse(session[t] = None \/ session[t].token # n, "stashed late", t)
    /\ Set(stash, t, None) /\ UNCHANGED <<server, session, stored, verifier, refresh, waiting, resume, leaving, rest>>

\* tryOfflineLogin and unlockRefreshOffline: the user's blob opens if it was wrapped with its
\* own key.
Unlock(t) ==
    /\ session[t] = None /\ verifier # None
    /\ IF blob # None /\ blob.user = verifier /\ blob.key = blob.salt
       THEN Set(wrap, t, [key |-> blob.key, token |-> blob.token]) ELSE wrap' = wrap
    /\ Commit(t, Offline(verifier))
    /\ lapses' = lapses \cup Shared(t)
    /\ UNCHANGED <<server, offline, stash, refresh, waiting, resume, leaving, rest>>

-----------------------------------------------------------------------------
(* The refresh of a token.                                                  *)

Rewrapped_in_memory(t, n) ==
    UNCHANGED blob /\ wrap' = IF wrap[t].key = NoToken THEN wrap ELSE [wrap EXCEPT ![t].token = n]
\* onTokensRotated: nothing without a key; with one, whatever the blob's salt is.
Rewrapped(t, n) ==
    IF wrap[t].key = NoToken THEN UNCHANGED <<wrap, blob>>
    ELSE /\ wrap' = [wrap EXCEPT ![t].token = n]
         /\ blob' = IF blob = None THEN None ELSE [blob EXCEPT !.token = n, !.key = wrap[t].key]
\* What that leaves on disk.
Blobs(t, n) ==
    Lapse(blob # None /\ wrap[t].key = NoToken, "no key", t)
    \cup Lapse(blob # None /\ wrap[t].key \notin {NoToken, blob.salt}, "another key", t)

\* clearSession: the session here and on disk, and the secrets in memory.
Clear(t) == Commit(t, None) /\ Set(wrap, t, NoKey)

\* A request is refused with 401: the first one refreshes, the others wait.
Unauthorized(t) ==
    /\ session[t] # None /\ ~session[t].offline
    /\ IF refresh[t] # None THEN waiting' = waiting \cup {t} /\ UNCHANGED <<session, stored, wrap, refresh>>
       ELSE IF session[t].token = NoToken THEN Clear(t) /\ UNCHANGED <<waiting, refresh>>
       ELSE Set(refresh, t, Sent(t, session[t].token)) /\ UNCHANGED <<session, stored, wrap, waiting>>
    /\ UNCHANGED <<server, offline, stash, resume, leaving, rest, lapses>>

\* TokenRefreshCustomView: a live token is replaced, any other refused.
Rotate(token) ==
    /\ token \in live /\ Len(owner) < MaxTokens
    /\ owner' = Append(owner, owner[token])
    /\ live' = (live \ {token}) \cup {Len(owner) + 1}

Exchange(calls, t) ==
    LET call == calls[t]
    IN /\ call # None /\ call.reply = "sent"
       /\ \/ Rotate(call.token) /\ calls' = [calls EXCEPT ![t].reply = "given", ![t].next = Len(owner) + 1]
             /\ UNCHANGED <<troubles, lapses>>
          \/ /\ call.token \notin live /\ calls' = [calls EXCEPT ![t].reply = "refused"]
             /\ UNCHANGED <<server, troubles, lapses>>
          \/ /\ Trouble
             /\ \/ calls' = [calls EXCEPT ![t].reply = "throttled"] /\ UNCHANGED <<server, lapses>>
                \/ calls' = [calls EXCEPT ![t].reply = "unreachable"] /\ UNCHANGED <<server, lapses>>
                \/ /\ Rotate(call.token) /\ calls' = [calls EXCEPT ![t].reply = "unreachable"]
                   /\ lapses' = lapses \cup {<<"lost", owner[call.token]>>}
    /\ UNCHANGED <<disk, session, wrap, stash, waiting, leaving, signedOut>>

Serve(t) == (Exchange(refresh, t) /\ UNCHANGED resume) \/ (Exchange(resume, t) /\ UNCHANGED refresh)

\* updateTokens puts the answer into whatever session holds tokens now.
Refreshed(t) ==
    /\ Given(refresh[t])
    /\ LET n == refresh[t].next  s == session[t]
           holds == s # None /\ s.token # NoToken
       IN /\ IF holds THEN Commit(t, [s EXCEPT !.token = n]) ELSE session' = session /\ Persist(s)
          /\ Rewrapped(t, n)
          /\ lapses' = lapses \cup Lapse(~holds \/ s.token # refresh[t].token, "crossed", t) \cup Blobs(t, n)
    /\ waiting' = waiting \ {t} /\ Set(refresh, t, None)
    /\ UNCHANGED <<server, verifier, stash, resume, leaving, rest>>

\* A 4xx ends the session, whatever session it is by now; anything else keeps it.
Ends_always(reply) == TRUE
Ends(reply) == reply \in {"refused", "throttled"}
RefreshFailed(t) ==
    /\ Failed(refresh[t])
    /\ LET ending == Ends(refresh[t].reply)
       IN /\ IF ending THEN Clear(t) ELSE UNCHANGED <<session, stored, wrap>>
          /\ signedOut' = signedOut \cup {u \in Users : ending /\ leaving[t] = None /\ session[t] # None /\ session[t].user = u}
          /\ lapses' = lapses \cup Lapse(ending /\ refresh[t].reply = "throttled", "throttled", t)
                 \cup Lapse(ending /\ session[t] # None /\ session[t].token # refresh[t].token, "crossed", t)
    /\ waiting' = waiting \ {t} /\ Set(refresh, t, None)
    /\ UNCHANGED <<server, offline, stash, resume, leaving, troubles>>

-----------------------------------------------------------------------------
(* trySilentResume, when the connection is back.                            *)

Resume(t) ==
    /\ session[t] # None /\ session[t].offline /\ wrap[t].token # NoToken /\ resume[t] = None
    /\ Set(resume, t, Sent(t, wrap[t].token))
    /\ UNCHANGED <<server, disk, session, wrap, stash, refresh, waiting, leaving, rest, lapses>>

\* The session is the one that was seen at the start, with the new tokens.
Resumed(t) ==
    /\ Given(resume[t])
    /\ LET n == resume[t].next
       IN /\ Rewrapped(t, n)
          /\ Commit(t, Online(resume[t].seen.user, n))
          /\ lapses' = lapses \cup Lapse(session[t] # resume[t].seen, "resurrected", t) \cup Blobs(t, n)
    /\ Set(resume, t, None) /\ UNCHANGED <<server, verifier, stash, refresh, waiting, leaving, rest>>

\* Refused: the blob is thrown away.  Otherwise it is kept for the next time.
ResumeFailed(t) ==
    /\ Failed(resume[t])
    /\ IF resume[t].reply = "refused" THEN blob' = None /\ Set(wrap, t, NoKey) ELSE UNCHANGED <<blob, wrap>>
    /\ Set(resume, t, None)
    /\ UNCHANGED <<server, session, stored, verifier, stash, refresh, waiting, leaving, rest, lapses>>

-----------------------------------------------------------------------------
(* The end of a session.                                                    *)

\* F5, or a tab opened: only what is on disk is there.  A call under way has been answered:
\* the server does not tell whether the tab still waits.
Reload(t) ==
    /\ \A c \in {refresh[t], resume[t]} : c # None => c.reply # "sent"
    /\ Trouble /\ Set(session, t, stored) /\ Set(wrap, t, NoKey) /\ Set(stash, t, None)
    /\ Set(refresh, t, None) /\ waiting' = waiting \ {t} /\ Set(resume, t, None) /\ Set(leaving, t, None)
    /\ LET cut == {c \in {refresh[t], resume[t]} : Given(c)}
       IN lapses' = lapses
             \cup {<<"lost", owner[c.token]>> : c \in cut}
             \cup Lapse(leaving[t] # None /\ leaving[t].revoked, "half out", t)
             \cup Shared(t)
    /\ UNCHANGED <<server, disk, signedOut>>

\* handleLogout, or the lock of useInactivityTimeout: both send the refresh token of the
\* session, if the server can be reached ...
Leave(t, lock) ==
    /\ session[t] # None /\ leaving[t] = None /\ Trouble
    /\ Set(leaving, t, [token |-> session[t].token, revoked |-> FALSE, lock |-> lock])
    /\ UNCHANGED <<server, disk, session, wrap, stash, refresh, waiting, resume, signedOut, lapses>>

Revoke(t) ==
    /\ leaving[t] # None /\ leaving[t].token # NoToken /\ ~leaving[t].revoked
    /\ live' = live \ {leaving[t].token} /\ leaving' = [leaving EXCEPT ![t].revoked = TRUE]
    /\ UNCHANGED <<owner, disk, session, wrap, stash, refresh, waiting, resume, rest, lapses>>

\* ... and end the session here in any case.  A lock keeps what opens offline, with a token
\* the server was just told to refuse; a logout deletes both.
Left(t) ==
    /\ leaving[t] # None /\ Clear(t) /\ Set(leaving, t, None)
    /\ IF leaving[t].lock THEN UNCHANGED offline ELSE verifier' = None /\ blob' = None
    /\ LET gone == leaving[t]
           last == IF session[t] = None THEN gone.token ELSE session[t].token
       IN lapses' = lapses
             \cup Lapse(gone.lock /\ gone.revoked, "locked", t)
             \cup Lapse(last # NoToken /\ (~gone.revoked \/ last # gone.token), "unrevoked", t)
             \cup Lapse(~gone.lock /\ (stash[t] # None \/ wrap[t].token \notin {NoToken, last}), "unrevoked", t)
    /\ UNCHANGED <<server, stash, refresh, waiting, resume, rest>>

-----------------------------------------------------------------------------
Next ==
    \E t \in Tabs :
        \/ \E u \in Users, factors \in 1..2 : Login(t, u, factors)
        \/ Stash(t) \/ Unlock(t) \/ Unauthorized(t) \/ Serve(t) \/ Refreshed(t) \/ RefreshFailed(t)
        \/ Resume(t) \/ Resumed(t) \/ ResumeFailed(t)
        \/ Reload(t) \/ Revoke(t) \/ Left(t)
        \/ \E lock \in BOOLEAN : Leave(t, lock)

Spec == Init /\ [][Next]_vars
-----------------------------------------------------------------------------
Lapsed(names) == \E l \in lapses : l[1] \in names
\* Replaced by the server, and the answer on its way.
Replaced(token) ==
    \E t \in Tabs : \E c \in {refresh[t], resume[t]} : Given(c) /\ c.token = token

\* The types of the variables.
IsCall(c) == c.token \in Issued /\ c.next \in {NoToken} \cup Issued /\ (Given(c) \/ Failed(c) \/ c.reply = "sent")
TypeOK ==
    /\ owner \in Seq(Users) /\ Len(owner) <= MaxTokens /\ live \subseteq Issued
    /\ \A s \in {session[t] : t \in Tabs} \cup {stored} :
          s # None => s \in [user : Users, offline : BOOLEAN, token : {NoToken} \cup Issued]
    /\ blob # None => blob \in [user : Users, token : Issued, salt : Issued, key : Issued]
    /\ \A t \in Tabs : \A c \in {refresh[t], resume[t]} : c # None => IsCall(c)
    /\ waiting \subseteq Tabs /\ troubles \in 0..MaxTroubles

\* A request that waits for a refresh waits for one that is under way.
NobodyIsStranded == \A t \in waiting : refresh[t] # None

\* A session holds tokens of its own user, unless a refresh or a stash of an earlier session
\* came to its end in it.
TokensAreTheUsers ==
    ~Lapsed({"crossed", "stashed late"}) =>
        \A t \in Tabs :
            session[t] # None /\ session[t].token # NoToken => owner[session[t].token] = session[t].user

\* The token of a session is accepted until its successor is there, and nobody is signed out
\* by a refresh: unless an answer was lost or a call throttled, two tabs hold one session, or
\* an answer came to another session than it was for, or a reload cut a sign-out short.
SessionsLive ==
    ~Lapsed({"lost", "throttled", "shared", "crossed", "resurrected", "half out"}) =>
        /\ \A t \in Tabs :
              session[t] # None /\ session[t].token # NoToken /\ leaving[t] = None =>
                  (session[t].token \in live \/ Replaced(session[t].token))
        /\ signedOut = {}

\* The wrapped token opens for its user and will be accepted: unless the same, or a rotation
\* happened without the key or with another one, or the session was locked.
BlobIsUsable ==
    ~Lapsed({"lost", "shared", "crossed", "resurrected", "no key", "another key", "stashed late", "locked", "half out"}) =>
        \/ blob = None
        \/ /\ blob.key = blob.salt /\ owner[blob.token] = blob.user
           /\ blob.token \in live \/ Replaced(blob.token) \/ \E t \in Tabs : leaving[t] # None

\* Where a token can still be used from.
Held ==
    {c.token : c \in ({session[t] : t \in Tabs} \cup {stored, blob}) \ {None}}
        \cup {wrap[t].token : t \in Tabs}
        \cup UNION {{c.token, c.next} : c \in ({refresh[t] : t \in Tabs} \cup {resume[t] : t \in Tabs}) \ {None}}

\* Signing out leaves no token that is still accepted: a live token is one that a tab or the
\* disk still holds, unless the server did not hear of it.
NoTokenLeftBehind ==
    ~Lapsed({"lost", "throttled", "shared", "crossed", "resurrected", "unrevoked", "no key", "stashed late"}) =>
        live \subseteq Held
=============================================================================
