---------------------------- MODULE AuthSessions ----------------------------
(***************************************************************************)
(* Logging in through Discord and carrying a session: routes/auth.go and   *)
(* routes/ops.go over middleware/auth.go and store/auth.go.                *)
(*                                                                         *)
(* Redis holds the OAuth states and the sessions, each until a time of its *)
(* own; a session also carries its expiry. Every call to Redis or Discord  *)
(* is a step, and may fail: without effect, or after its effect. Requests  *)
(* to the API renew their session, /ops only reads it, a logout renews it  *)
(* and then deletes it.                                                    *)
(*                                                                         *)
(* Abstracted: Discord's tokens, the member's profile, cookies, the target *)
(* of the redirect; a session is named after the callback that made it.    *)
(***************************************************************************)
EXTENDS Naturals

CONSTANTS Logins,      \* OAuth states that discordLogin hands out
          Callbacks,   \* requests to /auth/discord/callback
          Carriers,    \* requests that carry a session
          StateTTL, SessionTTL,
          MaxTime,     \* bound on the clock
          MaxOutages   \* bound on failed calls

ASSUME AuthAssumption ==
    /\ StateTTL \in Nat \ {0} /\ SessionTTL \in Nat \ {0}
    /\ MaxTime \in Nat \ {0} /\ MaxOutages \in Nat

VARIABLES
    now,       \* the time, shared by the servers and Redis
    outages,
    heldUntil, \* OAuth states in Redis: until when; 0 when there is none
    callback,  \* callbacks: step, and the state they consumed
    session,   \* sessions in Redis: kept until, and the expiry they carry
    carrier,   \* requests: step, session, kind, expiry read, time taken
    lastUse,   \* ghost: the latest use of each session
    logouts    \* ghost: sessions logged out, and who had read them by then

authVars == <<now, outages, heldUntil, callback, session, carrier, lastUse, logouts>>

Unused == "unused"
Gone == [until |-> 0, expires |-> 0]
Idle == [at |-> "idle", of |-> Unused, kind |-> "api", copy |-> 0, taken |-> 0]

AuthInit ==
    /\ now = 1 /\ outages = 0
    /\ heldUntil = [l \in Logins |-> 0]
    /\ callback = [c \in Callbacks |-> [at |-> "consume", login |-> Unused]]
    /\ session = [c \in Callbacks |-> Gone]
    /\ carrier = [r \in Carriers |-> Idle]
    /\ lastUse = [c \in Callbacks |-> 0]
    /\ logouts = [c \in Callbacks |-> [done |-> FALSE, readers |-> {}]]

Expiries == 0 .. (MaxTime + SessionTTL)

AuthTypeOK ==
    /\ now \in 1 .. MaxTime /\ outages \in 0 .. MaxOutages
    /\ heldUntil \in [Logins -> 0 .. (MaxTime + StateTTL)]
    /\ callback \in [Callbacks -> [at : {"consume", "exchange", "save", "over"},
                                   login : Logins \cup {Unused}]]
    /\ session \in [Callbacks -> [until : Expiries, expires : Expiries]]
    /\ carrier \in [Carriers -> [at : {"idle", "read", "expired", "save", "delete", "served", "refused"},
                                 of : Callbacks \cup {Unused}, kind : {"api", "ops", "logout"},
                                 copy : Expiries, taken : 0 .. MaxTime]]
    /\ \A s \in Callbacks : session[s].expires <= session[s].until
    /\ lastUse \in [Callbacks -> 0 .. MaxTime]
    /\ logouts \in [Callbacks -> [done : BOOLEAN, readers : SUBSET Carriers]]
-----------------------------------------------------------------------------
(* The store                                                               *)

Held(s) == session[s].until > now

\* SaveSession writes the whole session, whether or not there is one.
Saved(taken) == [until |-> now + SessionTTL, expires |-> taken + SessionTTL]

Tick ==
    /\ now < MaxTime
    /\ now' = now + 1
    /\ UNCHANGED <<outages, heldUntil, callback, session, carrier, lastUse, logouts>>

\* A call fails; whoever made it gives up.
CallFails == outages < MaxOutages /\ outages' = outages + 1

\* Outcomes of a write: done, lost, or done though its answer was lost.
Writes(effect, lost, onward, giveUp) ==
    \/ effect /\ onward /\ UNCHANGED outages
    \/ (effect \/ lost) /\ giveUp /\ CallFails
-----------------------------------------------------------------------------
(* Logging in                                                              *)

CallbackGoes(c, at) == callback' = [callback EXCEPT ![c].at = at]

\* discordLogin: SaveOAuthState under a new identifier.
DiscordLogin(l) ==
    /\ heldUntil[l] = 0 /\ \A c \in Callbacks : callback[c].login # l
    /\ heldUntil' = [heldUntil EXCEPT ![l] = now + StateTTL]
    /\ UNCHANGED <<now, outages, callback, session, carrier, lastUse, logouts>>

\* ConsumeOAuthState is one GETDEL.
ReadOnly(l) == UNCHANGED heldUntil
ReadAndDelete(l) == heldUntil' = [heldUntil EXCEPT ![l] = 0]

ConsumeOAuthState(c, l) ==
    /\ callback[c].at = "consume"
    /\ heldUntil[l] > now
    /\ ReadAndDelete(l)
    /\ \/ callback' = [callback EXCEPT ![c] = [at |-> "exchange", login |-> l]] /\ UNCHANGED outages
       \/ CallbackGoes(c, "over") /\ CallFails
    /\ UNCHANGED <<now, session, carrier, lastUse, logouts>>

\* exchangeDiscordCode and fetchDiscordUser; Discord may refuse.
Exchange(c) ==
    /\ callback[c].at = "exchange"
    /\ CallbackGoes(c, "save") \/ CallbackGoes(c, "over")
    /\ UNCHANGED <<now, outages, heldUntil, session, carrier, lastUse, logouts>>

\* Nobody learns the name of a session whose answer was lost.
SaveNewSession(c) ==
    /\ callback[c].at = "save"
    /\ Writes(session' = [session EXCEPT ![c] = Saved(now)], UNCHANGED session,
              lastUse' = [lastUse EXCEPT ![c] = now], UNCHANGED lastUse)
    /\ CallbackGoes(c, "over")
    /\ UNCHANGED <<now, heldUntil, carrier, logouts>>
-----------------------------------------------------------------------------
(* Carrying a session                                                      *)

Goes(r, at) == carrier' = [carrier EXCEPT ![r].at = at]
Untouched == UNCHANGED <<now, heldUntil, callback, lastUse>>

\* GetSession, in RequireAuth and in guildOpsAuthorized.
GetSession(r, s, kind) ==
    /\ carrier[r].at = "idle"
    /\ lastUse[s] > 0
    /\ carrier' = [carrier EXCEPT ![r] =
          [at |-> IF Held(s) THEN "read" ELSE "refused", of |-> s, kind |-> kind,
           copy |-> session[s].expires, taken |-> 0]]
    /\ UNCHANGED <<outages, session, logouts>> /\ Untouched

\* The expiry that the session carries is checked, then a new one is taken.
Expired(r) == now > carrier[r].copy

CheckExpiry(r) ==
    /\ carrier[r].at = "read"
    /\ carrier' = [carrier EXCEPT ![r].taken = now, ![r].at =
          IF Expired(r) THEN (IF carrier[r].kind = "ops" THEN "refused" ELSE "expired")
          ELSE IF carrier[r].kind = "ops" THEN "served" ELSE "save"]
    /\ UNCHANGED <<outages, session, logouts>> /\ Untouched

\* The deletion of an expired session; its error is ignored.
DropExpired(r) ==
    /\ carrier[r].at = "expired"
    /\ session' = [session EXCEPT ![carrier[r].of] = Gone] \/ UNCHANGED session
    /\ Goes(r, "refused")
    /\ UNCHANGED <<outages, logouts>> /\ Untouched

\* SaveSession of the copy with its new expiry; then the handler runs.
SaveSession(r) ==
    LET s == carrier[r].of IN
    /\ carrier[r].at = "save"
    /\ Writes(session' = [session EXCEPT ![s] = Saved(carrier[r].taken)], UNCHANGED session,
              Goes(r, IF carrier[r].kind = "logout" THEN "delete" ELSE "served"), Goes(r, "refused"))
    /\ lastUse' = [lastUse EXCEPT ![s] = IF @ < carrier[r].taken THEN carrier[r].taken ELSE @]
    /\ UNCHANGED <<now, heldUntil, callback, logouts>>

\* authLogout deletes the session, then clears the cookie.
CookieOnly(s) == UNCHANGED session
DeleteSession(s) == session' = [session EXCEPT ![s] = Gone]

Readers(s) == {q \in Carriers : carrier[q].of = s /\ carrier[q].at \in {"read", "save"}}

AuthLogout(r) ==
    LET s == carrier[r].of IN
    /\ carrier[r].at = "delete"
    /\ Writes(DeleteSession(s), UNCHANGED session, Goes(r, "served"), Goes(r, "refused"))
    /\ logouts' = IF carrier'[r].at = "served"
                  THEN [logouts EXCEPT ![s] = [done |-> TRUE, readers |-> @.readers \cup Readers(s)]]
                  ELSE logouts
    /\ UNCHANGED <<now, heldUntil, callback, lastUse>>

AuthNext ==
    \/ Tick
    \/ \E l \in Logins : DiscordLogin(l)
    \/ \E c \in Callbacks : Exchange(c) \/ SaveNewSession(c) \/ \E l \in Logins : ConsumeOAuthState(c, l)
    \/ \E r \in Carriers, s \in Callbacks, kind \in {"api", "ops", "logout"} : GetSession(r, s, kind)
    \/ \E r \in Carriers : CheckExpiry(r) \/ DropExpired(r) \/ SaveSession(r) \/ AuthLogout(r)

AuthSpec == AuthInit /\ [][AuthNext]_authVars
-----------------------------------------------------------------------------
(* Properties                                                              *)

\* "One authorization response cannot be replayed" (store/auth.go): two
\* callbacks never get past the same OAuth state, whatever calls fail.
OneCallbackPerLogin ==
    \A c, d \in Callbacks :
        c # d /\ callback[c].login = callback[d].login => callback[c].login = Unused

\* A session that was logged out is there again only if a request that had read
\* it before the deletion has written its copy back since.
LogoutFinal ==
    \A s \in Callbacks :
        logouts[s].done /\ Held(s) =>
            \E r \in logouts[s].readers : carrier[r].at \in {"served", "delete", "refused"}

=============================================================================
