------------------------------ MODULE Handoff ------------------------------
(***************************************************************************)
(* The workspace handoff (apps/accounts/handoff.py): the ERP signs a token *)
(* that names a user, the browser brings it, perhaps several times and to  *)
(* several gunicorn workers at once, and one arrival opens a session.      *)
(*                                                                         *)
(* Tokens here are well formed and correctly signed, and the secret is     *)
(* set: everything else is answered before any state is touched.  The ERP  *)
(* dates a token by its own clock.                                         *)
(***************************************************************************)
EXTENDS Integers, FiniteSets, TLC

CONSTANTS Tokens,        \* the tokens, each with its own nonce
          Arrivals,      \* the requests that bring one
          MaxAge,        \* WORKSPACE_HANDOFF_MAX_AGE_SECONDS
          Skews,         \* how far the ERP's clock may be ahead
          MaxStall,      \* gunicorn --timeout: a request that rests longer is killed
          MaxTime,       \* bound: the clock stops there
          NoToken        \* an arrival that has not come, a token not issued

\* Times and skews are whole seconds.
ASSUME TimeAssumption ==
    {MaxAge, MaxStall, MaxTime} \subseteq Nat /\ Skews \subseteq Int

\* No time means "not issued".
ASSUME NoTokenAssumption == NoToken \notin Int

VARIABLES now,           \* this system's clock
          issued,        \* the time written into each token, or NoToken
          remembered,    \* the cache: until when a burned nonce is kept
          active,        \* may the user the tokens name sign in?
          arrival,       \* where each request is, with its token, and since when
                         \*   it looked at the token's age
          sessions,      \* the sessions opened: the arrivals they belong to
          trail,         \* the audit rows: <<arrival, kind>>
          forgotten,     \* has the cache lost its contents?
          rested         \* the requests that came to the cache after resting for
                         \*   twice the age of a token or longer

handoffVars == <<now, issued, remembered, active, arrival, sessions, trail, forgotten, rested>>

\* Where a request is; the last three are its answers (a 500 or none for "died").
Places == {"new", "aged", "burned", "known", "signedIn", "traced",
           "home", "loginPage", "died"}

HandoffInit ==
    /\ now = 0
    /\ issued = [t \in Tokens |-> NoToken]
    /\ remembered = [t \in Tokens |-> 0]
    /\ active \in BOOLEAN
    /\ arrival = [r \in Arrivals |-> [at |-> "new", token |-> NoToken, since |-> 0]]
    /\ sessions = {}
    /\ trail = {}
    /\ forgotten = FALSE
    /\ rested = {}

IsAt(r, place) == arrival[r].at = place

GoTo(r, place) == arrival' = [arrival EXCEPT ![r].at = place, ![r].since = 0]

Audit(r, kind) == trail' = trail \union {<<r, kind>>}

-----------------------------------------------------------------------------
(* The ERP *)

Issue(t, skew) ==
    /\ issued[t] = NoToken
    /\ issued' = [issued EXCEPT ![t] = now + skew]
    /\ UNCHANGED <<now, remembered, active, arrival, sessions, trail, forgotten, rested>>

-----------------------------------------------------------------------------
(* verify_token *)

\* The window reaches as far into the future as into the past.
InWindow(t) == now - issued[t] \in -MaxAge..MaxAge

\* reject: an audit row, and the login page.
Reject(r) ==
    /\ Audit(r, "LOGIN_FAILED")
    /\ GoTo(r, "loginPage")
    /\ UNCHANGED <<now, issued, remembered, active, sessions, forgotten, rested>>

Arrive(r, t) ==
    /\ IsAt(r, "new")
    /\ issued[t] # NoToken
    /\ InWindow(t)
    /\ arrival' = [arrival EXCEPT ![r] = [at |-> "aged", token |-> t, since |-> now]]
    /\ UNCHANGED <<now, issued, remembered, active, sessions, trail, forgotten, rested>>

ArriveLate(r, t) ==
    /\ IsAt(r, "new")
    /\ issued[t] # NoToken
    /\ ~InWindow(t)
    /\ Reject(r)

\* Mutant of Lifetime: a nonce is kept for as long as a token is old.
OneAge == MaxAge

\* How long the cache keeps a burned nonce.
Lifetime == 4 * MaxAge

\* cache.add finds nothing under the nonce, or something that expired.
Unburned(t) == remembered[t] <= now

\* The time since the request looked at the age of its token.
Rest(r) == now - arrival[r].since

\* cache.add is atomic: one arrival gets it.
Burn(r) ==
    /\ IsAt(r, "aged")
    /\ Unburned(arrival[r].token)
    /\ remembered' = [remembered EXCEPT ![arrival[r].token] = now + Lifetime]
    /\ rested' = IF Rest(r) >= 2 * MaxAge THEN rested \union {r} ELSE rested
    /\ GoTo(r, "burned")
    /\ UNCHANGED <<now, issued, active, sessions, trail, forgotten>>

Replayed(r) ==
    /\ IsAt(r, "aged")
    /\ ~Unburned(arrival[r].token)
    /\ Reject(r)

-----------------------------------------------------------------------------
(* workspace_handoff *)

FindUser(r) ==
    /\ IsAt(r, "burned")
    /\ active
    /\ GoTo(r, "known")
    /\ UNCHANGED <<now, issued, remembered, active, sessions, trail, forgotten, rested>>

NoAccount(r) ==
    /\ IsAt(r, "burned")
    /\ ~active
    /\ Reject(r)

\* login(): the user_logged_in signal writes its own row (audits/signals.py).
\* The session is only in the request as yet.
Login(r) ==
    /\ IsAt(r, "known")
    /\ Audit(r, "LOGIN")
    /\ GoTo(r, "signedIn")
    /\ UNCHANGED <<now, issued, remembered, active, sessions, forgotten, rested>>

Record(r) ==
    /\ IsAt(r, "signedIn")
    /\ Audit(r, "LOGIN by handoff")
    /\ GoTo(r, "traced")
    /\ UNCHANGED <<now, issued, remembered, active, sessions, forgotten, rested>>

\* Mutant of Answer: the session is saved as soon as the user is signed in.
AnswerEarly(r) ==
    /\ IsAt(r, "signedIn") \/ IsAt(r, "traced")
    /\ sessions' = sessions \union {r}
    /\ GoTo(r, IF IsAt(r, "traced") THEN "home" ELSE "signedIn")
    /\ UNCHANGED <<now, issued, remembered, active, trail, forgotten, rested>>

\* The session middleware saves the session on the way out, and the browser
\* follows the redirect home.
Answer(r) ==
    /\ IsAt(r, "traced")
    /\ sessions' = sessions \union {r}
    /\ GoTo(r, "home")
    /\ UNCHANGED <<now, issued, remembered, active, trail, forgotten, rested>>

-----------------------------------------------------------------------------
(* Faults, administration and time *)

\* The worker is killed, or the database fails: an answer of 500 saves no session.
Die(r) ==
    /\ arrival[r].at \in {"aged", "burned", "known", "signedIn", "traced"}
    /\ GoTo(r, "died")
    /\ UNCHANGED <<now, issued, remembered, active, sessions, trail, forgotten, rested>>

\* Redis restarts or evicts, or there is no shared cache (base.py, LocMemCache).
CacheForgets ==
    /\ \E t \in Tokens : remembered[t] > 0
    /\ remembered' = [t \in Tokens |-> 0]
    /\ forgotten' = TRUE
    /\ UNCHANGED <<now, issued, active, arrival, sessions, trail, rested>>

\* An administrator disables or enables the account.
SetActive ==
    /\ active' = ~active
    /\ UNCHANGED <<now, issued, remembered, arrival, sessions, trail, forgotten, rested>>

Tick ==
    /\ now < MaxTime
    /\ \A r \in Arrivals : IsAt(r, "aged") => Rest(r) < MaxStall
    /\ now' = now + 1
    /\ UNCHANGED <<issued, remembered, active, arrival, sessions, trail, forgotten, rested>>

HandoffNext ==
    \/ \E t \in Tokens, skew \in Skews : Issue(t, skew)
    \/ \E r \in Arrivals :
        \/ \E t \in Tokens : Arrive(r, t) \/ ArriveLate(r, t)
        \/ Burn(r) \/ Replayed(r)
        \/ FindUser(r) \/ NoAccount(r)
        \/ Login(r) \/ Record(r) \/ Answer(r)
        \/ Die(r)
    \/ CacheForgets
    \/ SetActive
    \/ Tick

HandoffSpec == HandoffInit /\ [][HandoffNext]_handoffVars

-----------------------------------------------------------------------------
(* Properties *)

\* Clocks, requests, cache and audit rows have their types.
HandoffTypeOK ==
    /\ now \in 0..MaxTime
    /\ issued \in [Tokens -> Int \union {NoToken}]
    /\ remembered \in [Tokens -> Nat]
    /\ active \in BOOLEAN
    /\ arrival \in [Arrivals -> [at: Places, token: Tokens \union {NoToken}, since: Nat]]
    /\ sessions \subseteq Arrivals
    /\ trail \subseteq Arrivals \X {"LOGIN_FAILED", "LOGIN", "LOGIN by handoff"}
    /\ forgotten \in BOOLEAN
    /\ rested \subseteq Arrivals

\* "Tokens are single-use" (handoff.py, line 13): as long as the cache keeps what
\* it was given, a token opens one session.  A request that rests for two ages
\* breaks this (README, section 5).
TokensAreSingleUse ==
    ~forgotten => \A r, s \in sessions : arrival[r].token = arrival[s].token => r = s

\* Where a request may be that got past the nonce and did not die, and those requests.
PastNonce == {"burned", "known", "signedIn", "traced", "home"}

Admitted == {r \in Arrivals : arrival[r].at \in PastNonce}

\* What the nonce's life of four ages gives: whatever the skew of the clocks, of
\* the arrivals with one token at most one gets past its nonce without resting for
\* two ages between the check of the age and the cache (60 s as deployed, where
\* gunicorn lets a request live for 120 s), as long as the cache keeps what it was
\* given.  The nonce must outlive the window, which is twice as wide as a token is
\* old, and such a rest.
TokenOpensOnce ==
    ~forgotten => \A r, s \in Admitted \ rested :
        arrival[r].token = arrival[s].token => r = s

\* A session opened by a handoff has both its audit rows, and whoever is sent to
\* the login page left one ("every rejection is audited"), wherever a request dies.
ArrivalsAreTraced ==
    \A r \in Arrivals :
        /\ r \in sessions => {<<r, "LOGIN">>, <<r, "LOGIN by handoff">>} \subseteq trail
        /\ IsAt(r, "loginPage") => <<r, "LOGIN_FAILED">> \in trail /\ r \notin sessions
=============================================================================
