-------------------------------- MODULE Session --------------------------------
(***************************************************************************)
(* The session of one user: a single cell "cookie" of the store, whatever  *)
(* the number of his browsers.  The cookie is the time of the login in     *)
(* seconds, so that two logins in one second share it.                     *)
(***************************************************************************)
EXTENDS Integers

CONSTANTS
    Pages,      \* pages, each in a browser of its own
    NoCookie,   \* no cell, or no cookie in the browser
    Nobody,     \* no page
    MaxSecond   \* bound: seconds that pass

ASSUME MaxSecondAssumption == MaxSecond \in Nat
ASSUME NoCookieAssumption == NoCookie \notin Nat
ASSUME NobodyAssumption == Nobody \notin Pages

VARIABLES
    second,   \* the time
    cookie,   \* the cell "cookie"
    jar,      \* jar[p]: the cookie in the browser of p
    leaving,  \* pages whose logout has passed checkCookie
    \* The rest only observes.
    holder,   \* the page whose login was the last one stored, until it leaves
    mixed     \* sessions have been mixed up, see Login

sessionVars == <<second, cookie, jar, leaving, holder, mixed>>

Cookies == 0 .. MaxSecond \cup {NoCookie}

SessionInit ==
    /\ second = 0
    /\ cookie = 0
    /\ jar = [p \in Pages |-> 0]
    /\ leaving = {} /\ holder = Nobody
    /\ mixed = {}

Tick ==
    /\ second < MaxSecond
    /\ second' = second + 1
    /\ UNCHANGED <<cookie, jar, leaving, holder, mixed>>

\* checkCookie for a request that carries cookie c.
Authorised(c) == cookie # NoCookie /\ cookie = c

\* login with the right password: the answer sets the browser's cookie even if
\* the Put fails, which is only logged.  Sessions are mixed up if another page
\* has the same cookie, or is between the two calls of its logout.
Login(p, stored) ==
    /\ p \notin leaving
    /\ jar' = [jar EXCEPT ![p] = second]
    /\ cookie' = IF stored THEN second ELSE cookie
    /\ holder' = IF stored THEN p ELSE IF holder = p THEN Nobody ELSE holder
    /\ mixed' = mixed \cup
                  (IF \E q \in Pages \ {p} : jar[q] = second THEN {"shared"} ELSE {})
                  \cup (IF leaving # {} THEN {"raced"} ELSE {})
    /\ UNCHANGED <<second, leaving>>

\* A plausible mistake for StartLogout: the cookie is not checked.
StartLogoutUnchecked(p) ==
    /\ p \notin leaving
    /\ leaving' = leaving \cup {p}
    /\ holder' = IF holder = p THEN Nobody ELSE holder
    /\ UNCHANGED <<second, cookie, jar, mixed>>

\* logout begins with checkCookie; the answer to a request that fails it clears
\* nothing in the browser.
StartLogout(p) ==
    /\ p \notin leaving
    /\ Authorised(jar[p])
    /\ leaving' = leaving \cup {p}
    /\ holder' = IF holder = p THEN Nobody ELSE holder
    /\ UNCHANGED <<second, cookie, jar, mixed>>

\* Then the cell is deleted, whatever is in it by now, and the browser's cookie
\* cleared.
EndLogout(p, deleted) ==
    /\ p \in leaving
    /\ leaving' = leaving \ {p}
    /\ cookie' = IF deleted THEN NoCookie ELSE cookie
    /\ jar' = [jar EXCEPT ![p] = NoCookie]
    /\ UNCHANGED <<second, holder, mixed>>

SessionTypeOK ==
    /\ second \in 0 .. MaxSecond
    /\ cookie \in Cookies
    /\ jar \in [Pages -> Cookies]
    /\ leaving \subseteq Pages
    /\ holder \in Pages \cup {Nobody}
    /\ mixed \subseteq {"shared", "raced"}

\* The session of the last login stands until its own page logs out: logouts of
\* browsers it has replaced do not end it, unless one of them shares its second
\* or had passed its check before the login.
LastLoginStands ==
    holder # Nobody /\ mixed = {} => Authorised(jar[holder])

=============================================================================
