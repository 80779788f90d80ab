------------------------------- MODULE Sessions -------------------------------
(***************************************************************************)
(* Signing in and staying in.  A browser keeps the refresh token of a      *)
(* session in a cookie and exchanges it now and then; the exchange rotates *)
(* the session, and a rotated one that comes back later than the grace     *)
(* period ends all sessions of its user.  A changed or reset password ends *)
(* them too and raises the version every token carries.  A call reads,     *)
(* others run, it writes what it has computed, and its answer arrives when *)
(* it arrives.  Failed logins are counted per name and lock it.            *)
(* Sources: api/routers/auth.py, services/sessions.py, login_guard.py,     *)
(* api/deps.py, api/routers/users.py.                                      *)
(***************************************************************************)
EXTENDS Naturals

CONSTANTS
  None,
  Users,
  Browsers,
  OwnerOf,       \* OwnerOf[b]: who uses a browser
  Keys,          \* ids of sessions
  Slots,         \* how many calls can be in flight
  login_max_failed_attempts,
  MaxVersion,    \* bound on the version of tokens
  MaxFailures    \* bound on the failures counted in one run

ASSUME OwnerAssumption == OwnerOf \in [Browsers -> Users]
ASSUME LimitAssumption == login_max_failed_attempts \in Nat \ {0}
ASSUME BoundAssumption == MaxVersion \in Nat /\ MaxFailures \in Nat

VARIABLES
  account,   \* account[u]: a row of users
  session,   \* session[k]: a row of auth_sessions, or None
  attempts,  \* attempts[u]: the row of login_attempts of a name, or None
  jar,       \* jar[b]: the refresh cookie and the access token of a browser
  call,      \* call[s]: the call in flight in a slot, with what it has read
  lost,      \* history: the sessions whose successor never reached the browser
  failures   \* history: failures counted since the last undisturbed login

vars == <<account, session, attempts, jar, call, lost, failures>>

AccountRows == [active : BOOLEAN, must : BOOLEAN, version : Nat]
SessionRows == [user : Users, rotated : {"no", "grace", "old"}, revoked : BOOLEAN]
AttemptRows == [count : Nat, lock : {"none", "on", "past"}, recent : BOOLEAN]
Calls ==
       [op : {"login", "logout"}, by : Browsers]
  \cup [op : {"fail"}, by : Browsers, row : AttemptRows \cup {None}]
  \cup [op : {"refresh"}, by : Browsers, key : Keys, version : Nat]
  \cup [op : {"rotate", "reuse"}, by : Browsers, key : Keys]
  \cup [op : {"issue"}, by : Browsers, from : Keys \cup {None}, key : Keys \cup {None}]
  \cup [op : {"answer"}, by : Browsers, from : Keys \cup {None}, key : Keys \cup {None},
        version : Nat]
  \cup [op : {"change"}, by : Browsers, read : AccountRows, keys : SUBSET Keys]
  \cup [op : {"reset"}, user : Users, read : AccountRows, keys : SUBSET Keys]
Jars == [key : Keys \cup {None}, version : Nat, access : Nat \cup {None}]

ASSUME NoneAssumption ==
  None \notin Keys \cup Nat \cup SessionRows \cup AttemptRows \cup Calls

TypeOK ==
  /\ account \in [Users -> AccountRows]
  /\ session \in [Keys -> SessionRows \cup {None}]
  /\ attempts \in [Users -> AttemptRows \cup {None}]
  /\ jar \in [Browsers -> Jars]
  /\ \A b \in Browsers : jar[b].key # None =>
       /\ session[jar[b].key] # None
       /\ session[jar[b].key].user = OwnerOf[b]
  /\ call \in [Slots -> Calls \cup {None}]
  /\ lost \in SUBSET Keys
  /\ failures \in [Users -> Nat]

Empty == [key |-> None, version |-> 0, access |-> None]

\* HR has created the accounts, with temporary passwords.
Init ==
  /\ account = [u \in Users |->
                  [active |-> TRUE, must |-> TRUE, version |-> 0]]
  /\ session = [k \in Keys |-> None]
  /\ attempts = [u \in Users |-> None]
  /\ jar = [b \in Browsers |-> Empty]
  /\ call = [s \in Slots |-> None]
  /\ lost = {}
  /\ failures = [u \in Users |-> 0]

-------------------------------------------------------------------------------
(* Calls *)

Begins(s, c) ==
  /\ call[s] = None
  /\ call' = [call EXCEPT ![s] = c]

Goes(s, c) == call' = [call EXCEPT ![s] = c]

At(s, op) == call[s] # None /\ call[s].op = op

\* An error, a restart, or a refusal that changes nothing.
Rollback(s) ==
  /\ \E op \in {"login", "fail", "refresh", "rotate", "change", "reset"} : At(s, op)
  /\ Goes(s, None)
  /\ UNCHANGED <<account, session, attempts, jar, lost, failures>>

\* The sessions revoke_all_for_user finds, and those an open transaction holds.
Live(u) == {k \in Keys : session[k] # None /\ session[k].user = u /\ ~session[k].revoked}
Held(s) == UNION {call[r].keys : r \in {q \in Slots \ {s} : At(q, "change") \/ At(q, "reset")}}

\* create_session
NewSession(k, u, rows) ==
  [rows EXCEPT ![k] = [user |-> u, rotated |-> "no", revoked |-> FALSE]]
Revoked(keys, rows) ==
  [k \in Keys |-> IF k \in keys /\ rows[k] # None
                  THEN [rows[k] EXCEPT !.revoked = TRUE] ELSE rows[k]]

-------------------------------------------------------------------------------
(* Login and its guard *)

IsLocked(u) == attempts[u] # None /\ attempts[u].lock = "on"

\* A wrong password: the row of the name is the one locked_until has read.
BeginFail(s, b) ==
  /\ ~IsLocked(OwnerOf[b]) /\ failures[OwnerOf[b]] < MaxFailures
  /\ Begins(s, [op |-> "fail", by |-> b, row |-> attempts[OwnerOf[b]]])
  /\ UNCHANGED <<account, session, attempts, jar, lost, failures>>

\* The count of record_failure on the row it has read: a row out of the window
\* starts again.
Counted(row) == IF row = None \/ ~row.recent THEN 1 ELSE row.count + 1
Locks(row) == Counted(row) >= login_max_failed_attempts

\* The row after the UPDATE of the columns that differ from what was read; nobody
\* counts on a row it has read as locked.
Updated(row, read) ==
  LET count == IF Locks(read) THEN 0 ELSE Counted(read) IN
  [count |-> IF count # read.count THEN count ELSE row.count,
   lock |-> IF Locks(read) THEN "on"
            ELSE IF ~read.recent /\ read.lock = "past" THEN "none" ELSE row.lock,
   recent |-> TRUE]

\* record_failure: an INSERT of a name that has a row by now and an UPDATE of one
\* that has none fail, and the call with them.
CommitFail(s) ==
  /\ At(s, "fail")
  /\ LET u == OwnerOf[call[s].by]
         read == call[s].row IN
     /\ (read = None) = (attempts[u] = None)
     /\ attempts' = [attempts EXCEPT ![u] =
          IF read # None THEN Updated(attempts[u], read)
          ELSE [count |-> IF Locks(None) THEN 0 ELSE 1,
                lock |-> IF Locks(None) THEN "on" ELSE "none", recent |-> TRUE]]
     /\ failures' = [failures EXCEPT ![u] = @ + 1]
  /\ Goes(s, None)
  /\ UNCHANGED <<account, session, jar, lost>>

\* The right password of an active account.
BeginLogin(s, b) ==
  /\ ~IsLocked(OwnerOf[b]) /\ account[OwnerOf[b]].active
  /\ Begins(s, [op |-> "login", by |-> b])
  /\ UNCHANGED <<account, session, attempts, jar, lost, failures>>

\* Mutant: login without clear_failures.
Kept(u) == attempts

\* clear_failures
Cleared(u) == [attempts EXCEPT ![u] = None]

CommitLogin(s) == \E k \in Keys :
  /\ At(s, "login") /\ session[k] = None
  /\ LET u == OwnerOf[call[s].by] IN
     /\ attempts' = Cleared(u)
     /\ failures' = IF \E r \in Slots : At(r, "fail") /\ OwnerOf[call[r].by] = u
                    THEN failures ELSE [failures EXCEPT ![u] = 0]
     /\ session' = NewSession(k, u, session)
  /\ Goes(s, [op |-> "issue", by |-> call[s].by, from |-> None, key |-> k])
  /\ UNCHANGED <<account, jar, lost>>

\* Time: the window of the failures passes, the lock runs out.
WindowPasses(u) ==
  /\ attempts[u] # None /\ attempts[u].recent
  /\ attempts' = [attempts EXCEPT ![u].recent = FALSE]
  /\ UNCHANGED <<account, session, jar, call, lost, failures>>

LockRunsOut(u) ==
  /\ IsLocked(u)
  /\ attempts' = [attempts EXCEPT ![u].lock = "past"]
  /\ UNCHANGED <<account, session, jar, call, lost, failures>>

\* purge_stale, of the sweep
Purge ==
  /\ attempts' = [u \in Users |->
       IF attempts[u] # None /\ ~attempts[u].recent /\ attempts[u].lock # "on"
       THEN None ELSE attempts[u]]
  /\ attempts' # attempts
  /\ UNCHANGED <<account, session, jar, call, lost, failures>>

-------------------------------------------------------------------------------
(* Refresh *)

\* A tab sends the cookie of its browser.
SendRefresh(s, b) ==
  /\ jar[b].key # None
  /\ Begins(s, [op |-> "refresh", by |-> b, key |-> jar[b].key, version |-> jar[b].version])
  /\ UNCHANGED <<account, session, attempts, jar, lost, failures>>

\* Mutant: a rotated session is always a reuse.
NoGrace(k) == FALSE

\* A rotated session within ROTATION_GRACE_SECONDS.
InGrace(k) == session[k].rotated = "grace"

\* refresh up to rotate_session, on an active account and a current version.
\* revoke_all_for_user runs at once; from here it can only be committed.
ReadRefresh(s) ==
  /\ At(s, "refresh")
  /\ LET c == call[s]
         k == c.key
         u == OwnerOf[c.by] IN
     /\ account[u].active /\ c.version = account[u].version
     /\ Goes(s, IF ~session[k].revoked /\ session[k].rotated = "no"
                THEN [op |-> "rotate", by |-> c.by, key |-> k]
                ELSE IF ~session[k].revoked /\ InGrace(k)
                THEN [op |-> "issue", by |-> c.by, from |-> k, key |-> None]
                ELSE [op |-> "reuse", by |-> c.by, key |-> k])
  /\ UNCHANGED <<account, session, attempts, jar, lost, failures>>

\* The successor, and rotated_at of the old row, which waits for its lock.
CommitRotate(s) == \E k \in Keys :
  /\ At(s, "rotate") /\ session[k] = None /\ call[s].key \notin Held(s)
  /\ session' = [NewSession(k, OwnerOf[call[s].by], session)
                   EXCEPT ![call[s].key].rotated = "grace"]
  /\ Goes(s, [op |-> "issue", by |-> call[s].by, from |-> call[s].key, key |-> k])
  /\ UNCHANGED <<account, attempts, jar, lost, failures>>

CommitReuse(s) ==
  /\ At(s, "reuse")
  /\ session' = Revoked(Live(OwnerOf[call[s].by]), session)
  /\ Goes(s, None)
  /\ UNCHANGED <<account, attempts, jar, lost, failures>>

\* A minute: longer than a request and its answer take, so no call that carries
\* the session or its successor is in flight any more.
GraceEnds(k) ==
  /\ session[k] # None /\ session[k].rotated = "grace"
  /\ \A s \in Slots : call[s] # None =>
       /\ call[s].op \in {"refresh", "rotate"} => call[s].key # k
       /\ call[s].op \in {"issue", "answer"} => call[s].from # k
  /\ session' = [session EXCEPT ![k].rotated = "old"]
  /\ UNCHANGED <<account, attempts, jar, call, lost, failures>>

\* The tokens are made after the commit, from the row as it is by then.
Issue(s) ==
  /\ At(s, "issue")
  /\ Goes(s, [op |-> "answer", by |-> call[s].by, from |-> call[s].from, key |-> call[s].key,
              version |-> account[OwnerOf[call[s].by]].version])
  /\ UNCHANGED <<account, session, attempts, jar, lost, failures>>

\* The answer reaches the browser; without a key it is an access token only.
Arrive(s) ==
  /\ At(s, "answer")
  /\ LET c == call[s] IN
     jar' = [jar EXCEPT ![c.by] =
       [key |-> IF c.key # None THEN c.key ELSE @.key,
        version |-> IF c.key # None THEN c.version ELSE @.version,
        access |-> c.version]]
  /\ Goes(s, None)
  /\ UNCHANGED <<account, session, attempts, lost, failures>>

Lose(s) ==
  /\ At(s, "answer")
  /\ lost' = lost \cup ({call[s].from} \ {None})
  /\ Goes(s, None)
  /\ UNCHANGED <<account, session, attempts, jar, failures>>

-------------------------------------------------------------------------------
(* The end of sessions *)

\* get_current_user.  A token that expires, or a tab that is closed, is a browser
\* that makes no such call.
Authenticated(b) ==
  /\ jar[b].access # None
  /\ account[OwnerOf[b]].active /\ jar[b].access = account[OwnerOf[b]].version

Logout(s, b) ==
  /\ jar[b].key # None /\ jar[b].key \notin Held(s)
  /\ session' = Revoked({jar[b].key}, session)
  /\ Begins(s, [op |-> "logout", by |-> b])
  /\ UNCHANGED <<account, attempts, jar, lost, failures>>

\* delete_cookie
ArriveLogout(s) ==
  /\ At(s, "logout")
  /\ jar' = [jar EXCEPT ![call[s].by] = Empty]
  /\ Goes(s, None)
  /\ UNCHANGED <<account, session, attempts, lost, failures>>

\* Another of one's own sessions, from the list.
RevokeMySession(b, k) ==
  /\ Authenticated(b) /\ ~account[OwnerOf[b]].must
  /\ k \in Live(OwnerOf[b]) /\ \A s \in Slots : k \notin Held(s)
  /\ session' = Revoked({k}, session)
  /\ UNCHANGED <<account, attempts, jar, call, lost, failures>>

\* change_password: reads the row and revokes what is live; with the right
\* current password.  The rows it revokes stay locked until it ends.
BeginChange(s, b) ==
  /\ Authenticated(b) /\ account[OwnerOf[b]].version < MaxVersion
  /\ Live(OwnerOf[b]) \cap Held(s) = {}
  /\ Begins(s, [op |-> "change", by |-> b, read |-> account[OwnerOf[b]],
                keys |-> Live(OwnerOf[b])])
  /\ UNCHANGED <<account, session, attempts, jar, lost, failures>>

\* Only the columns that differ from the row read are written.
Written(row, read, must) ==
  [row EXCEPT !.version = read.version + 1, !.must = IF must # read.must THEN must ELSE @]

CommitChange(s) == \E k \in Keys :
  /\ At(s, "change") /\ session[k] = None
  /\ LET u == OwnerOf[call[s].by] IN
     /\ account' = [account EXCEPT ![u] = Written(@, call[s].read, FALSE)]
     /\ session' = NewSession(k, u, Revoked(call[s].keys, session))
  /\ Goes(s, [op |-> "issue", by |-> call[s].by, from |-> None, key |-> k])
  /\ UNCHANGED <<attempts, jar, lost, failures>>

\* update_user with a password: HR sets a temporary one.
BeginReset(s, u) ==
  /\ account[u].version < MaxVersion
  /\ Live(u) \cap Held(s) = {}
  /\ Begins(s, [op |-> "reset", user |-> u, read |-> account[u], keys |-> Live(u)])
  /\ UNCHANGED <<account, session, attempts, jar, lost, failures>>

CommitReset(s) ==
  /\ At(s, "reset")
  /\ account' = [account EXCEPT ![call[s].user] = Written(@, call[s].read, TRUE)]
  /\ session' = Revoked(call[s].keys, session)
  /\ Goes(s, None)
  /\ UNCHANGED <<attempts, jar, lost, failures>>

\* update_user with is_active
SetActive(u) ==
  /\ account' = [account EXCEPT ![u].active = ~@]
  /\ UNCHANGED <<session, attempts, jar, call, lost, failures>>

Next ==
  \/ \E s \in Slots, b \in Browsers :
       BeginFail(s, b) \/ BeginLogin(s, b) \/ SendRefresh(s, b) \/ Logout(s, b) \/ BeginChange(s, b)
  \/ \E s \in Slots :
       \/ Rollback(s) \/ CommitFail(s) \/ CommitLogin(s) \/ ReadRefresh(s) \/ CommitRotate(s)
       \/ CommitReuse(s) \/ Issue(s) \/ Arrive(s) \/ Lose(s) \/ ArriveLogout(s)
       \/ CommitChange(s) \/ CommitReset(s)
  \/ \E s \in Slots, u \in Users : BeginReset(s, u)
  \/ \E u \in Users : WindowPasses(u) \/ LockRunsOut(u) \/ SetActive(u)
  \/ \E k \in Keys : GraceEnds(k)
  \/ \E b \in Browsers, k \in Keys : RevokeMySession(b, k)
  \/ Purge

Spec == Init /\ [][Next]_vars
-------------------------------------------------------------------------------
(* Properties *)

\* Only a session that was ended on purpose, or whose successor the browser never
\* received, is taken for a reuse: tabs that refresh together, late answers and a
\* refresh beside a login never throw a user out.
ReuseIsReal ==
  \A s \in Slots : At(s, "reuse") =>
    session[call[s].key].revoked \/ call[s].key \in lost

\* A lock stands on as many failures as it takes, since the last login that
\* overlapped no failing attempt: failures counted before it do not come back
\* through a row that was read earlier.
LocksAreEarned ==
  \A u \in Users : IsLocked(u) => failures[u] >= login_max_failed_attempts
===============================================================================
