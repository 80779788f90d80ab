---------------------------- MODULE SessionsProofs ----------------------------
(***************************************************************************)
(* Theorems about Sessions, for any number of users, browsers and calls.   *)
(***************************************************************************)
EXTENDS Sessions, TLAPS

\* A call that brings session k, that uses it, that brings its successor.
Carries(s, k) == (At(s, "issue") \/ At(s, "answer")) /\ call[s].key = k
Uses(s, k) == (At(s, "refresh") \/ At(s, "rotate")) /\ call[s].key = k
Follows(s, k) ==
  (At(s, "issue") \/ At(s, "answer")) /\ call[s].from = k /\ call[s].key # None

Reuses(s, k) == At(s, "reuse") /\ call[s].key = k

\* What is about a session is about a row there is.
Born ==
  \A k \in Keys : session[k] = None =>
    /\ \A b \in Browsers : jar[b].key # k
    /\ \A s \in Slots : ~Carries(s, k) /\ ~Uses(s, k) /\ ~Follows(s, k) /\ ~Reuses(s, k)

\* A session on its way to a browser is nowhere else, and has not been used.
OneWay ==
  \A s \in Slots, k \in Keys : Carries(s, k) =>
    /\ session[k] # None /\ session[k].user = OwnerOf[call[s].by]
    /\ session[k].rotated = "no"
    /\ \A b \in Browsers : jar[b].key # k
    /\ \A r \in Slots : ~Uses(r, k) /\ ~Follows(r, k) /\ (r # s => ~Carries(r, k))

\* A session is in one browser, and the calls about it are that browser's.
OneBrowser ==
  \A b \in Browsers, k \in Keys : jar[b].key = k =>
    /\ \A c \in Browsers : jar[c].key = k => c = b
    /\ \A s \in Slots : Uses(s, k) \/ Follows(s, k) => call[s].by = b

\* A rotated session still in its browser waits for its successor.
Awaited ==
  \A b \in Browsers, k \in Keys :
    jar[b].key = k /\ session[k].rotated = "grace" =>
      k \in lost \/ \E s \in Slots : Follows(s, k)

\* A session past its grace is used again only if its successor was lost.
Past(k) == session[k].rotated = "old" => session[k].revoked \/ k \in lost
PastUse ==
  /\ \A b \in Browsers, k \in Keys : jar[b].key = k => Past(k)
  /\ \A s \in Slots, k \in Keys : Uses(s, k) => Past(k)

\* What is counted, and what a failing call has read, are failures there were.
Counting ==
  /\ \A u \in Users : attempts[u] # None =>
       /\ attempts[u].count <= failures[u]
       /\ attempts[u].lock = "on" => failures[u] >= login_max_failed_attempts
  /\ \A s \in Slots : At(s, "fail") /\ call[s].row # None =>
       call[s].row.count <= failures[OwnerOf[call[s].by]]

Real ==
  \A s \in Slots, k \in Keys : Reuses(s, k) => session[k].revoked \/ k \in lost

Chain == Born /\ OneWay /\ OneBrowser /\ Awaited /\ PastUse /\ Real
IInv == TypeOK /\ Chain /\ Counting

USE DEF AccountRows, SessionRows, AttemptRows, Jars

-------------------------------------------------------------------------------
LEMMA InitInv == Init => IInv
  BY OwnerAssumption, NoneAssumption
  DEF Init, IInv, TypeOK, Chain, Born, OneWay, OneBrowser, Awaited, PastUse, Past,
      Real, Counting, Carries, Uses, Follows, Reuses, At, Empty

\* What a call in flight holds.
LEMMA CallFields ==
  ASSUME TypeOK, NEW s \in Slots, call[s] # None
  PROVE  /\ call[s] \in Calls
         /\ At(s, "reset") \/ call[s].by \in Browsers
         /\ At(s, "refresh") \/ At(s, "rotate") \/ At(s, "reuse") => call[s].key \in Keys
         /\ At(s, "refresh") \/ At(s, "answer") => call[s].version \in Nat
         /\ At(s, "issue") \/ At(s, "answer") => /\ call[s].from \in Keys \cup {None}
                                               /\ call[s].key \in Keys \cup {None}
         /\ At(s, "fail") => call[s].row \in AttemptRows \cup {None}
         /\ At(s, "change") \/ At(s, "reset") => /\ call[s].read \in AccountRows
                                               /\ call[s].keys \in SUBSET Keys
         /\ At(s, "reset") => call[s].user \in Users
  BY DEF TypeOK, Calls, At

LEMMA CountStep == IInv /\ [Next]_vars => Counting'
<1> SUFFICES ASSUME IInv, [Next]_vars PROVE Counting'
  OBVIOUS
<1> USE OwnerAssumption, NoneAssumption
<1>1. ASSUME NEW s \in Slots, NEW b \in Browsers, BeginFail(s, b) PROVE Counting'
  BY <1>1 DEF IInv, TypeOK, Counting, At, Calls, BeginFail, Begins, IsLocked
<1>2. ASSUME NEW s \in Slots, NEW b \in Browsers, BeginLogin(s, b) PROVE Counting'
  BY <1>2 DEF IInv, TypeOK, Counting, At, Calls, BeginLogin, Begins, IsLocked
<1>3. ASSUME NEW s \in Slots, NEW b \in Browsers, SendRefresh(s, b) PROVE Counting'
  BY <1>3 DEF IInv, TypeOK, Counting, At, Calls, SendRefresh, Begins
<1>4. ASSUME NEW s \in Slots, NEW b \in Browsers, Logout(s, b) PROVE Counting'
  BY <1>4 DEF IInv, TypeOK, Counting, At, Calls, Logout, Begins, Revoked
<1>5. ASSUME NEW s \in Slots, NEW b \in Browsers, BeginChange(s, b) PROVE Counting'
  BY <1>5 DEF IInv, TypeOK, Counting, At, Calls, BeginChange, Begins, Live, Authenticated
<1>6. ASSUME NEW s \in Slots, Rollback(s) PROVE Counting'
  BY <1>6 DEF IInv, TypeOK, Counting, At, Calls, Rollback, Goes
<1>7. ASSUME NEW s \in Slots, CommitFail(s) PROVE Counting'
  <2> DEFINE u == OwnerOf[call[s].by]
             read == call[s].row
  <2>1. /\ call[s] # None /\ call[s].by \in Browsers /\ u \in Users
        /\ read \in AttemptRows \cup {None} /\ failures[u] \in Nat
        /\ attempts[u] \in AttemptRows \cup {None}
        /\ read # None => read.count <= failures[u]
    BY <1>7, CallFields DEF IInv, TypeOK, Counting, At, CommitFail
  <2>2. /\ (read = None) = (attempts[u] = None)
        /\ failures' = [failures EXCEPT ![u] = @ + 1]
        /\ call' = [call EXCEPT ![s] = None]
        /\ attempts' = [attempts EXCEPT ![u] =
             IF read # None THEN Updated(attempts[u], read)
             ELSE [count |-> IF Locks(None) THEN 0 ELSE 1,
                   lock |-> IF Locks(None) THEN "on" ELSE "none", recent |-> TRUE]]
    BY <1>7 DEF CommitFail, Goes
  <2>3. /\ failures'[u] = failures[u] + 1
        /\ \A v \in Users : failures'[v] \in Nat /\ failures'[v] >= failures[v]
    BY <2>1, <2>2 DEF IInv, TypeOK
  <2>4. /\ attempts'[u].count <= failures'[u]
        /\ attempts'[u].lock = "on" => failures'[u] >= login_max_failed_attempts
    <3>1. CASE read = None
      <4>1. /\ attempts'[u].count \in {0, 1}
            /\ attempts'[u].lock = "on" => 1 >= login_max_failed_attempts
        BY <2>1, <2>2, <3>1 DEF Locks, Counted, IInv, TypeOK
      <4> QED BY <2>1, <2>3, <4>1, LimitAssumption
    <3>2. CASE read # None
      <4>1. attempts[u] # None /\ attempts'[u] = Updated(attempts[u], read)
        BY <2>1, <2>2, <3>2 DEF IInv, TypeOK
      <4>2. Counted(read) \in Nat /\ Counted(read) <= failures[u] + 1
        BY <2>1, <3>2 DEF Counted
      <4>3. /\ attempts[u].count \in Nat /\ attempts[u].count <= failures[u]
            /\ attempts[u].lock = "on" => failures[u] >= login_max_failed_attempts
        BY <2>1, <4>1 DEF IInv, Counting
      <4>4. Locks(read) => failures[u] + 1 >= login_max_failed_attempts
        BY <2>1, <4>2, LimitAssumption DEF Locks
      <4>5. attempts'[u].count \in {0, Counted(read), attempts[u].count}
        BY <4>1 DEF Updated
      <4>6. attempts'[u].lock = "on" => Locks(read) \/ attempts[u].lock = "on"
        BY <4>1 DEF Updated
      <4> QED BY <2>1, <2>3, <4>2, <4>3, <4>4, <4>5, <4>6, LimitAssumption
    <3> QED BY <3>1, <3>2
  <2>5. \A v \in Users \ {u} : attempts'[v] = attempts[v]
    BY <2>1, <2>2 DEF IInv, TypeOK
  <2>6. \A v \in Users : attempts[v] # None =>
          attempts[v].count \in Nat /\ failures[v] \in Nat
    BY DEF IInv, TypeOK
  <2>7. \A r \in Slots : At(r, "fail")' =>
          /\ r # s /\ call'[r] = call[r] /\ At(r, "fail")
          /\ call[r].by \in Browsers /\ call[r].row \in AttemptRows \cup {None}
    BY <2>2, CallFields DEF IInv, TypeOK, At
  <2> HIDE DEF u, read
  <2>8. \A v \in Users : attempts'[v] # None =>
          /\ attempts'[v].count <= failures'[v]
          /\ attempts'[v].lock = "on" => failures'[v] >= login_max_failed_attempts
    BY <2>3, <2>4, <2>5, <2>6, LimitAssumption DEF IInv, Counting
  <2>9. \A r \in Slots : At(r, "fail")' /\ call'[r].row # None =>
          call'[r].row.count <= failures'[OwnerOf[call'[r].by]]
    BY <2>3, <2>7 DEF IInv, Counting, TypeOK
  <2> QED BY <2>8, <2>9 DEF Counting
<1>8. ASSUME NEW s \in Slots, CommitLogin(s) PROVE Counting'
  BY <1>8 DEF IInv, TypeOK, Counting, At, Calls, CommitLogin, Goes, Cleared, NewSession
<1>9. ASSUME NEW s \in Slots, ReadRefresh(s) PROVE Counting'
  BY <1>9 DEF IInv, TypeOK, Counting, At, Calls, ReadRefresh, Goes, InGrace
<1>10. ASSUME NEW s \in Slots, CommitRotate(s) PROVE Counting'
  BY <1>10 DEF IInv, TypeOK, Counting, At, Calls, CommitRotate, Goes, NewSession
<1>11. ASSUME NEW s \in Slots, CommitReuse(s) PROVE Counting'
  BY <1>11 DEF IInv, TypeOK, Counting, At, Calls, CommitReuse, Goes, Revoked, Live
<1>12. ASSUME NEW s \in Slots, Issue(s) PROVE Counting'
  BY <1>12 DEF IInv, TypeOK, Counting, At, Calls, Issue, Goes
<1>13. ASSUME NEW s \in Slots, Arrive(s) PROVE Counting'
  BY <1>13 DEF IInv, TypeOK, Counting, At, Calls, Arrive, Goes
<1>14. ASSUME NEW s \in Slots, Lose(s) PROVE Counting'
  BY <1>14 DEF IInv, TypeOK, Counting, At, Calls, Lose, Goes
<1>15. ASSUME NEW s \in Slots, ArriveLogout(s) PROVE Counting'
  BY <1>15 DEF IInv, TypeOK, Counting, At, Calls, ArriveLogout, Goes, Empty
<1>16. ASSUME NEW s \in Slots, CommitChange(s) PROVE Counting'
  BY <1>16 DEF IInv, TypeOK, Counting, At, Calls, CommitChange, Goes, NewSession, Revoked, Written
<1>17. ASSUME NEW s \in Slots, CommitReset(s) PROVE Counting'
  BY <1>17 DEF IInv, TypeOK, Counting, At, Calls, CommitReset, Goes, Revoked, Written
<1>18. ASSUME NEW s \in Slots, NEW u \in Users, BeginReset(s, u) PROVE Counting'
  BY <1>18 DEF IInv, TypeOK, Counting, At, Calls, BeginReset, Begins, Live
<1>19. ASSUME NEW u \in Users, WindowPasses(u) PROVE Counting'
  BY <1>19 DEF IInv, TypeOK, Counting, At, Calls, WindowPasses
<1>20. ASSUME NEW u \in Users, LockRunsOut(u) PROVE Counting'
  BY <1>20 DEF IInv, TypeOK, Counting, At, Calls, LockRunsOut, IsLocked
<1>21. ASSUME NEW u \in Users, SetActive(u) PROVE Counting'
  BY <1>21 DEF IInv, TypeOK, Counting, At, Calls, SetActive
<1>22. ASSUME NEW k \in Keys, GraceEnds(k) PROVE Counting'
  BY <1>22 DEF IInv, TypeOK, Counting, At, Calls, GraceEnds
<1>23. ASSUME NEW b \in Browsers, NEW k \in Keys, RevokeMySession(b, k) PROVE Counting'
  BY <1>23 DEF IInv, TypeOK, Counting, At, Calls, RevokeMySession, Revoked
<1>24. ASSUME Purge PROVE Counting'
  BY <1>24 DEF IInv, TypeOK, Counting, At, Calls, Purge
<1>25. CASE UNCHANGED vars
  BY <1>25 DEF IInv, TypeOK, Counting, At, Calls, vars
<1> QED BY <1>1, <1>2, <1>3, <1>4, <1>5, <1>6, <1>7, <1>8, <1>9, <1>10, <1>11, <1>12, <1>13, <1>14, <1>15, <1>16, <1>17, <1>18, <1>19, <1>20, <1>21, <1>22, <1>23, <1>24, <1>25 DEF Next

\* A step that rotates nothing, sends nothing and brings nothing new.
Ended ==
  \A k \in Keys :
    /\ session'[k] = None <=> session[k] = None
    /\ session[k] # None => /\ session'[k].user = session[k].user
                            /\ session'[k].rotated = session[k].rotated
                            /\ session[k].revoked => session'[k].revoked
NoNews(s) ==
  \A k \in Keys :
    /\ Carries(s, k)' => Carries(s, k)
    /\ Uses(s, k)' => Uses(s, k)
    /\ Follows(s, k)' => Follows(s, k)
    /\ Follows(s, k) => Follows(s, k)' \/ k \in lost'
    /\ Reuses(s, k)' => Reuses(s, k)
    /\ Carries(s, k)' \/ Uses(s, k)' \/ Follows(s, k)' => call'[s].by = call[s].by
Quiet ==
  /\ Ended
  /\ \A b \in Browsers : jar'[b].key \in {jar[b].key, None}
  /\ lost \subseteq lost'
  /\ \A s \in Slots : NoNews(s)

LEMMA QuietStep == TypeOK /\ Chain /\ Quiet => Chain'
<1> SUFFICES ASSUME TypeOK, Chain, Quiet PROVE Chain'
  OBVIOUS
<1> USE NoneAssumption DEF Chain, Quiet, Ended, NoNews
<1>1. Born'
  BY DEF Born
<1>2. OneWay'
  BY DEF OneWay
<1>3. OneBrowser'
  BY DEF OneBrowser
<1>4. Awaited'
  BY DEF Awaited, Born
<1>5. PastUse'
  BY DEF PastUse, Past, Born
<1>6. Real'
  BY DEF Real, Born
<1> QED BY <1>1, <1>2, <1>3, <1>4, <1>5, <1>6

\* A call moves alone.
LEMMA Others ==
  ASSUME TypeOK, NEW s \in Slots, NEW c, call' = [call EXCEPT ![s] = c]
  PROVE  /\ call'[s] = c
         /\ \A r \in Slots \ {s}, k \in Keys :
              /\ call'[r] = call[r]
              /\ Carries(r, k)' <=> Carries(r, k)
              /\ Uses(r, k)' <=> Uses(r, k)
              /\ Follows(r, k)' <=> Follows(r, k)
              /\ Reuses(r, k)' <=> Reuses(r, k)
  BY DEF TypeOK, Carries, Uses, Follows, Reuses, At

\* Rows of sessions after an UPDATE or an INSERT.
LEMMA RowKept ==
  ASSUME NEW row \in SessionRows, NEW x \in {"no", "grace", "old"}
  PROVE  /\ [row EXCEPT !.revoked = TRUE] \in SessionRows
         /\ [row EXCEPT !.revoked = TRUE] # None
         /\ [row EXCEPT !.rotated = x] \in SessionRows
         /\ [row EXCEPT !.rotated = x] # None
  BY NoneAssumption DEF SessionRows

LEMMA RevokedRows ==
  ASSUME session \in [Keys -> SessionRows \cup {None}], NEW K
  PROVE  /\ Revoked(K, session) \in [Keys -> SessionRows \cup {None}]
         /\ \A k \in Keys : Revoked(K, session)[k] = None <=> session[k] = None
         /\ \A k \in Keys : session[k] # None =>
              /\ Revoked(K, session)[k].user = session[k].user
              /\ Revoked(K, session)[k].rotated = session[k].rotated
              /\ session[k].revoked => Revoked(K, session)[k].revoked
<1>1. \A k \in Keys : session[k] # None => session[k] \in SessionRows
  OBVIOUS
<1>2. ASSUME NEW k \in Keys, session[k] # None
      PROVE  /\ Revoked(K, session)[k] \in SessionRows
             /\ Revoked(K, session)[k].user = session[k].user
             /\ Revoked(K, session)[k].rotated = session[k].rotated
             /\ session[k].revoked => Revoked(K, session)[k].revoked
  BY <1>1, <1>2, RowKept DEF Revoked, SessionRows
<1>3. \A k \in Keys : session[k] = None => Revoked(K, session)[k] = None
  BY DEF Revoked
<1>4. Revoked(K, session) \in [Keys -> SessionRows \cup {None}]
  BY <1>2, <1>3 DEF Revoked
<1> QED BY <1>2, <1>3, <1>4, NoneAssumption

LEMMA NewRow ==
  ASSUME NEW rows \in [Keys -> SessionRows \cup {None}], NEW k \in Keys, NEW u \in Users
  PROVE  /\ NewSession(k, u, rows) \in [Keys -> SessionRows \cup {None}]
         /\ NewSession(k, u, rows)[k] # None
         /\ NewSession(k, u, rows)[k].user = u
         /\ NewSession(k, u, rows)[k].rotated = "no"
         /\ \A j \in Keys \ {k} : NewSession(k, u, rows)[j] = rows[j]
<1>1. [user |-> u, rotated |-> "no", revoked |-> FALSE] \in SessionRows
  BY DEF SessionRows
<1> QED BY <1>1, NoneAssumption DEF NewSession

LEMMA ChainStep == IInv /\ [Next]_vars => Chain'
<1> SUFFICES ASSUME IInv, [Next]_vars PROVE Chain'
  OBVIOUS
<1> USE OwnerAssumption, NoneAssumption DEF IInv
<1>1. ASSUME NEW s \in Slots, NEW b \in Browsers, BeginFail(s, b) PROVE Chain'
  <2>1. call' = [call EXCEPT ![s] = call'[s]]
    BY <1>1 DEF TypeOK, BeginFail, Begins, IsLocked
  <2>2. NoNews(s)
    BY <1>1, <2>1, CallFields DEF TypeOK, NoNews, Carries, Uses, Follows, Reuses, At, BeginFail, Begins, IsLocked
  <2>3. \A r \in Slots : NoNews(r)
    BY <2>1, <2>2, Others DEF NoNews
  <2>4. Ended /\ lost \subseteq lost'
    BY <1>1 DEF TypeOK, Ended, BeginFail, Begins, IsLocked
  <2>5. \A d \in Browsers : jar'[d].key \in {jar[d].key, None}
    BY <1>1 DEF TypeOK, BeginFail, Begins, IsLocked
  <2> QED BY <2>3, <2>4, <2>5, QuietStep DEF Quiet
<1>2. ASSUME NEW s \in Slots, NEW b \in Browsers, BeginLogin(s, b) PROVE Chain'
  <2>1. call' = [call EXCEPT ![s] = call'[s]]
    BY <1>2 DEF TypeOK, BeginLogin, Begins, IsLocked
  <2>2. NoNews(s)
    BY <1>2, <2>1, CallFields DEF TypeOK, NoNews, Carries, Uses, Follows, Reuses, At, BeginLogin, Begins, IsLocked
  <2>3. \A r \in Slots : NoNews(r)
    BY <2>1, <2>2, Others DEF NoNews
  <2>4. Ended /\ lost \subseteq lost'
    BY <1>2 DEF TypeOK, Ended, BeginLogin, Begins, IsLocked
  <2>5. \A d \in Browsers : jar'[d].key \in {jar[d].key, None}
    BY <1>2 DEF TypeOK, BeginLogin, Begins, IsLocked
  <2> QED BY <2>3, <2>4, <2>5, QuietStep DEF Quiet
<1>3. ASSUME NEW s \in Slots, NEW b \in Browsers, SendRefresh(s, b) PROVE Chain'
  <2>1. /\ call' = [call EXCEPT ![s] = call'[s]] /\ call[s] = None
        /\ jar[b].key \in Keys /\ call'[s].by = b
        /\ \A j \in Keys : /\ ~Carries(s, j)' /\ ~Follows(s, j)' /\ ~Reuses(s, j)'
                           /\ ~Carries(s, j) /\ ~Follows(s, j)
                           /\ Uses(s, j)' => j = jar[b].key
    BY <1>3 DEF TypeOK, Carries, Uses, Follows, Reuses, At, SendRefresh, Begins
  <2>2. session' = session /\ jar' = jar /\ lost' = lost
    BY <1>3 DEF SendRefresh
  <2>3. \A r \in Slots \ {s}, j \in Keys :
          /\ call'[r] = call[r]
          /\ Carries(r, j)' <=> Carries(r, j)
          /\ Uses(r, j)' <=> Uses(r, j)
          /\ Follows(r, j)' <=> Follows(r, j)
          /\ Reuses(r, j)' <=> Reuses(r, j)
    BY <2>1, Others
  <2>4. Born'
    BY <2>1, <2>2, <2>3 DEF Chain, Born, OneWay, OneBrowser, Born
  <2>5. OneWay'
    BY <2>1, <2>2, <2>3 DEF Chain, Born, OneWay, OneBrowser, OneWay
  <2>6. OneBrowser'
    BY <2>1, <2>2, <2>3 DEF Chain, Born, OneWay, OneBrowser, OneBrowser
  <2>7. Awaited'
    BY <2>1, <2>2, <2>3 DEF Chain, Born, OneWay, OneBrowser, Awaited
  <2>8. PastUse'
    BY <2>1, <2>2, <2>3 DEF Chain, Born, OneWay, OneBrowser, Awaited, PastUse, Past
  <2>9. Real'
    BY <2>1, <2>2, <2>3 DEF Chain, Born, OneWay, OneBrowser, PastUse, Past, Real
  <2> QED BY <2>4, <2>5, <2>6, <2>7, <2>8, <2>9 DEF Chain
<1>4. ASSUME NEW s \in Slots, NEW b \in Browsers, Logout(s, b) PROVE Chain'
  <2>1. call' = [call EXCEPT ![s] = call'[s]]
    BY <1>4 DEF TypeOK, Logout, Begins, Revoked
  <2>2. NoNews(s)
    BY <1>4, <2>1, CallFields DEF TypeOK, NoNews, Carries, Uses, Follows, Reuses, At, Logout, Begins, Revoked
  <2>3. \A r \in Slots : NoNews(r)
    BY <2>1, <2>2, Others DEF NoNews
  <2>4. Ended /\ lost \subseteq lost'
    BY <1>4, RevokedRows DEF TypeOK, Ended, Logout
  <2>5. \A d \in Browsers : jar'[d].key \in {jar[d].key, None}
    BY <1>4 DEF TypeOK, Logout, Begins, Revoked
  <2> QED BY <2>3, <2>4, <2>5, QuietStep DEF Quiet
<1>5. ASSUME NEW s \in Slots, NEW b \in Browsers, BeginChange(s, b) PROVE Chain'
  <2>1. call' = [call EXCEPT ![s] = call'[s]]
    BY <1>5 DEF TypeOK, BeginChange, Begins, Live, Authenticated
  <2>2. NoNews(s)
    BY <1>5, <2>1, CallFields DEF TypeOK, NoNews, Carries, Uses, Follows, Reuses, At, BeginChange, Begins, Live, Authenticated
  <2>3. \A r \in Slots : NoNews(r)
    BY <2>1, <2>2, Others DEF NoNews
  <2>4. Ended /\ lost \subseteq lost'
    BY <1>5 DEF TypeOK, Ended, BeginChange, Begins, Live, Authenticated
  <2>5. \A d \in Browsers : jar'[d].key \in {jar[d].key, None}
    BY <1>5 DEF TypeOK, BeginChange, Begins, Live, Authenticated
  <2> QED BY <2>3, <2>4, <2>5, QuietStep DEF Quiet
<1>6. ASSUME NEW s \in Slots, Rollback(s) PROVE Chain'
  <2>1. call' = [call EXCEPT ![s] = call'[s]]
    BY <1>6 DEF TypeOK, Rollback, Goes
  <2>2. NoNews(s)
    BY <1>6, <2>1, CallFields DEF TypeOK, NoNews, Carries, Uses, Follows, Reuses, At, Rollback, Goes
  <2>3. \A r \in Slots : NoNews(r)
    BY <2>1, <2>2, Others DEF NoNews
  <2>4. Ended /\ lost \subseteq lost'
    BY <1>6 DEF TypeOK, Ended, Rollback, Goes
  <2>5. \A d \in Browsers : jar'[d].key \in {jar[d].key, None}
    BY <1>6 DEF TypeOK, Rollback, Goes
  <2> QED BY <2>3, <2>4, <2>5, QuietStep DEF Quiet
<1>7. ASSUME NEW s \in Slots, CommitFail(s) PROVE Chain'
  <2>1. call' = [call EXCEPT ![s] = call'[s]]
    BY <1>7 DEF TypeOK, CommitFail, Goes, Updated, Counted, Locks
  <2>2. NoNews(s)
    BY <1>7, <2>1, CallFields DEF TypeOK, NoNews, Carries, Uses, Follows, Reuses, At, CommitFail, Goes, Updated, Counted, Locks
  <2>3. \A r \in Slots : NoNews(r)
    BY <2>1, <2>2, Others DEF NoNews
  <2>4. Ended /\ lost \subseteq lost'
    BY <1>7 DEF TypeOK, Ended, CommitFail, Goes, Updated, Counted, Locks
  <2>5. \A d \in Browsers : jar'[d].key \in {jar[d].key, None}
    BY <1>7 DEF TypeOK, CommitFail, Goes, Updated, Counted, Locks
  <2> QED BY <2>3, <2>4, <2>5, QuietStep DEF Quiet
<1>8. ASSUME NEW s \in Slots, CommitLogin(s) PROVE Chain'
  <2>1. call' = [call EXCEPT ![s] = call'[s]]
    BY <1>8 DEF TypeOK, CommitLogin, Goes, Cleared, NewSession
  <2>2. PICK k \in Keys : /\ session[k] = None
                         /\ session' = NewSession(k, OwnerOf[call[s].by], session)
                         /\ call'[s] = [op |-> "issue", by |-> call[s].by, from |-> None, key |-> k]
    BY <1>8, <2>1 DEF TypeOK, CommitLogin, Goes
  <2>3. /\ call[s].by \in Browsers /\ call'[s].by = call[s].by
        /\ \A j \in Keys : /\ Carries(s, j)' => j = k
                           /\ ~Uses(s, j)' /\ ~Follows(s, j)' /\ ~Reuses(s, j)'
                           /\ ~Follows(s, j)
    BY <1>8, <2>1, <2>2, CallFields DEF CommitLogin, TypeOK, Carries, Uses, Follows, Reuses, At
  <2>4. /\ session'[k] # None /\ session'[k].user = OwnerOf[call[s].by]
        /\ session'[k].rotated = "no"
        /\ \A j \in Keys \ {k} :
             /\ session'[j] = None <=> session[j] = None
             /\ session[j] # None => /\ session'[j].user = session[j].user
                                     /\ session'[j].rotated = session[j].rotated
                                     /\ session[j].revoked => session'[j].revoked
    <3> DEFINE rows == session
    <3>1. /\ rows \in [Keys -> SessionRows \cup {None}]
          /\ \A j \in Keys : rows[j] = None <=> session[j] = None
          /\ \A j \in Keys : session[j] # None =>
               /\ rows[j].user = session[j].user /\ rows[j].rotated = session[j].rotated
               /\ session[j].revoked => rows[j].revoked
      BY RevokedRows DEF TypeOK
    <3>2. OwnerOf[call[s].by] \in Users
      BY <2>3
    <3>3. session' = NewSession(k, OwnerOf[call[s].by], rows)
      BY <2>2
    <3> HIDE DEF rows
    <3> QED BY <3>1, <3>2, <3>3, NewRow
  <2>5. jar' = jar /\ lost' = lost
    BY <1>8 DEF CommitLogin
  <2>6. \A r \in Slots \ {s}, j \in Keys :
          /\ call'[r] = call[r]
          /\ Carries(r, j)' <=> Carries(r, j)
          /\ Uses(r, j)' <=> Uses(r, j)
          /\ Follows(r, j)' <=> Follows(r, j)
          /\ Reuses(r, j)' <=> Reuses(r, j)
    BY <2>1, Others
  <2>7. Born'
    BY <2>2, <2>3, <2>4, <2>5, <2>6 DEF Chain, Born, OneWay, OneBrowser, Born
  <2>8. OneWay'
    BY <2>2, <2>3, <2>4, <2>5, <2>6 DEF Chain, Born, OneWay, OneBrowser, OneWay
  <2>9. OneBrowser'
    BY <2>2, <2>3, <2>4, <2>5, <2>6 DEF Chain, Born, OneWay, OneBrowser, OneBrowser
  <2>10. Awaited'
    BY <2>2, <2>3, <2>4, <2>5, <2>6 DEF Chain, Born, OneWay, OneBrowser, Awaited
  <2>11. PastUse'
    <3>1. ASSUME NEW j \in Keys, session[j] # None, Past(j) PROVE Past(j)'
      <4>1. j # k
        BY <2>2, <3>1
      <4> QED BY <4>1, <3>1, <2>4, <2>5 DEF Past
    <3>2. ASSUME NEW b \in Browsers, NEW j \in Keys, jar'[b].key = j PROVE Past(j)'
      <4>1. session[j] # None /\ Past(j)
        BY <3>2, <2>5 DEF Chain, Born, PastUse
      <4> QED BY <3>1, <4>1
    <3>3. ASSUME NEW r \in Slots, NEW j \in Keys, Uses(r, j)' PROVE Past(j)'
      <4>1. r # s /\ Uses(r, j)
        BY <3>3, <2>3, <2>6
      <4>2. session[j] # None /\ Past(j)
        BY <4>1 DEF Chain, Born, PastUse
      <4> QED BY <3>1, <4>2
    <3> QED BY <3>2, <3>3 DEF PastUse
  <2>12. Real'
    BY <2>2, <2>3, <2>4, <2>5, <2>6 DEF Chain, Born, OneWay, OneBrowser, PastUse, Past, Real
  <2> QED BY <2>7, <2>8, <2>9, <2>10, <2>11, <2>12 DEF Chain
<1>9. ASSUME NEW s \in Slots, ReadRefresh(s) PROVE Chain'
  <2>1. call' = [call EXCEPT ![s] = call'[s]]
    BY <1>9 DEF TypeOK, ReadRefresh, Goes, InGrace
  <2>2. /\ call[s].key \in Keys /\ Uses(s, call[s].key) /\ call'[s].by = call[s].by
        /\ \A j \in Keys : /\ ~Carries(s, j)' /\ ~Follows(s, j)' /\ ~Follows(s, j)
                           /\ Uses(s, j)' => Uses(s, j)
                           /\ Reuses(s, j)' => Uses(s, j)
                           /\ Reuses(s, j)' /\ session[j] # None =>
                                session[j].revoked \/ session[j].rotated = "old"
    <3>1. call[s] # None /\ call[s].op = "refresh"
      BY <1>9 DEF ReadRefresh, At
    <3>2. call[s].key \in Keys /\ session[call[s].key] \in SessionRows \cup {None}
      BY <3>1, CallFields DEF TypeOK, At
    <3>3. /\ call'[s].by = call[s].by
          /\ call'[s].op \in {"rotate", "issue", "reuse"}
          /\ call'[s].op = "issue" => call'[s].key = None
          /\ call'[s].op # "issue" => call'[s].key = call[s].key
          /\ call'[s].op = "reuse" /\ session[call[s].key] # None =>
               session[call[s].key].revoked \/ session[call[s].key].rotated = "old"
      BY <1>9, <2>1, <3>2 DEF ReadRefresh, Goes, InGrace, TypeOK
    <3> QED BY <3>1, <3>2, <3>3 DEF Carries, Uses, Follows, Reuses, At
  <2>3. session' = session /\ jar' = jar /\ lost' = lost
    BY <1>9 DEF ReadRefresh
  <2>4. \A r \in Slots \ {s}, j \in Keys :
          /\ call'[r] = call[r]
          /\ Carries(r, j)' <=> Carries(r, j)
          /\ Uses(r, j)' <=> Uses(r, j)
          /\ Follows(r, j)' <=> Follows(r, j)
          /\ Reuses(r, j)' <=> Reuses(r, j)
    BY <2>1, Others
  <2>5. Born'
    BY <2>2, <2>3, <2>4 DEF Chain, Born, OneWay, OneBrowser, Born
  <2>6. OneWay'
    BY <2>2, <2>3, <2>4 DEF Chain, Born, OneWay, OneBrowser, OneWay
  <2>7. OneBrowser'
    BY <2>2, <2>3, <2>4 DEF Chain, Born, OneWay, OneBrowser, OneBrowser
  <2>8. Awaited'
    BY <2>2, <2>3, <2>4 DEF Chain, Born, OneWay, OneBrowser, Awaited
  <2>9. PastUse'
    BY <2>2, <2>3, <2>4 DEF Chain, Born, OneWay, OneBrowser, Awaited, PastUse, Past
  <2>10. Real'
    BY <2>2, <2>3, <2>4 DEF Chain, Born, OneWay, OneBrowser, PastUse, Past, Real
  <2> QED BY <2>5, <2>6, <2>7, <2>8, <2>9, <2>10 DEF Chain
<1>10. ASSUME NEW s \in Slots, CommitRotate(s) PROVE Chain'
  <2>1. call' = [call EXCEPT ![s] = call'[s]]
    BY <1>10 DEF TypeOK, CommitRotate, Goes, NewSession
  <2> DEFINE old == call[s].key
  <2>2. PICK k \in Keys : /\ session[k] = None
                         /\ session' = [NewSession(k, OwnerOf[call[s].by], session)
                                          EXCEPT ![old].rotated = "grace"]
                         /\ call'[s] = [op |-> "issue", by |-> call[s].by, from |-> old, key |-> k]
    BY <1>10, <2>1 DEF TypeOK, CommitRotate, Goes
  <2>3. /\ call[s].by \in Browsers /\ old \in Keys /\ Uses(s, old)
        /\ \A j \in Keys : ~Follows(s, j) /\ ~Carries(s, j)
    <3>1. call[s] # None /\ call[s].op = "rotate"
      BY <1>10 DEF CommitRotate, At
    <3> QED BY <3>1, CallFields DEF Carries, Uses, Follows, Reuses, At
  <2>9. /\ call'[s].by = call[s].by
        /\ \A j \in Keys : /\ Carries(s, j)' => j = k
                           /\ Follows(s, j)' <=> j = old
                           /\ ~Uses(s, j)' /\ ~Reuses(s, j)'
    <3>1. call'[s] # None
      BY <2>2, <2>3 DEF Calls
    <3>2. /\ call'[s].op = "issue" /\ call'[s].by = call[s].by
          /\ call'[s].from = old /\ call'[s].key = k
      BY <2>2
    <3> QED BY <3>1, <3>2 DEF Carries, Uses, Follows, Reuses, At
  <2>4. session[old] # None /\ old # k /\ session[k] = None
    BY <2>2, <2>3 DEF Chain, Born
  <2>5. /\ session'[k] # None /\ session'[k].user = OwnerOf[call[s].by]
        /\ session'[k].rotated = "no"
        /\ \A j \in Keys \ {k} :
             /\ session'[j] = None <=> session[j] = None
             /\ session[j] # None => /\ session'[j].user = session[j].user
                                     /\ j # old => session'[j].rotated = session[j].rotated
                                     /\ j = old => session'[j].rotated = "grace"
                                     /\ session[j].revoked => session'[j].revoked
    <3>1. session[old] \in SessionRows
      BY <2>3, <2>4 DEF TypeOK
    <3> DEFINE rows == NewSession(k, OwnerOf[call[s].by], session)
    <3>2. /\ rows \in [Keys -> SessionRows \cup {None}] /\ rows[k] # None
          /\ rows[k].user = OwnerOf[call[s].by] /\ rows[k].rotated = "no"
          /\ \A j \in Keys \ {k} : rows[j] = session[j]
      BY <2>3, NewRow DEF TypeOK
    <3> DEFINE row == [session[old] EXCEPT !.rotated = "grace"]
    <3>3. session' = [rows EXCEPT ![old] = row]
      BY <2>2, <2>3, <2>4, <3>2
    <3>6. row \in SessionRows /\ row.user = session[old].user /\ row.rotated = "grace"
          /\ row.revoked = session[old].revoked /\ row # None
      BY <3>1, NoneAssumption DEF SessionRows
    <3> HIDE DEF rows, row
    <3>4. /\ session'[old] = row
          /\ \A j \in Keys \ {old} : session'[j] = rows[j]
      BY <2>3, <3>2, <3>3
    <3> QED BY <2>3, <2>4, <3>2, <3>4, <3>6
  <2>6. jar' = jar /\ lost' = lost
    BY <1>10 DEF CommitRotate
  <2>7. \A r \in Slots \ {s}, j \in Keys :
          /\ call'[r] = call[r]
          /\ Carries(r, j)' <=> Carries(r, j)
          /\ Uses(r, j)' <=> Uses(r, j)
          /\ Follows(r, j)' <=> Follows(r, j)
          /\ Reuses(r, j)' <=> Reuses(r, j)
    BY <2>1, Others
  <2> HIDE DEF old
  <2>10. Born'
    BY <2>3, <2>4, <2>5, <2>6, <2>7, <2>9 DEF Chain, Born, OneWay, OneBrowser, Born
  <2>11. OneWay'
    BY <2>3, <2>4, <2>5, <2>6, <2>7, <2>9 DEF Chain, Born, OneWay, OneBrowser, OneWay
  <2>12. OneBrowser'
    BY <2>3, <2>4, <2>5, <2>6, <2>7, <2>9 DEF Chain, Born, OneWay, OneBrowser, OneBrowser
  <2>13. Awaited'
    BY <2>3, <2>4, <2>5, <2>6, <2>7, <2>9 DEF Chain, Born, OneWay, OneBrowser, Awaited
  <2>14. PastUse'
    BY <2>3, <2>4, <2>5, <2>6, <2>7, <2>9 DEF Chain, Born, OneWay, OneBrowser, Awaited, PastUse, Past
  <2>15. Real'
    BY <2>3, <2>4, <2>5, <2>6, <2>7, <2>9 DEF Chain, Born, OneWay, OneBrowser, PastUse, Past, Real
  <2> QED BY <2>10, <2>11, <2>12, <2>13, <2>14, <2>15 DEF Chain
<1>11. ASSUME NEW s \in Slots, CommitReuse(s) PROVE Chain'
  <2>1. call' = [call EXCEPT ![s] = call'[s]]
    BY <1>11 DEF TypeOK, CommitReuse, Goes, Revoked, Live
  <2>2. NoNews(s)
    BY <1>11, <2>1, CallFields DEF TypeOK, NoNews, Carries, Uses, Follows, Reuses, At, CommitReuse, Goes, Revoked, Live
  <2>3. \A r \in Slots : NoNews(r)
    BY <2>1, <2>2, Others DEF NoNews
  <2>4. Ended /\ lost \subseteq lost'
    BY <1>11, RevokedRows DEF TypeOK, Ended, CommitReuse
  <2>5. \A d \in Browsers : jar'[d].key \in {jar[d].key, None}
    BY <1>11 DEF TypeOK, CommitReuse, Goes, Revoked, Live
  <2> QED BY <2>3, <2>4, <2>5, QuietStep DEF Quiet
<1>12. ASSUME NEW s \in Slots, Issue(s) PROVE Chain'
  <2>1. call' = [call EXCEPT ![s] = call'[s]]
    BY <1>12 DEF TypeOK, Issue, Goes
  <2>2. NoNews(s)
    <3>1. call[s] # None /\ call[s].op = "issue"
      BY <1>12 DEF Issue, At
    <3>2. /\ call'[s].op = "answer" /\ call'[s].by = call[s].by
          /\ call'[s].from = call[s].from /\ call'[s].key = call[s].key
      BY <1>12, <2>1 DEF TypeOK, Issue, Goes
    <3>3. call'[s] # None
      <4>1. call[s].by \in Browsers /\ account[OwnerOf[call[s].by]].version \in Nat
        BY <3>1, CallFields DEF TypeOK, At
      <4> QED BY <1>12, <3>1, <4>1, CallFields DEF TypeOK, Issue, Goes, Calls, At
    <3> QED BY <3>1, <3>2, <3>3 DEF NoNews, Carries, Uses, Follows, Reuses, At
  <2>3. \A r \in Slots : NoNews(r)
    BY <2>1, <2>2, Others DEF NoNews
  <2> QED BY <1>12, <2>3, QuietStep DEF Quiet, Ended, Issue, TypeOK
<1>13. ASSUME NEW s \in Slots, Arrive(s) PROVE Chain'
  <2>1. call' = [call EXCEPT ![s] = None]
    BY <1>13 DEF TypeOK, Arrive, Goes
  <2> DEFINE new == call[s].key
             old == call[s].from
  <2>2. /\ call[s].by \in Browsers /\ new \in Keys \cup {None}
        /\ \A j \in Keys : /\ ~Carries(s, j)' /\ ~Uses(s, j)' /\ ~Follows(s, j)' /\ ~Reuses(s, j)'
                           /\ Carries(s, j) <=> j = new
                           /\ Follows(s, j) <=> j = old /\ new # None
    BY <1>13, <2>1, CallFields DEF TypeOK, Carries, Uses, Follows, Reuses, At, Arrive, Goes
  <2>3. /\ jar'[call[s].by].key = IF new # None THEN new ELSE jar[call[s].by].key
        /\ \A d \in Browsers \ {call[s].by} : jar'[d].key = jar[d].key
        /\ session' = session /\ lost' = lost
    BY <1>13, <2>2 DEF TypeOK, Arrive
  <2>4. \A r \in Slots \ {s}, j \in Keys :
          /\ call'[r] = call[r]
          /\ Carries(r, j)' <=> Carries(r, j)
          /\ Uses(r, j)' <=> Uses(r, j)
          /\ Follows(r, j)' <=> Follows(r, j)
          /\ Reuses(r, j)' <=> Reuses(r, j)
    BY <2>1, Others
  <2> HIDE DEF new, old
  <2>5. Born'
    BY <2>1, <2>2, <2>3, <2>4 DEF Chain, Born, OneWay, OneBrowser, Born
  <2>6. OneWay'
    BY <2>1, <2>2, <2>3, <2>4 DEF Chain, Born, OneWay, OneBrowser, OneWay
  <2>7. OneBrowser'
    BY <2>1, <2>2, <2>3, <2>4 DEF Chain, Born, OneWay, OneBrowser, OneBrowser
  <2>8. Awaited'
    BY <2>1, <2>2, <2>3, <2>4 DEF Chain, Born, OneWay, OneBrowser, Awaited
  <2>9. PastUse'
    BY <2>1, <2>2, <2>3, <2>4 DEF Chain, Born, OneWay, OneBrowser, Awaited, PastUse, Past
  <2>10. Real'
    BY <2>1, <2>2, <2>3, <2>4 DEF Chain, Born, OneWay, OneBrowser, PastUse, Past, Real
  <2> QED BY <2>5, <2>6, <2>7, <2>8, <2>9, <2>10 DEF Chain
<1>14. ASSUME NEW s \in Slots, Lose(s) PROVE Chain'
  <2>1. call' = [call EXCEPT ![s] = call'[s]]
    BY <1>14 DEF TypeOK, Lose, Goes
  <2>2. NoNews(s)
    BY <1>14, <2>1, CallFields DEF TypeOK, NoNews, Carries, Uses, Follows, Reuses, At, Lose, Goes
  <2>3. \A r \in Slots : NoNews(r)
    BY <2>1, <2>2, Others DEF NoNews
  <2>4. Ended /\ lost \subseteq lost'
    BY <1>14 DEF TypeOK, Ended, Lose, Goes
  <2>5. \A d \in Browsers : jar'[d].key \in {jar[d].key, None}
    BY <1>14 DEF TypeOK, Lose, Goes
  <2> QED BY <2>3, <2>4, <2>5, QuietStep DEF Quiet
<1>15. ASSUME NEW s \in Slots, ArriveLogout(s) PROVE Chain'
  <2>1. call' = [call EXCEPT ![s] = call'[s]]
    BY <1>15 DEF TypeOK, ArriveLogout, Goes, Empty
  <2>2. NoNews(s)
    BY <1>15, <2>1, CallFields DEF TypeOK, NoNews, Carries, Uses, Follows, Reuses, At, ArriveLogout, Goes, Empty
  <2>3. \A r \in Slots : NoNews(r)
    BY <2>1, <2>2, Others DEF NoNews
  <2>4. Ended /\ lost \subseteq lost'
    BY <1>15 DEF TypeOK, Ended, ArriveLogout, Goes, Empty
  <2>5. \A d \in Browsers : jar'[d].key \in {jar[d].key, None}
    BY <1>15 DEF TypeOK, ArriveLogout, Goes, Empty
  <2> QED BY <2>3, <2>4, <2>5, QuietStep DEF Quiet
<1>16. ASSUME NEW s \in Slots, CommitChange(s) PROVE Chain'
  <2>1. call' = [call EXCEPT ![s] = call'[s]]
    BY <1>16 DEF TypeOK, CommitChange, Goes, NewSession, Revoked, Written
  <2>2. PICK k \in Keys : /\ session[k] = None
                         /\ session' = NewSession(k, OwnerOf[call[s].by], Revoked(call[s].keys, session))
                         /\ call'[s] = [op |-> "issue", by |-> call[s].by, from |-> None, key |-> k]
    BY <1>16, <2>1 DEF TypeOK, CommitChange, Goes
  <2>3. /\ call[s].by \in Browsers /\ call'[s].by = call[s].by
        /\ \A j \in Keys : /\ Carries(s, j)' => j = k
                           /\ ~Uses(s, j)' /\ ~Follows(s, j)' /\ ~Reuses(s, j)'
                           /\ ~Follows(s, j)
    BY <1>16, <2>1, <2>2, CallFields DEF CommitChange, TypeOK, Carries, Uses, Follows, Reuses, At
  <2>4. /\ session'[k] # None /\ session'[k].user = OwnerOf[call[s].by]
        /\ session'[k].rotated = "no"
        /\ \A j \in Keys \ {k} :
             /\ session'[j] = None <=> session[j] = None
             /\ session[j] # None => /\ session'[j].user = session[j].user
                                     /\ session'[j].rotated = session[j].rotated
                                     /\ session[j].revoked => session'[j].revoked
    <3> DEFINE rows == Revoked(call[s].keys, session)
    <3>1. /\ rows \in [Keys -> SessionRows \cup {None}]
          /\ \A j \in Keys : rows[j] = None <=> session[j] = None
          /\ \A j \in Keys : session[j] # None =>
               /\ rows[j].user = session[j].user /\ rows[j].rotated = session[j].rotated
               /\ session[j].revoked => rows[j].revoked
      BY RevokedRows DEF TypeOK
    <3>2. OwnerOf[call[s].by] \in Users
      BY <2>3
    <3>3. session' = NewSession(k, OwnerOf[call[s].by], rows)
      BY <2>2
    <3> HIDE DEF rows
    <3> QED BY <3>1, <3>2, <3>3, NewRow
  <2>5. jar' = jar /\ lost' = lost
    BY <1>16 DEF CommitChange
  <2>6. \A r \in Slots \ {s}, j \in Keys :
          /\ call'[r] = call[r]
          /\ Carries(r, j)' <=> Carries(r, j)
          /\ Uses(r, j)' <=> Uses(r, j)
          /\ Follows(r, j)' <=> Follows(r, j)
          /\ Reuses(r, j)' <=> Reuses(r, j)
    BY <2>1, Others
  <2>7. Born'
    BY <2>2, <2>3, <2>4, <2>5, <2>6 DEF Chain, Born, OneWay, OneBrowser, Born
  <2>8. OneWay'
    BY <2>2, <2>3, <2>4, <2>5, <2>6 DEF Chain, Born, OneWay, OneBrowser, OneWay
  <2>9. OneBrowser'
    BY <2>2, <2>3, <2>4, <2>5, <2>6 DEF Chain, Born, OneWay, OneBrowser, OneBrowser
  <2>10. Awaited'
    BY <2>2, <2>3, <2>4, <2>5, <2>6 DEF Chain, Born, OneWay, OneBrowser, Awaited
  <2>11. PastUse'
    <3>1. ASSUME NEW j \in Keys, session[j] # None, Past(j) PROVE Past(j)'
      <4>1. j # k
        BY <2>2, <3>1
      <4> QED BY <4>1, <3>1, <2>4, <2>5 DEF Past
    <3>2. ASSUME NEW b \in Browsers, NEW j \in Keys, jar'[b].key = j PROVE Past(j)'
      <4>1. session[j] # None /\ Past(j)
        BY <3>2, <2>5 DEF Chain, Born, PastUse
      <4> QED BY <3>1, <4>1
    <3>3. ASSUME NEW r \in Slots, NEW j \in Keys, Uses(r, j)' PROVE Past(j)'
      <4>1. r # s /\ Uses(r, j)
        BY <3>3, <2>3, <2>6
      <4>2. session[j] # None /\ Past(j)
        BY <4>1 DEF Chain, Born, PastUse
      <4> QED BY <3>1, <4>2
    <3> QED BY <3>2, <3>3 DEF PastUse
  <2>12. Real'
    BY <2>2, <2>3, <2>4, <2>5, <2>6 DEF Chain, Born, OneWay, OneBrowser, PastUse, Past, Real
  <2> QED BY <2>7, <2>8, <2>9, <2>10, <2>11, <2>12 DEF Chain
<1>17. ASSUME NEW s \in Slots, CommitReset(s) PROVE Chain'
  <2>1. call' = [call EXCEPT ![s] = call'[s]]
    BY <1>17 DEF TypeOK, CommitReset, Goes, Revoked, Written
  <2>2. NoNews(s)
    BY <1>17, <2>1, CallFields DEF TypeOK, NoNews, Carries, Uses, Follows, Reuses, At, CommitReset, Goes, Revoked, Written
  <2>3. \A r \in Slots : NoNews(r)
    BY <2>1, <2>2, Others DEF NoNews
  <2>4. Ended /\ lost \subseteq lost'
    BY <1>17, RevokedRows DEF TypeOK, Ended, CommitReset
  <2>5. \A d \in Browsers : jar'[d].key \in {jar[d].key, None}
    BY <1>17 DEF TypeOK, CommitReset, Goes, Revoked, Written
  <2> QED BY <2>3, <2>4, <2>5, QuietStep DEF Quiet
<1>18. ASSUME NEW s \in Slots, NEW u \in Users, BeginReset(s, u) PROVE Chain'
  <2>1. call' = [call EXCEPT ![s] = call'[s]]
    BY <1>18 DEF TypeOK, BeginReset, Begins, Live
  <2>2. NoNews(s)
    BY <1>18, <2>1, CallFields DEF TypeOK, NoNews, Carries, Uses, Follows, Reuses, At, BeginReset, Begins, Live
  <2>3. \A r \in Slots : NoNews(r)
    BY <2>1, <2>2, Others DEF NoNews
  <2>4. Ended /\ lost \subseteq lost'
    BY <1>18 DEF TypeOK, Ended, BeginReset, Begins, Live
  <2>5. \A d \in Browsers : jar'[d].key \in {jar[d].key, None}
    BY <1>18 DEF TypeOK, BeginReset, Begins, Live
  <2> QED BY <2>3, <2>4, <2>5, QuietStep DEF Quiet
<1>19. ASSUME NEW u \in Users, WindowPasses(u) PROVE Chain'
  <2>1. Quiet
    BY <1>19 DEF TypeOK, Quiet, Ended, NoNews, Carries, Uses, Follows, Reuses, At, WindowPasses
  <2> QED BY <2>1, QuietStep
<1>20. ASSUME NEW u \in Users, LockRunsOut(u) PROVE Chain'
  <2>1. Quiet
    BY <1>20 DEF TypeOK, Quiet, Ended, NoNews, Carries, Uses, Follows, Reuses, At, LockRunsOut, IsLocked
  <2> QED BY <2>1, QuietStep
<1>21. ASSUME NEW u \in Users, SetActive(u) PROVE Chain'
  <2>1. Quiet
    BY <1>21 DEF TypeOK, Quiet, Ended, NoNews, Carries, Uses, Follows, Reuses, At, SetActive
  <2> QED BY <2>1, QuietStep
<1>22. ASSUME NEW k \in Keys, GraceEnds(k) PROVE Chain'
  <2>1. /\ session'[k] # None /\ session[k] # None /\ session[k].rotated = "grace"
        /\ \A j \in Keys : session'[j] = None <=> session[j] = None
        /\ \A j \in Keys : session[j] # None =>
             /\ session'[j].user = session[j].user /\ session'[j].revoked = session[j].revoked
             /\ j # k => session'[j].rotated = session[j].rotated
             /\ j = k => session'[j].rotated = "old"
    BY <1>22 DEF TypeOK, GraceEnds
  <2>2. \A s \in Slots : ~Uses(s, k) /\ ~Follows(s, k)
    BY <1>22 DEF GraceEnds, Uses, Follows, At
  <2>3. jar' = jar /\ lost' = lost /\ call' = call
    BY <1>22 DEF GraceEnds
  <2>4. \A r \in Slots, j \in Keys :
          /\ Carries(r, j)' <=> Carries(r, j)
          /\ Uses(r, j)' <=> Uses(r, j)
          /\ Follows(r, j)' <=> Follows(r, j)
          /\ Reuses(r, j)' <=> Reuses(r, j)
    BY <2>3 DEF Carries, Uses, Follows, Reuses, At
  <2>5. Born'
    BY <2>1, <2>2, <2>3, <2>4 DEF Chain, Born, OneWay, OneBrowser, Born
  <2>6. OneWay'
    BY <2>1, <2>2, <2>3, <2>4 DEF Chain, Born, OneWay, OneBrowser, OneWay
  <2>7. OneBrowser'
    BY <2>1, <2>2, <2>3, <2>4 DEF Chain, Born, OneWay, OneBrowser, OneBrowser
  <2>8. Awaited'
    BY <2>1, <2>2, <2>3, <2>4 DEF Chain, Born, OneWay, OneBrowser, Awaited
  <2>9. PastUse'
    BY <2>1, <2>2, <2>3, <2>4 DEF Chain, Born, OneWay, OneBrowser, Awaited, PastUse, Past
  <2>10. Real'
    BY <2>1, <2>2, <2>3, <2>4 DEF Chain, Born, OneWay, OneBrowser, PastUse, Past, Real
  <2> QED BY <2>5, <2>6, <2>7, <2>8, <2>9, <2>10 DEF Chain
<1>23. ASSUME NEW b \in Browsers, NEW k \in Keys, RevokeMySession(b, k) PROVE Chain'
  <2>1. Ended
    BY <1>23, RevokedRows DEF TypeOK, Ended, RevokeMySession
  <2>2. Quiet
    BY <1>23, <2>1 DEF TypeOK, Quiet, NoNews, Carries, Uses, Follows, Reuses, At, RevokeMySession
  <2> QED BY <2>2, QuietStep
<1>24. ASSUME Purge PROVE Chain'
  <2>1. Quiet
    BY <1>24 DEF TypeOK, Quiet, Ended, NoNews, Carries, Uses, Follows, Reuses, At, Purge
  <2> QED BY <2>1, QuietStep
<1>25. CASE UNCHANGED vars
  <2>1. Quiet
    BY <1>25 DEF TypeOK, Quiet, Ended, NoNews, Carries, Uses, Follows, Reuses, At, vars
  <2> QED BY <2>1, QuietStep
<1> QED BY <1>1, <1>2, <1>3, <1>4, <1>5, <1>6, <1>7, <1>8, <1>9, <1>10, <1>11, <1>12, <1>13, <1>14, <1>15, <1>16, <1>17, <1>18, <1>19, <1>20, <1>21, <1>22, <1>23, <1>24, <1>25 DEF Next

LEMMA WrittenRow ==
  ASSUME NEW row \in AccountRows, NEW read \in AccountRows, NEW must \in BOOLEAN
  PROVE  Written(row, read, must) \in AccountRows
<1> DEFINE m == IF must # read.must THEN must ELSE row.must
<1>1. m \in BOOLEAN
  <2>1. row.must \in BOOLEAN
    OBVIOUS
  <2> QED BY <2>1
<1>2. read.version + 1 \in Nat
  OBVIOUS
<1>3. Written(row, read, must) = [row EXCEPT !.version = read.version + 1, !.must = m]
  BY DEF Written
<1> HIDE DEF m
<1> QED BY <1>1, <1>2, <1>3

\* A browser's session stays there, and its own.
Mine ==
  \A b \in Browsers : jar[b].key # None =>
    session[jar[b].key] # None /\ session[jar[b].key].user = OwnerOf[b]
Stay ==
  \A k \in Keys : session[k] # None =>
    session'[k] # None /\ session'[k].user = session[k].user

LEMMA StillMine ==
  TypeOK /\ Stay /\ (\A b \in Browsers : jar'[b].key \in {jar[b].key, None}) => Mine'
  BY DEF TypeOK, Stay, Mine

LEMMA TypeStep == IInv /\ [Next]_vars => TypeOK'
<1> SUFFICES ASSUME IInv, [Next]_vars PROVE TypeOK'
  OBVIOUS
<1> USE OwnerAssumption, NoneAssumption DEF IInv
<1>1. ASSUME NEW s \in Slots, NEW b \in Browsers, BeginFail(s, b) PROVE TypeOK'
  <2>1. call' \in [Slots -> Calls \cup {None}]
    BY <1>1, CallFields DEF TypeOK, Calls, At, BeginFail, Begins, IsLocked
  <2>2. session' \in [Keys -> SessionRows \cup {None}] /\ Stay
    BY <1>1 DEF TypeOK, Stay, BeginFail, Begins, IsLocked
  <2>3. account' \in [Users -> AccountRows] /\ attempts' \in [Users -> AttemptRows \cup {None}]
    BY <1>1, CallFields DEF TypeOK, At, BeginFail, Begins, IsLocked
  <2>4. jar' \in [Browsers -> Jars] /\ Mine'
    BY <1>1, <2>2, StillMine, CallFields DEF TypeOK, At, BeginFail, Begins, IsLocked
  <2>5. lost' \in SUBSET Keys /\ failures' \in [Users -> Nat]
    BY <1>1, CallFields DEF TypeOK, At, BeginFail, Begins, IsLocked
  <2> QED BY <2>1, <2>2, <2>3, <2>4, <2>5 DEF TypeOK, Mine
<1>2. ASSUME NEW s \in Slots, NEW b \in Browsers, BeginLogin(s, b) PROVE TypeOK'
  <2>1. call' \in [Slots -> Calls \cup {None}]
    BY <1>2, CallFields DEF TypeOK, Calls, At, BeginLogin, Begins, IsLocked
  <2>2. session' \in [Keys -> SessionRows \cup {None}] /\ Stay
    BY <1>2 DEF TypeOK, Stay, BeginLogin, Begins, IsLocked
  <2>3. account' \in [Users -> AccountRows] /\ attempts' \in [Users -> AttemptRows \cup {None}]
    BY <1>2, CallFields DEF TypeOK, At, BeginLogin, Begins, IsLocked
  <2>4. jar' \in [Browsers -> Jars] /\ Mine'
    BY <1>2, <2>2, StillMine, CallFields DEF TypeOK, At, BeginLogin, Begins, IsLocked
  <2>5. lost' \in SUBSET Keys /\ failures' \in [Users -> Nat]
    BY <1>2, CallFields DEF TypeOK, At, BeginLogin, Begins, IsLocked
  <2> QED BY <2>1, <2>2, <2>3, <2>4, <2>5 DEF TypeOK, Mine
<1>3. ASSUME NEW s \in Slots, NEW b \in Browsers, SendRefresh(s, b) PROVE TypeOK'
  <2>1. call' \in [Slots -> Calls \cup {None}]
    BY <1>3, CallFields DEF TypeOK, Calls, At, SendRefresh, Begins
  <2>2. session' \in [Keys -> SessionRows \cup {None}] /\ Stay
    BY <1>3 DEF TypeOK, Stay, SendRefresh, Begins
  <2>3. account' \in [Users -> AccountRows] /\ attempts' \in [Users -> AttemptRows \cup {None}]
    BY <1>3, CallFields DEF TypeOK, At, SendRefresh, Begins
  <2>4. jar' \in [Browsers -> Jars] /\ Mine'
    BY <1>3, <2>2, StillMine, CallFields DEF TypeOK, At, SendRefresh, Begins
  <2>5. lost' \in SUBSET Keys /\ failures' \in [Users -> Nat]
    BY <1>3, CallFields DEF TypeOK, At, SendRefresh, Begins
  <2> QED BY <2>1, <2>2, <2>3, <2>4, <2>5 DEF TypeOK, Mine
<1>4. ASSUME NEW s \in Slots, NEW b \in Browsers, Logout(s, b) PROVE TypeOK'
  <2>1. call' \in [Slots -> Calls \cup {None}]
    BY <1>4, CallFields DEF TypeOK, Calls, At, Logout, Begins, Revoked
  <2>2. session' \in [Keys -> SessionRows \cup {None}] /\ Stay
    BY <1>4, RevokedRows DEF TypeOK, Stay, Logout, Begins
  <2>3. account' \in [Users -> AccountRows] /\ attempts' \in [Users -> AttemptRows \cup {None}]
    BY <1>4, CallFields DEF TypeOK, At, Logout, Begins
  <2>4. jar' \in [Browsers -> Jars] /\ Mine'
    BY <1>4, <2>2, StillMine, CallFields DEF TypeOK, At, Logout, Begins
  <2>5. lost' \in SUBSET Keys /\ failures' \in [Users -> Nat]
    BY <1>4, CallFields DEF TypeOK, At, Logout, Begins
  <2> QED BY <2>1, <2>2, <2>3, <2>4, <2>5 DEF TypeOK, Mine
<1>5. ASSUME NEW s \in Slots, NEW b \in Browsers, BeginChange(s, b) PROVE TypeOK'
  <2>1. call' \in [Slots -> Calls \cup {None}]
    BY <1>5, CallFields DEF TypeOK, Calls, At, BeginChange, Begins, Live, Authenticated
  <2>2. session' \in [Keys -> SessionRows \cup {None}] /\ Stay
    BY <1>5 DEF TypeOK, Stay, BeginChange, Begins, Live, Authenticated
  <2>3. account' \in [Users -> AccountRows] /\ attempts' \in [Users -> AttemptRows \cup {None}]
    BY <1>5, CallFields DEF TypeOK, At, BeginChange, Begins, Live, Authenticated
  <2>4. jar' \in [Browsers -> Jars] /\ Mine'
    BY <1>5, <2>2, StillMine, CallFields DEF TypeOK, At, BeginChange, Begins, Live, Authenticated
  <2>5. lost' \in SUBSET Keys /\ failures' \in [Users -> Nat]
    BY <1>5, CallFields DEF TypeOK, At, BeginChange, Begins, Live, Authenticated
  <2> QED BY <2>1, <2>2, <2>3, <2>4, <2>5 DEF TypeOK, Mine
<1>6. ASSUME NEW s \in Slots, Rollback(s) PROVE TypeOK'
  <2>1. call' \in [Slots -> Calls \cup {None}]
    BY <1>6, CallFields DEF TypeOK, Calls, At, Rollback, Goes
  <2>2. session' \in [Keys -> SessionRows \cup {None}] /\ Stay
    BY <1>6 DEF TypeOK, Stay, Rollback, Goes
  <2>3. account' \in [Users -> AccountRows] /\ attempts' \in [Users -> AttemptRows \cup {None}]
    BY <1>6, CallFields DEF TypeOK, At, Rollback, Goes
  <2>4. jar' \in [Browsers -> Jars] /\ Mine'
    BY <1>6, <2>2, StillMine, CallFields DEF TypeOK, At, Rollback, Goes
  <2>5. lost' \in SUBSET Keys /\ failures' \in [Users -> Nat]
    BY <1>6, CallFields DEF TypeOK, At, Rollback, Goes
  <2> QED BY <2>1, <2>2, <2>3, <2>4, <2>5 DEF TypeOK, Mine
<1>7. ASSUME NEW s \in Slots, CommitFail(s) PROVE TypeOK'
  <2>1. call' \in [Slots -> Calls \cup {None}]
    BY <1>7, CallFields DEF TypeOK, Calls, At, CommitFail, Goes, Updated, Counted, Locks
  <2>2. session' \in [Keys -> SessionRows \cup {None}] /\ Stay
    BY <1>7 DEF TypeOK, Stay, CommitFail, Goes, Updated, Counted, Locks
  <2>3. account' \in [Users -> AccountRows] /\ attempts' \in [Users -> AttemptRows \cup {None}]
    BY <1>7, CallFields DEF TypeOK, At, CommitFail, Goes, Updated, Counted, Locks
  <2>4. jar' \in [Browsers -> Jars] /\ Mine'
    BY <1>7, <2>2, StillMine, CallFields DEF TypeOK, At, CommitFail, Goes, Updated, Counted, Locks
  <2>5. lost' \in SUBSET Keys /\ failures' \in [Users -> Nat]
    BY <1>7, CallFields DEF TypeOK, At, CommitFail, Goes, Updated, Counted, Locks
  <2> QED BY <2>1, <2>2, <2>3, <2>4, <2>5 DEF TypeOK, Mine
<1>8. ASSUME NEW s \in Slots, CommitLogin(s) PROVE TypeOK'
  <2>1. call' \in [Slots -> Calls \cup {None}]
    BY <1>8, CallFields DEF TypeOK, Calls, At, CommitLogin, Goes, Cleared, NewSession
  <2>2. session' \in [Keys -> SessionRows \cup {None}] /\ Stay
    <3>1. call[s] # None /\ call[s].by \in Browsers
      BY <1>8, CallFields DEF CommitLogin, At
    <3>2. PICK k \in Keys : /\ session[k] = None
                           /\ session' = NewSession(k, OwnerOf[call[s].by], session)
      BY <1>8 DEF CommitLogin
    <3> DEFINE before == session
    <3>3. /\ before \in [Keys -> SessionRows \cup {None}]
          /\ \A j \in Keys : session[j] # None => /\ before[j] # None
                                                 /\ before[j].user = session[j].user
      BY RevokedRows DEF TypeOK
    <3>4. OwnerOf[call[s].by] \in Users /\ session' = NewSession(k, OwnerOf[call[s].by], before)
      BY <3>1, <3>2
    <3> HIDE DEF before
    <3>5. /\ session' \in [Keys -> SessionRows \cup {None}]
          /\ \A j \in Keys \ {k} : session'[j] = before[j]
      BY <3>3, <3>4, NewRow
    <3> QED BY <3>2, <3>3, <3>5 DEF Stay
  <2>3. account' \in [Users -> AccountRows] /\ attempts' \in [Users -> AttemptRows \cup {None}]
    BY <1>8, CallFields DEF TypeOK, At, CommitLogin, Goes, Cleared
  <2>4. jar' \in [Browsers -> Jars] /\ Mine'
    BY <1>8, <2>2, StillMine, CallFields DEF TypeOK, At, CommitLogin, Goes, Cleared
  <2>5. lost' \in SUBSET Keys /\ failures' \in [Users -> Nat]
    BY <1>8, CallFields DEF TypeOK, At, CommitLogin, Goes, Cleared
  <2> QED BY <2>1, <2>2, <2>3, <2>4, <2>5 DEF TypeOK, Mine
<1>9. ASSUME NEW s \in Slots, ReadRefresh(s) PROVE TypeOK'
  <2>1. call' \in [Slots -> Calls \cup {None}]
    BY <1>9, CallFields DEF TypeOK, Calls, At, ReadRefresh, Goes, InGrace
  <2>2. session' \in [Keys -> SessionRows \cup {None}] /\ Stay
    BY <1>9 DEF TypeOK, Stay, ReadRefresh, Goes, InGrace
  <2>3. account' \in [Users -> AccountRows] /\ attempts' \in [Users -> AttemptRows \cup {None}]
    BY <1>9, CallFields DEF TypeOK, At, ReadRefresh, Goes, InGrace
  <2>4. jar' \in [Browsers -> Jars] /\ Mine'
    BY <1>9, <2>2, StillMine, CallFields DEF TypeOK, At, ReadRefresh, Goes, InGrace
  <2>5. lost' \in SUBSET Keys /\ failures' \in [Users -> Nat]
    BY <1>9, CallFields DEF TypeOK, At, ReadRefresh, Goes, InGrace
  <2> QED BY <2>1, <2>2, <2>3, <2>4, <2>5 DEF TypeOK, Mine
<1>10. ASSUME NEW s \in Slots, CommitRotate(s) PROVE TypeOK'
  <2>1. call' \in [Slots -> Calls \cup {None}]
    BY <1>10, CallFields DEF TypeOK, Calls, At, CommitRotate, Goes, NewSession
  <2>2. session' \in [Keys -> SessionRows \cup {None}] /\ Stay
    <3> DEFINE old == call[s].key
    <3>1. call[s] # None /\ call[s].by \in Browsers /\ old \in Keys /\ Uses(s, old)
      BY <1>10, CallFields DEF CommitRotate, Uses, At
    <3>2. PICK k \in Keys : /\ session[k] = None
                           /\ session' = [NewSession(k, OwnerOf[call[s].by], session)
                                            EXCEPT ![old].rotated = "grace"]
      BY <1>10 DEF CommitRotate
    <3>3. session[old] \in SessionRows /\ old # k
      BY <3>1, <3>2 DEF Chain, Born, TypeOK
    <3> DEFINE rows == NewSession(k, OwnerOf[call[s].by], session)
               row == [session[old] EXCEPT !.rotated = "grace"]
    <3>4. /\ rows \in [Keys -> SessionRows \cup {None}]
          /\ \A j \in Keys \ {k} : rows[j] = session[j]
      BY <3>1, NewRow DEF TypeOK
    <3>5. session' = [rows EXCEPT ![old] = row]
      BY <3>1, <3>2, <3>3, <3>4
    <3>6. row \in SessionRows /\ row.user = session[old].user /\ row # None
      BY <3>3, NoneAssumption DEF SessionRows
    <3> HIDE DEF rows, row, old
    <3>7. session' \in [Keys -> SessionRows \cup {None}]
      BY <3>1, <3>4, <3>5, <3>6
    <3>8. /\ session'[old] = row
          /\ \A j \in Keys \ {old, k} : session'[j] = session[j]
      BY <3>1, <3>4, <3>5
    <3> QED BY <3>2, <3>3, <3>6, <3>7, <3>8 DEF Stay
  <2>3. account' \in [Users -> AccountRows] /\ attempts' \in [Users -> AttemptRows \cup {None}]
    BY <1>10, CallFields DEF TypeOK, At, CommitRotate, Goes
  <2>4. jar' \in [Browsers -> Jars] /\ Mine'
    BY <1>10, <2>2, StillMine, CallFields DEF TypeOK, At, CommitRotate, Goes
  <2>5. lost' \in SUBSET Keys /\ failures' \in [Users -> Nat]
    BY <1>10, CallFields DEF TypeOK, At, CommitRotate, Goes
  <2> QED BY <2>1, <2>2, <2>3, <2>4, <2>5 DEF TypeOK, Mine
<1>11. ASSUME NEW s \in Slots, CommitReuse(s) PROVE TypeOK'
  <2>1. call' \in [Slots -> Calls \cup {None}]
    BY <1>11, CallFields DEF TypeOK, Calls, At, CommitReuse, Goes, Revoked, Live
  <2>2. session' \in [Keys -> SessionRows \cup {None}] /\ Stay
    BY <1>11, RevokedRows DEF TypeOK, Stay, CommitReuse, Goes, Live
  <2>3. account' \in [Users -> AccountRows] /\ attempts' \in [Users -> AttemptRows \cup {None}]
    BY <1>11, CallFields DEF TypeOK, At, CommitReuse, Goes, Live
  <2>4. jar' \in [Browsers -> Jars] /\ Mine'
    BY <1>11, <2>2, StillMine, CallFields DEF TypeOK, At, CommitReuse, Goes, Live
  <2>5. lost' \in SUBSET Keys /\ failures' \in [Users -> Nat]
    BY <1>11, CallFields DEF TypeOK, At, CommitReuse, Goes, Live
  <2> QED BY <2>1, <2>2, <2>3, <2>4, <2>5 DEF TypeOK, Mine
<1>12. ASSUME NEW s \in Slots, Issue(s) PROVE TypeOK'
  <2>1. call' \in [Slots -> Calls \cup {None}]
    BY <1>12, CallFields DEF TypeOK, Calls, At, Issue, Goes
  <2>2. session' \in [Keys -> SessionRows \cup {None}] /\ Stay
    BY <1>12 DEF TypeOK, Stay, Issue, Goes
  <2>3. account' \in [Users -> AccountRows] /\ attempts' \in [Users -> AttemptRows \cup {None}]
    BY <1>12, CallFields DEF TypeOK, At, Issue, Goes
  <2>4. jar' \in [Browsers -> Jars] /\ Mine'
    BY <1>12, <2>2, StillMine, CallFields DEF TypeOK, At, Issue, Goes
  <2>5. lost' \in SUBSET Keys /\ failures' \in [Users -> Nat]
    BY <1>12, CallFields DEF TypeOK, At, Issue, Goes
  <2> QED BY <2>1, <2>2, <2>3, <2>4, <2>5 DEF TypeOK, Mine
<1>13. ASSUME NEW s \in Slots, Arrive(s) PROVE TypeOK'
  <2>1. call' \in [Slots -> Calls \cup {None}]
    BY <1>13, CallFields DEF TypeOK, Calls, At, Arrive, Goes
  <2>2. session' \in [Keys -> SessionRows \cup {None}] /\ Stay
    BY <1>13 DEF TypeOK, Stay, Arrive, Goes
  <2>3. account' \in [Users -> AccountRows] /\ attempts' \in [Users -> AttemptRows \cup {None}]
    BY <1>13, CallFields DEF TypeOK, At, Arrive, Goes
  <2>4. jar' \in [Browsers -> Jars] /\ Mine'
    <3>1. call[s] # None /\ call[s].op = "answer" /\ call[s].by \in Browsers
      BY <1>13, CallFields DEF TypeOK, Arrive, At
    <3>2. call[s].key # None => /\ session[call[s].key] # None
                                /\ session[call[s].key].user = OwnerOf[call[s].by]
      BY <3>1, CallFields DEF Chain, OneWay, Carries, At
    <3>3. jar' \in [Browsers -> Jars]
      BY <1>13, <3>1, CallFields DEF TypeOK, Arrive, At
    <3> QED BY <1>13, <3>1, <3>2, <3>3 DEF TypeOK, Arrive, Mine
  <2>5. lost' \in SUBSET Keys /\ failures' \in [Users -> Nat]
    BY <1>13, CallFields DEF TypeOK, At, Arrive, Goes
  <2> QED BY <2>1, <2>2, <2>3, <2>4, <2>5 DEF TypeOK, Mine
<1>14. ASSUME NEW s \in Slots, Lose(s) PROVE TypeOK'
  <2>1. call' \in [Slots -> Calls \cup {None}]
    BY <1>14, CallFields DEF TypeOK, Calls, At, Lose, Goes
  <2>2. session' \in [Keys -> SessionRows \cup {None}] /\ Stay
    BY <1>14 DEF TypeOK, Stay, Lose, Goes
  <2>3. account' \in [Users -> AccountRows] /\ attempts' \in [Users -> AttemptRows \cup {None}]
    BY <1>14, CallFields DEF TypeOK, At, Lose, Goes
  <2>4. jar' \in [Browsers -> Jars] /\ Mine'
    BY <1>14, <2>2, StillMine, CallFields DEF TypeOK, At, Lose, Goes
  <2>5. lost' \in SUBSET Keys /\ failures' \in [Users -> Nat]
    BY <1>14, CallFields DEF TypeOK, At, Lose, Goes
  <2> QED BY <2>1, <2>2, <2>3, <2>4, <2>5 DEF TypeOK, Mine
<1>15. ASSUME NEW s \in Slots, ArriveLogout(s) PROVE TypeOK'
  <2>1. call' \in [Slots -> Calls \cup {None}]
    BY <1>15, CallFields DEF TypeOK, Calls, At, ArriveLogout, Goes, Empty
  <2>2. session' \in [Keys -> SessionRows \cup {None}] /\ Stay
    BY <1>15 DEF TypeOK, Stay, ArriveLogout, Goes, Empty
  <2>3. account' \in [Users -> AccountRows] /\ attempts' \in [Users -> AttemptRows \cup {None}]
    BY <1>15, CallFields DEF TypeOK, At, ArriveLogout, Goes, Empty
  <2>4. jar' \in [Browsers -> Jars] /\ Mine'
    BY <1>15, <2>2, StillMine, CallFields DEF TypeOK, At, ArriveLogout, Goes, Empty
  <2>5. lost' \in SUBSET Keys /\ failures' \in [Users -> Nat]
    BY <1>15, CallFields DEF TypeOK, At, ArriveLogout, Goes, Empty
  <2> QED BY <2>1, <2>2, <2>3, <2>4, <2>5 DEF TypeOK, Mine
<1>16. ASSUME NEW s \in Slots, CommitChange(s) PROVE TypeOK'
  <2>1. call' \in [Slots -> Calls \cup {None}]
    BY <1>16, CallFields DEF TypeOK, Calls, At, CommitChange, Goes, NewSession, Revoked, Written
  <2>2. session' \in [Keys -> SessionRows \cup {None}] /\ Stay
    <3>1. call[s] # None /\ call[s].by \in Browsers
      BY <1>16, CallFields DEF CommitChange, At
    <3>2. PICK k \in Keys : /\ session[k] = None
                           /\ session' = NewSession(k, OwnerOf[call[s].by], Revoked(call[s].keys, session))
      BY <1>16 DEF CommitChange
    <3> DEFINE before == Revoked(call[s].keys, session)
    <3>3. /\ before \in [Keys -> SessionRows \cup {None}]
          /\ \A j \in Keys : session[j] # None => /\ before[j] # None
                                                 /\ before[j].user = session[j].user
      BY RevokedRows DEF TypeOK
    <3>4. OwnerOf[call[s].by] \in Users /\ session' = NewSession(k, OwnerOf[call[s].by], before)
      BY <3>1, <3>2
    <3> HIDE DEF before
    <3>5. /\ session' \in [Keys -> SessionRows \cup {None}]
          /\ \A j \in Keys \ {k} : session'[j] = before[j]
      BY <3>3, <3>4, NewRow
    <3> QED BY <3>2, <3>3, <3>5 DEF Stay
  <2>3. account' \in [Users -> AccountRows] /\ attempts' \in [Users -> AttemptRows \cup {None}]
    <3>1. /\ OwnerOf[call[s].by] \in Users
          /\ account[OwnerOf[call[s].by]] \in AccountRows /\ call[s].read \in AccountRows
      BY <1>16, CallFields DEF TypeOK, CommitChange, At
    <3> DEFINE row == Written(account[OwnerOf[call[s].by]], call[s].read, FALSE)
    <3>2. row \in AccountRows
      BY <3>1, WrittenRow
    <3>3. account' = [account EXCEPT ![OwnerOf[call[s].by]] = row] /\ attempts' = attempts
      BY <1>16 DEF CommitChange
    <3> HIDE DEF row
    <3> QED BY <3>1, <3>2, <3>3 DEF TypeOK
  <2>4. jar' \in [Browsers -> Jars] /\ Mine'
    BY <1>16, <2>2, StillMine, CallFields DEF TypeOK, At, CommitChange, Goes, Written
  <2>5. lost' \in SUBSET Keys /\ failures' \in [Users -> Nat]
    BY <1>16, CallFields DEF TypeOK, At, CommitChange, Goes, Written
  <2> QED BY <2>1, <2>2, <2>3, <2>4, <2>5 DEF TypeOK, Mine
<1>17. ASSUME NEW s \in Slots, CommitReset(s) PROVE TypeOK'
  <2>1. call' \in [Slots -> Calls \cup {None}]
    BY <1>17, CallFields DEF TypeOK, Calls, At, CommitReset, Goes, Revoked, Written
  <2>2. session' \in [Keys -> SessionRows \cup {None}] /\ Stay
    BY <1>17, RevokedRows DEF TypeOK, Stay, CommitReset, Goes, Written
  <2>3. account' \in [Users -> AccountRows] /\ attempts' \in [Users -> AttemptRows \cup {None}]
    <3>1. /\ call[s].user \in Users
          /\ account[call[s].user] \in AccountRows /\ call[s].read \in AccountRows
      BY <1>17, CallFields DEF TypeOK, CommitReset, At
    <3> DEFINE row == Written(account[call[s].user], call[s].read, TRUE)
    <3>2. row \in AccountRows
      BY <3>1, WrittenRow
    <3>3. account' = [account EXCEPT ![call[s].user] = row] /\ attempts' = attempts
      BY <1>17 DEF CommitReset
    <3> HIDE DEF row
    <3> QED BY <3>1, <3>2, <3>3 DEF TypeOK
  <2>4. jar' \in [Browsers -> Jars] /\ Mine'
    BY <1>17, <2>2, StillMine, CallFields DEF TypeOK, At, CommitReset, Goes, Written
  <2>5. lost' \in SUBSET Keys /\ failures' \in [Users -> Nat]
    BY <1>17, CallFields DEF TypeOK, At, CommitReset, Goes, Written
  <2> QED BY <2>1, <2>2, <2>3, <2>4, <2>5 DEF TypeOK, Mine
<1>18. ASSUME NEW s \in Slots, NEW u \in Users, BeginReset(s, u) PROVE TypeOK'
  <2>1. call' \in [Slots -> Calls \cup {None}]
    BY <1>18, CallFields DEF TypeOK, Calls, At, BeginReset, Begins, Live
  <2>2. session' \in [Keys -> SessionRows \cup {None}] /\ Stay
    BY <1>18 DEF TypeOK, Stay, BeginReset, Begins, Live
  <2>3. account' \in [Users -> AccountRows] /\ attempts' \in [Users -> AttemptRows \cup {None}]
    BY <1>18, CallFields DEF TypeOK, At, BeginReset, Begins, Live
  <2>4. jar' \in [Browsers -> Jars] /\ Mine'
    BY <1>18, <2>2, StillMine, CallFields DEF TypeOK, At, BeginReset, Begins, Live
  <2>5. lost' \in SUBSET Keys /\ failures' \in [Users -> Nat]
    BY <1>18, CallFields DEF TypeOK, At, BeginReset, Begins, Live
  <2> QED BY <2>1, <2>2, <2>3, <2>4, <2>5 DEF TypeOK, Mine
<1>19. ASSUME NEW u \in Users, WindowPasses(u) PROVE TypeOK'
  <2>1. call' \in [Slots -> Calls \cup {None}]
    BY <1>19, CallFields DEF TypeOK, Calls, At, WindowPasses
  <2>2. session' \in [Keys -> SessionRows \cup {None}] /\ Stay
    BY <1>19 DEF TypeOK, Stay, WindowPasses
  <2>3. account' \in [Users -> AccountRows] /\ attempts' \in [Users -> AttemptRows \cup {None}]
    <3>1. attempts[u] \in AttemptRows
      BY <1>19 DEF TypeOK, WindowPasses, IsLocked
    <3> DEFINE row == [attempts[u] EXCEPT !.recent = FALSE]
    <3>2. row \in AttemptRows
      BY <3>1
    <3>3. attempts' = [attempts EXCEPT ![u] = row] /\ account' = account
      BY <1>19 DEF WindowPasses
    <3> HIDE DEF row
    <3> QED BY <3>1, <3>2, <3>3 DEF TypeOK
  <2>4. jar' \in [Browsers -> Jars] /\ Mine'
    BY <1>19, <2>2, StillMine, CallFields DEF TypeOK, At, WindowPasses
  <2>5. lost' \in SUBSET Keys /\ failures' \in [Users -> Nat]
    BY <1>19, CallFields DEF TypeOK, At, WindowPasses
  <2> QED BY <2>1, <2>2, <2>3, <2>4, <2>5 DEF TypeOK, Mine
<1>20. ASSUME NEW u \in Users, LockRunsOut(u) PROVE TypeOK'
  <2>1. call' \in [Slots -> Calls \cup {None}]
    BY <1>20, CallFields DEF TypeOK, Calls, At, LockRunsOut, IsLocked
  <2>2. session' \in [Keys -> SessionRows \cup {None}] /\ Stay
    BY <1>20 DEF TypeOK, Stay, LockRunsOut, IsLocked
  <2>3. account' \in [Users -> AccountRows] /\ attempts' \in [Users -> AttemptRows \cup {None}]
    <3>1. attempts[u] \in AttemptRows
      BY <1>20 DEF TypeOK, LockRunsOut, IsLocked
    <3> DEFINE row == [attempts[u] EXCEPT !.lock = "past"]
    <3>2. row \in AttemptRows
      BY <3>1
    <3>3. attempts' = [attempts EXCEPT ![u] = row] /\ account' = account
      BY <1>20 DEF LockRunsOut
    <3> HIDE DEF row
    <3> QED BY <3>1, <3>2, <3>3 DEF TypeOK
  <2>4. jar' \in [Browsers -> Jars] /\ Mine'
    BY <1>20, <2>2, StillMine, CallFields DEF TypeOK, At, LockRunsOut, IsLocked
  <2>5. lost' \in SUBSET Keys /\ failures' \in [Users -> Nat]
    BY <1>20, CallFields DEF TypeOK, At, LockRunsOut, IsLocked
  <2> QED BY <2>1, <2>2, <2>3, <2>4, <2>5 DEF TypeOK, Mine
<1>21. ASSUME NEW u \in Users, SetActive(u) PROVE TypeOK'
  <2>1. call' \in [Slots -> Calls \cup {None}]
    BY <1>21, CallFields DEF TypeOK, Calls, At, SetActive
  <2>2. session' \in [Keys -> SessionRows \cup {None}] /\ Stay
    BY <1>21 DEF TypeOK, Stay, SetActive
  <2>3. account' \in [Users -> AccountRows] /\ attempts' \in [Users -> AttemptRows \cup {None}]
    <3>1. account[u] \in AccountRows
      BY <1>21 DEF TypeOK, SetActive, IsLocked
    <3> DEFINE row == [account[u] EXCEPT !.active = ~account[u].active]
    <3>2. row \in AccountRows
      BY <3>1
    <3>3. account' = [account EXCEPT ![u] = row] /\ attempts' = attempts
      BY <1>21 DEF SetActive
    <3> HIDE DEF row
    <3> QED BY <3>1, <3>2, <3>3 DEF TypeOK
  <2>4. jar' \in [Browsers -> Jars] /\ Mine'
    BY <1>21, <2>2, StillMine, CallFields DEF TypeOK, At, SetActive
  <2>5. lost' \in SUBSET Keys /\ failures' \in [Users -> Nat]
    BY <1>21, CallFields DEF TypeOK, At, SetActive
  <2> QED BY <2>1, <2>2, <2>3, <2>4, <2>5 DEF TypeOK, Mine
<1>22. ASSUME NEW k \in Keys, GraceEnds(k) PROVE TypeOK'
  <2>1. call' \in [Slots -> Calls \cup {None}]
    BY <1>22, CallFields DEF TypeOK, Calls, At, GraceEnds
  <2>2. session' \in [Keys -> SessionRows \cup {None}] /\ Stay
    BY <1>22 DEF TypeOK, Stay, GraceEnds
  <2>3. account' \in [Users -> AccountRows] /\ attempts' \in [Users -> AttemptRows \cup {None}]
    BY <1>22, CallFields DEF TypeOK, At, GraceEnds
  <2>4. jar' \in [Browsers -> Jars] /\ Mine'
    BY <1>22, <2>2, StillMine, CallFields DEF TypeOK, At, GraceEnds
  <2>5. lost' \in SUBSET Keys /\ failures' \in [Users -> Nat]
    BY <1>22, CallFields DEF TypeOK, At, GraceEnds
  <2> QED BY <2>1, <2>2, <2>3, <2>4, <2>5 DEF TypeOK, Mine
<1>23. ASSUME NEW b \in Browsers, NEW k \in Keys, RevokeMySession(b, k) PROVE TypeOK'
  <2>1. call' \in [Slots -> Calls \cup {None}]
    BY <1>23, CallFields DEF TypeOK, Calls, At, RevokeMySession, Revoked
  <2>2. session' \in [Keys -> SessionRows \cup {None}] /\ Stay
    BY <1>23, RevokedRows DEF TypeOK, Stay, RevokeMySession
  <2>3. account' \in [Users -> AccountRows] /\ attempts' \in [Users -> AttemptRows \cup {None}]
    BY <1>23, CallFields DEF TypeOK, At, RevokeMySession
  <2>4. jar' \in [Browsers -> Jars] /\ Mine'
    BY <1>23, <2>2, StillMine, CallFields DEF TypeOK, At, RevokeMySession
  <2>5. lost' \in SUBSET Keys /\ failures' \in [Users -> Nat]
    BY <1>23, CallFields DEF TypeOK, At, RevokeMySession
  <2> QED BY <2>1, <2>2, <2>3, <2>4, <2>5 DEF TypeOK, Mine
<1>24. ASSUME Purge PROVE TypeOK'
  <2>1. call' \in [Slots -> Calls \cup {None}]
    BY <1>24, CallFields DEF TypeOK, Calls, At, Purge
  <2>2. session' \in [Keys -> SessionRows \cup {None}] /\ Stay
    BY <1>24 DEF TypeOK, Stay, Purge
  <2>3. account' \in [Users -> AccountRows] /\ attempts' \in [Users -> AttemptRows \cup {None}]
    BY <1>24, CallFields DEF TypeOK, At, Purge
  <2>4. jar' \in [Browsers -> Jars] /\ Mine'
    BY <1>24, <2>2, StillMine, CallFields DEF TypeOK, At, Purge
  <2>5. lost' \in SUBSET Keys /\ failures' \in [Users -> Nat]
    BY <1>24, CallFields DEF TypeOK, At, Purge
  <2> QED BY <2>1, <2>2, <2>3, <2>4, <2>5 DEF TypeOK, Mine
<1>25. CASE UNCHANGED vars
  BY <1>25 DEF TypeOK, vars
<1> QED BY <1>1, <1>2, <1>3, <1>4, <1>5, <1>6, <1>7, <1>8, <1>9, <1>10, <1>11, <1>12, <1>13, <1>14, <1>15, <1>16, <1>17, <1>18, <1>19, <1>20, <1>21, <1>22, <1>23, <1>24, <1>25 DEF Next

-------------------------------------------------------------------------------
LEMMA Always == Spec => []IInv
<1>1. IInv /\ [Next]_vars => IInv'
  BY TypeStep, ChainStep, CountStep DEF IInv
<1> QED BY InitInv, <1>1, PTL DEF Spec

\* Types: what a browser keeps is a session of the one who uses it.
THEOREM TypeCorrect == Spec => []TypeOK
<1>1. IInv => TypeOK
  BY DEF IInv
<1> QED BY Always, <1>1, PTL

\* A user is thrown out only for a session that was ended, or whose successor was
\* lost on the way: any number of tabs, browsers and overlapping calls.
THEOREM OnlyRealReuse == Spec => []ReuseIsReal
<1>1. IInv => ReuseIsReal
  <2>1. ASSUME TypeOK, NEW s \in Slots, At(s, "reuse") PROVE call[s].key \in Keys
    BY <2>1, CallFields DEF At
  <2> QED BY <2>1 DEF IInv, Chain, Real, Reuses, ReuseIsReal
<1> QED BY Always, <1>1, PTL

\* Every lock has its failures, whatever overlaps.
THEOREM EveryLockIsEarned == Spec => []LocksAreEarned
<1>1. IInv => LocksAreEarned
  BY DEF IInv, Counting, LocksAreEarned, IsLocked
<1> QED BY Always, <1>1, PTL
===============================================================================
