-------------------------------- MODULE Sessions -------------------------------
(***************************************************************************)
(* Sessions in Redis, and the requests that live by them: each passes the  *)
(* guard, which finds the session, prolongs it when it is about to end,    *)
(* loads the user (RbacState) and stores the session again when the user   *)
(* has changed.  Requests log in and out, get new tokens, end sessions and *)
(* change users, whose sessions are then ended.                            *)
(*                                                                         *)
(* A session is stored as a whole, as the request found it and changed it. *)
(* Times are what is left of them, so that the clock has no bound.         *)
(***************************************************************************)
EXTENDS RbacState

CONSTANTS
    Sids,           \* session ids
    Ttl,            \* sessionTtlSeconds
    MaxTtl,         \* sessionMaxTtlSeconds
    Threshold,      \* sessionRefreshThresholdSeconds
    MaxTokens,      \* bound: refresh tokens of a session
    Setups          \* installations: [ops, sids, changes, faults], the kinds of
                    \* requests and the bounds on the others

Ops == {"login", "view", "change", "kick", "refresh", "logout"}

ASSUME SessionsAssumption ==
    /\ {Ttl, MaxTtl, Threshold, MaxTokens} \subseteq Nat
    /\ 0 < Ttl /\ Ttl <= MaxTtl /\ Threshold < Ttl /\ 0 < MaxTokens
    /\ \A s \in Setups : /\ s.ops \subseteq Ops /\ s.sids \subseteq Sids
                          /\ s.changes \subseteq Changes /\ s.faults \in Nat

\* What the store and the requests hold, when it is not None.
Session == [token : 1..MaxTokens, user : Contents, expires : 0..MaxTtl, max : 0..MaxTtl]
Request ==
    [op : Ops, sid : Sids,
     step : {"find", "ttl", "extend", "found", "user", "create", "resync ttl", "resync",
             "passed", "change", "flush", "end"},
     token : 0..MaxTokens, obj : Session \cup {None}, left : 0..MaxTtl, aged : BOOLEAN,
     change : Changes \cup {None}, list : SUBSET Sids, known : SUBSET Changes]

ASSUME SessionsNoneAssumption == None \notin Session \cup Request

VARIABLES
    setup,      \* the installation
    store,      \* login_tokens: sid -> [token, user, expires, max] or None
    ttl,        \* what is left of the key in Redis
    req,        \* requests: [op, sid, step, token, obj, left, aged, change,
                \* list, known] or None
    issued,     \* history: refresh tokens given out, the last one
    ended,      \* history: sessions that were ended
    exposed,    \* history: ended while another request had found them
    overlapped, \* history: got a new token while another request had found them
    drifted     \* history: stored with a time that was read a while before, or
                \* that had been stored like that
records == <<store, ttl>>
sessionHistory == <<ended, exposed, overlapped, drifted>>
sessions == <<setup, records, req, issued, sessionHistory>>
vars == <<rbac, sessions>>

Init ==
    /\ RbacInit
    /\ setup \in Setups
    /\ store = [s \in Sids |-> None]
    /\ ttl = [s \in Sids |-> 0]
    /\ req = [p \in Procs |-> None]
    /\ issued = [s \in Sids |-> 0]
    /\ ended = {} /\ exposed = {} /\ overlapped = {} /\ drifted = {}

-----------------------------------------------------------------------------
(* The store.                                                              *)

Holders(s) == {p \in Procs : req[p] # None /\ req[p].sid = s /\ req[p].obj # None}
Others(p, s) == Holders(s) \ {p}

Save(s, obj, time) ==
    /\ store' = [store EXCEPT ![s] = obj]
    /\ ttl' = [ttl EXCEPT ![s] = time]

\* (mutation: the record stays.)
Kept(S) == UNCHANGED records
Gone(S) ==
    /\ store' = [s \in Sids |-> IF s \in S THEN None ELSE store[s]]
    /\ ttl' = [s \in Sids |-> IF s \in S THEN 0 ELSE ttl[s]]

\* The end of a session by p (logout, forced, its user changed, over its time).
End(p, s) ==
    /\ Gone({s})
    /\ ended' = ended \cup {s}
    /\ exposed' = IF Others(p, s) # {} THEN exposed \cup {s} ELSE exposed
    /\ UNCHANGED <<overlapped, drifted>>

Less(n) == IF n = 0 THEN 0 ELSE n - 1
Older(obj) == IF obj = None THEN None
              ELSE [obj EXCEPT !.expires = Less(@), !.max = Less(@)]

\* A while goes by.  Redis drops what is over its time.
Tick ==
    /\ \E s \in Sids : store[s] # None \/ Holders(s) # {}
    /\ ttl' = [s \in Sids |-> Less(ttl[s])]
    /\ store' = [s \in Sids |-> IF ttl[s] > 1 THEN Older(store[s]) ELSE None]
    /\ req' = [p \in Procs |->
                  IF req[p] = None THEN None
                  ELSE [req[p] EXCEPT !.obj = Older(@), !.aged = (req[p].step = "resync")]]
    /\ UNCHANGED <<rbac, setup, issued, sessionHistory>>

-----------------------------------------------------------------------------
(* Requests: the session.                                                  *)

Goto(p, step) == req' = [req EXCEPT ![p].step = step]
Answer(p) == req' = [req EXCEPT ![p] = None]

Enter(p, op, s, step, token) ==
    /\ req[p] = None
    /\ op \in setup.ops
    /\ req' = [req EXCEPT ![p] = [op |-> op, sid |-> s, step |-> step, token |-> token,
                                  obj |-> None, left |-> 0, aged |-> FALSE, change |-> None,
                                  list |-> {}, known |-> kept]]

SubmitLogin(p) ==
    /\ \E s \in setup.sids :
          /\ issued[s] = 0
          /\ \A q \in Procs : req[q] # None => req[q].sid # s
          /\ Enter(p, "login", s, "user", 0)
    /\ BeginLoad(p, None)
    /\ UNCHANGED <<state, cache, tables, version, queue, rewrite, faults, made, kept,
                   setup, records, issued, sessionHistory>>

\* A request brings the token it was given last, or an older one.
Submit(p) ==
    /\ \E op \in {"view", "change", "kick", "refresh", "logout"}, s \in setup.sids :
          /\ issued[s] > 0
          /\ op = "change" => setup.changes \ made # {}
          /\ op = "refresh" => issued[s] < MaxTokens
          /\ \E token \in IF op = "refresh" THEN 1..issued[s] ELSE {0} :
                Enter(p, op, s, "find", token)
    /\ UNCHANGED <<rbac, setup, records, issued, sessionHistory>>

\* findBySessionId; a refresh token that is not the stored one is refused.
SameToken(p) == req[p].op = "refresh" => store[req[p].sid].token = req[p].token
Find(p) ==
    /\ req[p].step = "find"
    /\ IF store[req[p].sid] # None /\ SameToken(p)
       THEN req' = [req EXCEPT ![p].step = "ttl", ![p].obj = store[req[p].sid]]
       ELSE Answer(p)
    /\ UNCHANGED <<rbac, setup, records, issued, sessionHistory>>

\* getRemainingTtl, of the guard and of syncSessionUser.
ReadTtl(p) ==
    /\ req[p].step \in {"ttl", "resync ttl"}
    /\ LET s == req[p].sid
           next == IF req[p].step = "resync ttl" THEN "resync"
                   ELSE IF ttl[s] <= Threshold THEN "extend" ELSE "found"
       IN  IF store[s] = None THEN Answer(p)
           ELSE req' = [req EXCEPT ![p].step = next,
                               ![p].aged = (next = "resync" /\ s \in drifted),
                               ![p].left = IF next = "resync" THEN ttl[s] ELSE 0]
    /\ UNCHANGED <<rbac, setup, records, issued, sessionHistory>>

\* refreshSessionIfNeeded below the threshold: never beyond the maximum
\* (mutations: by the full time; on top of the maximum).
FullTime(obj) == IF obj.max = 0 THEN 0 ELSE Ttl
LongTime(obj) == obj.max + Ttl
NextTime(obj) == IF obj.max < Ttl THEN obj.max ELSE Ttl

\* (mutation: the maximum is counted anew.)
Renewed(obj) == [obj EXCEPT !.expires = Ttl, !.max = MaxTtl]
Extended(obj) == [obj EXCEPT !.expires = NextTime(obj)]
Extend(p) ==
    LET s == req[p].sid
        obj == Extended(req[p].obj)
        time == obj.expires
    IN  /\ req[p].step = "extend"
        /\ \/ /\ time = 0
              /\ End(p, s)
              /\ Answer(p)
           \/ /\ time > 0
              /\ Save(s, obj, time)
              /\ req' = [req EXCEPT ![p].step = "found", ![p].obj = obj]
              /\ drifted' = drifted \ {s}
              /\ UNCHANGED <<ended, exposed, overlapped>>
        /\ UNCHANGED <<rbac, setup, issued>>

\* refreshSession: the token is replaced, the session stored for what is left
\* (mutation: the token is not stored).
KeepToken(p) == req[p].obj
Rotated(p) == [req[p].obj EXCEPT !.token = issued[req[p].sid] + 1]
Rotate(p) ==
    LET s == req[p].sid
    IN  /\ req[p].step = "found" /\ req[p].op = "refresh"
        /\ \/ /\ req[p].obj.expires = 0
              /\ End(p, s)
              /\ UNCHANGED issued
           \/ /\ req[p].obj.expires > 0
              /\ issued[s] < MaxTokens
              /\ Save(s, Rotated(p), req[p].obj.expires)
              /\ issued' = [issued EXCEPT ![s] = @ + 1]
              /\ overlapped' = IF Others(p, s) # {} THEN overlapped \cup {s}
                               ELSE overlapped \ {s}
              /\ drifted' = drifted \ {s}
              /\ UNCHANGED <<ended, exposed>>
        /\ Answer(p)
        /\ UNCHANGED <<rbac, setup>>

\* logout: the session is found as by the guard, and ended.
Logout(p) ==
    /\ req[p].step = "found" /\ req[p].op = "logout"
    /\ End(p, req[p].sid)
    /\ Answer(p)
    /\ UNCHANGED <<rbac, setup, issued>>

-----------------------------------------------------------------------------
(* Requests: the user.                                                     *)

Guarded == {"view", "change", "kick"}

\* getCurrentUser: the state is loaded.
LoadUser(p) ==
    /\ req[p].step = "found" /\ req[p].op \in Guarded
    /\ BeginLoad(p, None)
    /\ Goto(p, "user")
    /\ UNCHANGED <<state, cache, tables, version, queue, rewrite, faults, made, kept,
                   setup, records, issued, sessionHistory>>

FetchUser(p) ==
    /\ req[p].step \in {"user", "change"}
    /\ load[p] # None
    /\ FetchStep(p)
    /\ UNCHANGED sessions

\* The user as it was loaded; syncSessionUser when it is another than the
\* session's (mutation: the session's is used).
KeepUser(obj) == obj
WithUser(obj) == [obj EXCEPT !.user = state']
HaveUser(p) ==
    LET obj == req[p].obj
    IN  /\ req[p].step = "user" /\ load[p] # None
        /\ ActStep(p)
        /\ req' = [req EXCEPT
              ![p].step = IF req[p].op = "login" THEN "create"
                          ELSE IF obj.user = state' THEN "passed" ELSE "resync ttl",
              ![p].obj = IF req[p].op = "login"
                         THEN [token |-> 1, user |-> state', expires |-> 0, max |-> 0]
                         ELSE WithUser(obj)]
        /\ UNCHANGED <<setup, records, issued, sessionHistory>>

\* createSession: the times are counted from here.
Create(p) ==
    LET s == req[p].sid
    IN  /\ req[p].step = "create"
        /\ Save(s, [req[p].obj EXCEPT !.expires = Ttl, !.max = MaxTtl], Ttl)
        /\ issued' = [issued EXCEPT ![s] = 1]
        /\ Answer(p)
        /\ UNCHANGED <<rbac, setup, sessionHistory>>

\* The session is stored with the new user for the time that was left.
Resync(p) ==
    LET s == req[p].sid
    IN  /\ req[p].step = "resync"
        /\ Save(s, req[p].obj, req[p].left)
        /\ drifted' = IF req[p].aged THEN drifted \cup {s} ELSE drifted
        /\ Goto(p, "passed")
        /\ UNCHANGED <<rbac, setup, issued, ended, exposed, overlapped>>

-----------------------------------------------------------------------------
(* Requests: what they are for.                                            *)

View(p) ==
    /\ req[p].step = "passed" /\ req[p].op = "view"
    /\ Answer(p)
    /\ UNCHANGED <<rbac, setup, records, issued, sessionHistory>>

\* forceLogout, of any session.
Kick(p) ==
    /\ req[p].step = "passed" /\ req[p].op = "kick"
    /\ \E s \in setup.sids : issued[s] > 0 /\ End(p, s)
    /\ Answer(p)
    /\ UNCHANGED <<rbac, setup, issued>>

\* A change of the user, queued and waited for (wrapPersistentMutation).
BeginChange(p) ==
    /\ req[p].step = "passed" /\ req[p].op = "change"
    /\ \/ /\ \E c \in setup.changes \ made :
                /\ \A q \in Procs : load[q] # None => load[q].change # c
                /\ BeginLoad(p, c)
                /\ req' = [req EXCEPT ![p].step = "change", ![p].change = c, ![p].obj = None]
       \/ /\ setup.changes \subseteq made \cup {load[q].change : q \in {r \in Procs : load[r] # None}}
          /\ Answer(p)
          /\ UNCHANGED <<load, crossed>>
    /\ UNCHANGED <<state, cache, tables, version, queue, rewrite, faults, made, kept,
                   setup, records, issued, sessionHistory>>

MakeChange(p) ==
    /\ req[p].step = "change" /\ load[p] # None
    /\ ActStep(p)
    /\ Goto(p, "flush")
    /\ UNCHANGED <<setup, records, issued, sessionHistory>>

\* invalidateSessionsByUserIds after the rewrite: the sessions are listed, then
\* ended one by one.  After a failed rewrite the request ends in an error.
ListSessions(p) ==
    /\ req[p].step = "flush" /\ load[p] = None
    /\ IF req[p].change \in kept
       THEN req' = [req EXCEPT ![p].step = "end",
                               ![p].list = {s \in setup.sids : store[s] # None}]
       ELSE Answer(p)
    /\ UNCHANGED <<rbac, setup, records, issued, sessionHistory>>

EndListed(p) ==
    /\ req[p].step = "end"
    /\ \/ /\ req[p].list = {}
          /\ Answer(p)
          /\ UNCHANGED <<records, ended, exposed, overlapped, drifted>>
       \/ \E s \in req[p].list :
             /\ End(p, s)
             /\ req' = [req EXCEPT ![p].list = @ \ {s}]
    /\ UNCHANGED <<rbac, setup, issued>>

RequestStep(p) ==
    /\ req[p] # None
    /\ \/ Find(p) \/ ReadTtl(p) \/ Extend(p) \/ Rotate(p) \/ Logout(p)
       \/ LoadUser(p) \/ FetchUser(p) \/ HaveUser(p) \/ Create(p) \/ Resync(p)
       \/ View(p) \/ Kick(p) \/ BeginChange(p) \/ MakeChange(p)
       \/ ListSessions(p) \/ EndListed(p)

\* The process dies with its requests, or Redis comes back empty.
Crash ==
    /\ faults < setup.faults
    /\ RbacCrash
    /\ req' = [p \in Procs |-> None]
    /\ UNCHANGED <<setup, records, issued, sessionHistory>>

LoseRedis ==
    /\ faults < setup.faults
    /\ LoseSnapshot
    /\ Gone(Sids)
    /\ UNCHANGED <<setup, req, issued, sessionHistory>>

Next ==
    \/ \E p \in Procs : SubmitLogin(p) \/ Submit(p) \/ RequestStep(p)
    \/ RewriteStep /\ UNCHANGED sessions
    \/ faults < setup.faults /\ RewriteFails /\ UNCHANGED sessions
    \/ Crash \/ LoseRedis \/ Tick

\* Requests and rewrites go on and time goes by; nothing makes users send
\* requests.
Fairness ==
    /\ \A p \in Procs : WF_vars(RequestStep(p))
    /\ WF_vars(RewriteStep /\ UNCHANGED sessions)
    /\ WF_vars(Tick)

Spec == Init /\ [][Next]_vars /\ Fairness

-----------------------------------------------------------------------------
(* Properties.                                                             *)

\* Every variable has values of its kind, a record in Redis has some time left,
\* and a load is that of a request.
TypeOK ==
    /\ RbacTypeOK
    /\ setup \in Setups
    /\ store \in [Sids -> Session \cup {None}]
    /\ ttl \in [Sids -> 0..MaxTtl] /\ issued \in [Sids -> 0..MaxTokens]
    /\ \A s \in Sids : (store[s] # None) <=> (ttl[s] > 0)
    /\ req \in [Procs -> Request \cup {None}]
    /\ \A p \in Procs : load[p] # None => req[p] # None
    /\ {ended, exposed, overlapped, drifted} \subseteq SUBSET Sids

\* A request that has passed the guard sees the user with every change that had
\* been answered when the request came, unless another request loaded the state
\* while that change was made.
FreshUser ==
    \A p \in Procs :
        req[p] # None /\ req[p].step = "passed" =>
            \A c \in req[p].known \ crossed : Whole(req[p].obj.user, c)

\* A session that was ended while no other request had found it does not come
\* back.
EndedStaysEnded == \A s \in ended \ exposed : store[s] = None

\* The refresh token that Redis knows is the one that was given out last, unless
\* another request had found the session before.
TokenIsLatest ==
    \A s \in Sids \ overlapped : store[s] # None => store[s].token = issued[s]

\* A session is not kept beyond its maximum time, unless it was stored for a
\* time that was read a while before, or for what was left of such a time.
NoLongerThanMax ==
    \A s \in Sids \ drifted : store[s] # None => ttl[s] <= store[s].max

\* Every request is answered: rewrites that others wait for go on.
RequestsEnd == \A p \in Procs : (req[p] # None) ~> (req[p] = None)

\* However much it is used, a session ends.
SessionsEnd == \A s \in Sids : (store[s] # None) ~> (store[s] = None)
=============================================================================
