---------------------------------- MODULE HttpSession ----------------------------------
(***************************************************************************)
(* The sessions of test_05_03/session: browsers, and the pool's threads that  *)
(* share a counter of users and a map of sessions without a lock.  A browser  *)
(* asks for one page at a time; it may also visit the cookie server of        *)
(* test_05_03/cookie on the same host, whose cookies go to both servers.      *)
(***************************************************************************)
EXTENDS Naturals, FiniteSets

CONSTANTS
    Browsers,
    Ids,            \* what rand() + time() may give
    MaxRequests,    \* pages asked for (a bound of the model)
    MaxRestarts     \* restarts of the server (a bound of the model)

VARIABLES
    number,     \* HandlerHttp's static number
    sessions,   \* _sessions; owner is history
    hpc,        \* the task of each browser's request
    url, sid,   \* _url and _sessionid of its request
    user,       \* the number its task has read
    newid,      \* the sessionid its task has made
    cookie,     \* of each browser: its sessionid, or None
    passwd,     \* of each browser: it has the cookie server's cookies
    answered,   \* history: a /login of the browser has been answered since the start
    issued,     \* history: ids ever given
    cut,        \* history: browsers whose request arrived in part, or got no answer
    raced, collided,    \* history: two tasks counted at once; an id was given twice
    requests, restarts,     \* history
    broken      \* two tasks were in the map at once, one of them to insert

task == <<hpc, url, sid, user, newid>>
history == <<issued, cut, raced, collided, requests>>
vars == <<number, sessions, task, cookie, passwd, answered, history, restarts, broken>>

None == "none"
Urls == {"/login", "/", "/a/b"}

Init ==
    /\ number = 0
    /\ sessions = {}
    /\ hpc = [b \in Browsers |-> "idle"]
    /\ url = [b \in Browsers |-> ""] /\ sid = [b \in Browsers |-> None]
    /\ user = [b \in Browsers |-> 0] /\ newid = [b \in Browsers |-> None]
    /\ cookie = [b \in Browsers |-> None]
    /\ passwd = [b \in Browsers |-> FALSE]
    /\ answered = [b \in Browsers |-> FALSE]
    /\ issued = {} /\ cut = {}
    /\ raced = FALSE /\ collided = FALSE
    /\ requests = 0 /\ restarts = 0
    /\ broken = FALSE

To(b, pc) == hpc' = [hpc EXCEPT ![b] = pc]

Found(id) == \E s \in sessions : s.id = id

-----------------------------------------------------------------------------
(* The cookie server: its headers set cookies of the path /a/b. *)

SetCookies(b) ==
    /\ hpc[b] = "idle" /\ ~passwd[b]
    /\ passwd' = [passwd EXCEPT ![b] = TRUE]
    /\ UNCHANGED <<number, sessions, task, cookie, answered, history, restarts, broken>>

-----------------------------------------------------------------------------
(* The request. *)

\* Parse takes a sessionid from the beginning of the first Cookie line only, and a
\* browser sends the cookies of the longer path first.
SessionId(b, u) == IF passwd[b] /\ u = "/a/b" THEN None ELSE cookie[b]

\* ProcessConnection reads once: all, the lines before the cookies, or not even one.
Deserialize(b, u, got) ==
    /\ ~broken /\ hpc[b] = "idle" /\ requests < MaxRequests
    /\ requests' = requests + 1
    /\ url' = [url EXCEPT ![b] = IF got = "part" THEN "" ELSE u]
    /\ sid' = [sid EXCEPT ![b] = IF got = "whole" THEN SessionId(b, u) ELSE None]
    /\ cut' = IF got = "whole" THEN cut ELSE cut \cup {b}
    /\ To(b, "handle")
    /\ UNCHANGED <<number, sessions, user, newid, cookie, passwd, answered, issued, raced,
                   collided, restarts, broken>>

-----------------------------------------------------------------------------
(* HandlerHttp. *)

\* The stale id counts as a login.
LogsInMutant(b) == url[b] = "/login"

LogsIn(b) == url[b] = "/login" /\ sid[b] = None

\* number++ reads, then writes.
ReadNumber(b) ==
    /\ ~broken /\ hpc[b] = "handle" /\ LogsIn(b)
    /\ user' = [user EXCEPT ![b] = number]
    /\ raced' = (raced \/ \E c \in Browsers \ {b} : hpc[c] = "count")
    /\ To(b, "count")
    /\ UNCHANGED <<number, sessions, url, sid, newid, cookie, passwd, answered, issued, cut,
                   collided, requests, restarts, broken>>

WriteNumber(b) ==
    /\ ~broken /\ hpc[b] = "count"
    /\ number' = user[b] + 1
    /\ To(b, "add")
    /\ UNCHANGED <<sessions, url, sid, user, newid, cookie, passwd, answered, history,
                   restarts, broken>>

InMap(b) == {c \in Browsers \ {b} : hpc[c] \in {"insert", "find"}}

AddSession(b, id) ==
    /\ ~broken /\ hpc[b] = "add"
    /\ newid' = [newid EXCEPT ![b] = id]
    /\ issued' = issued \cup {id}
    /\ collided' = (collided \/ id \in issued)
    /\ broken' = (InMap(b) # {})
    /\ To(b, "insert")
    /\ UNCHANGED <<number, sessions, url, sid, user, cookie, passwd, answered, cut, raced,
                   requests, restarts>>

\* insert leaves an id that is there as it is.
Insert(b) ==
    /\ ~broken /\ hpc[b] = "insert"
    /\ sessions' = IF Found(newid[b]) THEN sessions
                   ELSE sessions \cup {[id |-> newid[b], user |-> user[b], owner |-> b]}
    /\ To(b, "respond")
    /\ UNCHANGED <<number, url, sid, user, newid, cookie, passwd, answered, history, restarts,
                   broken>>

\* Any other page looks for the session, and says in the log what it found.
GetSession(b) ==
    /\ ~broken /\ hpc[b] = "handle" /\ ~LogsIn(b)
    /\ IF url[b] = "/login" \/ sid[b] = None
       THEN To(b, "respond") /\ UNCHANGED broken
       ELSE To(b, "find") /\ broken' = (\E c \in InMap(b) : hpc[c] = "insert")
    /\ UNCHANGED <<number, sessions, url, sid, user, newid, cookie, passwd, answered, history,
                   restarts>>

EndFind(b) ==
    /\ ~broken /\ hpc[b] = "find"
    /\ To(b, "respond")
    /\ UNCHANGED <<number, sessions, url, sid, user, newid, cookie, passwd, answered, history,
                   restarts, broken>>

\* ProveSession's header, and the answer, unless the browser has gone.
ProveSession(b, arrives) ==
    /\ ~broken /\ hpc[b] = "respond"
    /\ IF arrives
       THEN /\ cookie' = [cookie EXCEPT ![b] = IF newid[b] # None THEN newid[b] ELSE @]
            /\ answered' = [answered EXCEPT ![b] = @ \/ url[b] = "/login"]
            /\ UNCHANGED cut
       ELSE cut' = cut \cup {b} /\ UNCHANGED <<cookie, answered>>
    /\ newid' = [newid EXCEPT ![b] = None]
    /\ url' = [url EXCEPT ![b] = ""] /\ sid' = [sid EXCEPT ![b] = None]
    /\ user' = [user EXCEPT ![b] = 0]
    /\ To(b, "idle")
    /\ UNCHANGED <<number, sessions, passwd, issued, raced, collided, requests,
                   restarts, broken>>

\* The server ends and another begins; the browsers keep their cookies.
Restart ==
    /\ ~broken /\ restarts < MaxRestarts
    /\ number' = 0 /\ sessions' = {}
    /\ hpc' = [b \in Browsers |-> "idle"]
    /\ url' = [b \in Browsers |-> ""] /\ sid' = [b \in Browsers |-> None]
    /\ user' = [b \in Browsers |-> 0] /\ newid' = [b \in Browsers |-> None]
    /\ answered' = [b \in Browsers |-> FALSE]
    /\ restarts' = restarts + 1
    /\ UNCHANGED <<cookie, passwd, history, broken>>

Next ==
    \/ Restart
    \/ \E b \in Browsers :
          \/ SetCookies(b)
          \/ \E u \in Urls, got \in {"whole", "headless", "part"} : Deserialize(b, u, got)
          \/ ReadNumber(b) \/ WriteNumber(b) \/ Insert(b) \/ GetSession(b) \/ EndFind(b)
          \/ \E id \in Ids : AddSession(b, id)
          \/ \E arrives \in BOOLEAN : ProveSession(b, arrives)

Spec == Init /\ [][Next]_vars

-----------------------------------------------------------------------------
(* Properties. *)

TypeOK ==
    /\ number \in 0..MaxRequests
    /\ sessions \subseteq [id : Ids, user : 0..MaxRequests, owner : Browsers]
    /\ hpc \in [Browsers -> {"idle", "handle", "count", "add", "insert", "find", "respond"}]
    /\ url \in [Browsers -> Urls \cup {""}]
    /\ sid \in [Browsers -> Ids \cup {None}] /\ cookie \in [Browsers -> Ids \cup {None}]

(* What the sessions need to be each browser's own (HandlerHttp, AddSession): in *)
(* a server that was not restarted, a browser whose /login was answered has a  *)
(* session, which is its own unless an id was given twice; two sessions have   *)
(* two users unless two tasks counted at once; and a browser has one session   *)
(* only, if all its requests arrived whole and were answered.                  *)
SessionsOwned ==
    /\ \A b \in Browsers : answered[b] /\ cookie[b] # None /\ restarts = 0 => Found(cookie[b])
    /\ \A b \in Browsers, s \in sessions : ~collided /\ cookie[b] = s.id => s.owner = b
    /\ \A s, r \in sessions : s # r /\ s.user = r.user => raced
    /\ \A s, r \in sessions : s # r /\ s.owner = r.owner => s.owner \in cut

\* Who is about to count, or has read the number.
Counting == {b \in Browsers : hpc[b] \in {"handle", "count"}}

\* The number grows with the requests: one that waits to be counted has its place.
NumberBounded ==
    /\ IsFiniteSet(Counting) /\ number + Cardinality(Counting) <= requests
    /\ \A b \in Browsers : hpc[b] = "count" => user[b] + Cardinality(Counting) <= requests

\* An id that is made is one's own until the answer, and in the map before it.
IdsMade ==
    /\ \A b \in Browsers :
          /\ hpc[b] = "insert" => newid[b] # None
          /\ newid[b] # None => hpc[b] \in {"insert", "respond"} /\ newid[b] \in issued
          /\ newid[b] # None /\ hpc[b] = "respond" => Found(newid[b])
          /\ cookie[b] # None => cookie[b] \in issued
          /\ cookie[b] # None /\ restarts = 0 => Found(cookie[b])
    /\ \A s \in sessions : s.id \in issued

IdsOwn ==
    /\ \A b, c \in Browsers : b # c /\ newid[b] # None =>
          newid[b] # cookie[c] /\ newid[b] # newid[c]
    /\ \A b \in Browsers, s \in sessions : s.id \in {cookie[b], newid[b]} => s.owner = b

\* Without two tasks that count at once, the numbers are given one after the other.
NumbersOwn ==
    /\ \A b \in Browsers :
          /\ hpc[b] = "count" => user[b] = number
          /\ hpc[b] \in {"add", "insert"} =>
                user[b] < number /\ \A s \in sessions : s.user # user[b]
    /\ \A b, c \in Browsers : b # c /\ hpc[b] = "count" => hpc[c] # "count"
    /\ \A b, c \in Browsers : b # c /\ {hpc[b], hpc[c]} \subseteq {"add", "insert"} =>
          user[b] # user[c]
    /\ \A s \in sessions : s.user < number

\* A browser whose requests arrive and are answered logs in once.
LoggedInOnce(b) ==
    /\ hpc[b] = "handle" /\ url[b] = "/login" => sid[b] = cookie[b]
    /\ hpc[b] \in {"count", "add", "insert"} => cookie[b] = None
    /\ \A s \in sessions : s.owner = b =>
          cookie[b] # None \/ (hpc[b] = "respond" /\ newid[b] # None)

\* What makes SessionsOwned inductive.
SessionInv ==
    /\ TypeOK /\ SessionsOwned
    /\ requests \in 0..MaxRequests /\ user \in [Browsers -> 0..MaxRequests]
    /\ newid \in [Browsers -> Ids \cup {None}] /\ restarts \in 0..MaxRestarts
    /\ NumberBounded /\ IdsMade
    /\ ~collided => IdsOwn
    /\ ~raced => NumbersOwn
    /\ \A b \in Browsers \ cut : LoggedInOnce(b)

(* HttpProtocol.hpp:251: "/login writes a sessionid to the browser, and in the    *)
(* server maintains the session object that belongs to it": a browser whose     *)
(* /login this server has answered has a session in it.                         *)
LoginMaintainsSession ==
    \A b \in Browsers : answered[b] /\ b \notin cut => Found(cookie[b])
=============================================================================
