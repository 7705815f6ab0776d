--------------------------- MODULE TcpServersProofs ----------------------------
(* Who holds which socket, for any clients, any servers and any limits.  The *)
(* listing of the accepting process's sockets at each of its places (Table)  *)
(* is what makes SocketsOwned inductive; it rests on a connection being       *)
(* served once (Once).                                                        *)
EXTENDS TcpServers, SequenceTheorems, TLAPS

Unserved(c) == worker[c] = "none" /\ first[c] = "none"

\* The connections of a server of threads that have a socket.
Own ==
    IF kind \in Forking THEN {}
    ELSE {c \in Peers : worker[c] \in Serving \cup {"queued", "lost"}}

(* The sockets of the accepting process, at each of its places.              *)
Table ==
    /\ lpc \in {"init", "exited"} => held[Main] = {}
    /\ lpc \in {"accept", "wait", "serve"} => held[Main] = {Listener} \cup Own
    /\ lpc \in {"spawn", "close"} => cur \in Peers /\ held[Main] = {Listener, cur} \cup Own

(* The places belong to the servers: only a forking one closes and waits,     *)
(* only hello serves in the accepting thread, only session has a queue.      *)
Kinded ==
    /\ lpc \in {"close", "wait"} => kind \in Forking /\ cur \in Peers
    /\ lpc = "serve" => kind = "hello"
    /\ kind \notin Forking => \A c \in Peers : first[c] = "none"
    /\ kind = "hello" =>
          \A c \in Peers : worker[c] \in Serving => lpc = "serve" /\ cur = c
    /\ tasks # <<>> => kind = "session"

(* A connection waits once, is taken once and is served once.                *)
Once ==
    /\ backlog \in Seq(Peers) /\ tasks \in Seq(Peers)
    /\ \A i, j \in DOMAIN backlog : backlog[i] = backlog[j] => i = j
    /\ \A i \in DOMAIN backlog :
          Unserved(backlog[i]) /\ backlog[i] # cur /\ client[backlog[i]] # "off"
    /\ \A c \in Peers : client[c] = "off" => Unserved(c) /\ cur # c
    /\ lpc = "init" => \A c \in Peers : Unserved(c)
    /\ lpc = "spawn" => Unserved(cur)
    /\ \A i, j \in DOMAIN tasks : tasks[i] = tasks[j] => i = j
    /\ lpc # "exited" => \A i \in DOMAIN tasks : worker[tasks[i]] = "queued"

(* What the processes made for a connection hold, and when its service may    *)
(* have begun.                                                               *)
Children ==
    \A c \in Peers :
       /\ worker[c] \in Serving => c \in held[ProcessOf(c)]
       /\ held[Grandchild(c)] \subseteq {c}
       /\ held[Child(c)] \subseteq {Listener, c}
       /\ first[c] # "listen" => held[Child(c)] \subseteq {c}
       /\ first[c] \in {"none", "ended"} => held[Child(c)] = {}
       /\ first[c] \in {"listen", "fork"} => c \in held[Child(c)]
       /\ kind \in Forking /\ first[c] \in {"none", "listen", "fork"} => worker[c] = "none"

\* Nobody reads what was not asked.
Asked == \A c \in Peers : inbox[c] <= asked[c]

SocketsInv ==
    /\ TypeOK
    /\ Table
    /\ Kinded
    /\ Once
    /\ Children
    /\ Asked

-------------------------------------------------------------------------------
(* Sequences of connections that hold each once.                             *)

LEMMA TailKeepsOnce ==
  ASSUME NEW s \in Seq(Peers), s # <<>>,
         \A i, j \in DOMAIN s : s[i] = s[j] => i = j
  PROVE  /\ Tail(s) \in Seq(Peers)
         /\ \E i \in DOMAIN s : s[i] = Head(s)
         /\ \A i \in DOMAIN Tail(s) :
               Tail(s)[i] # Head(s) /\ \E k \in DOMAIN s : Tail(s)[i] = s[k]
         /\ \A i, j \in DOMAIN Tail(s) : Tail(s)[i] = Tail(s)[j] => i = j
<1>1. Tail(s) \in Seq(Peers) /\ Len(Tail(s)) = Len(s) - 1
      /\ \A i \in 1..Len(Tail(s)) : Tail(s)[i] = s[i + 1]
  BY HeadTailProperties
<1>2. Head(s) = s[1] /\ 1 \in DOMAIN s
  BY EmptySeq, LenProperties
<1>3. DOMAIN s = 1..Len(s) /\ DOMAIN Tail(s) = 1..Len(Tail(s)) /\ Len(s) \in Nat
  BY <1>1, LenProperties
<1>4. ASSUME NEW i \in DOMAIN Tail(s)
      PROVE  i + 1 \in DOMAIN s /\ i + 1 # 1 /\ Tail(s)[i] = s[i + 1]
  BY <1>1, <1>3
<1>5. \A i \in DOMAIN Tail(s) : Tail(s)[i] # Head(s) /\ \E k \in DOMAIN s : Tail(s)[i] = s[k]
  BY <1>2, <1>4
<1>6. ASSUME NEW i \in DOMAIN Tail(s), NEW j \in DOMAIN Tail(s), Tail(s)[i] = Tail(s)[j]
      PROVE  i = j
  <2>1. i + 1 = j + 1
    BY <1>4, <1>6
  <2> QED BY <2>1, <1>3
<1> QED BY <1>1, <1>2, <1>5, <1>6

LEMMA AppendKeepsOnce ==
  ASSUME NEW s \in Seq(Peers), NEW c \in Peers,
         \A i, j \in DOMAIN s : s[i] = s[j] => i = j,
         \A i \in DOMAIN s : s[i] # c
  PROVE  /\ Append(s, c) \in Seq(Peers)
         /\ \A i \in DOMAIN Append(s, c) :
               Append(s, c)[i] = c \/ \E k \in DOMAIN s : Append(s, c)[i] = s[k]
         /\ \A i, j \in DOMAIN Append(s, c) : Append(s, c)[i] = Append(s, c)[j] => i = j
<1>1. /\ Append(s, c) \in Seq(Peers)
      /\ Len(Append(s, c)) = Len(s) + 1
      /\ \A i \in 1..Len(s) : Append(s, c)[i] = s[i]
      /\ Append(s, c)[Len(s) + 1] = c
  BY AppendProperties
<1>2. DOMAIN s = 1..Len(s) /\ DOMAIN Append(s, c) = 1..(Len(s) + 1) /\ Len(s) \in Nat
  BY <1>1, LenProperties
<1>3. \A i \in DOMAIN Append(s, c) : i \in DOMAIN s \/ i = Len(s) + 1
  BY <1>2
<1> QED BY <1>1, <1>2, <1>3

(* Processes are told apart by their connection and their role.              *)
LEMMA Roles ==
  ASSUME NEW c \in Peers
  PROVE  /\ Main \in Procs /\ Child(c) \in Procs /\ Grandchild(c) \in Procs
         /\ Command(c) \in Procs
         /\ \A d \in Peers :
               /\ Child(c) # Main /\ Grandchild(c) # Main /\ Command(c) # Main
               /\ Child(c) # Grandchild(d) /\ Child(c) # Command(d)
               /\ Grandchild(c) # Command(d)
               /\ c # d => Child(c) # Child(d) /\ Grandchild(c) # Grandchild(d)
  BY DEF Main, Child, Grandchild, Command, Procs

LEMMA Process ==
  ASSUME NEW c \in Peers
  PROVE  /\ kind \notin Forking => ProcessOf(c) = Main
         /\ kind \in Forking /\ first[c] = "serve" => ProcessOf(c) = Child(c)
         /\ kind \in Forking /\ first[c] # "serve" => ProcessOf(c) = Grandchild(c)
         /\ ProcessOf(c) \in Procs
  BY Roles DEF ProcessOf

-------------------------------------------------------------------------------
(* What most steps do, as far as sockets go.                                  *)

(* A step of a service or of a client: the service stays in its process, or   *)
(* loses the socket in a server of threads, and only a command's own copies    *)
(* change.                                                                    *)
Quiet(c) ==
    /\ UNCHANGED <<server, lpc, cur, status, first, tasks, pool, backlog>>
    /\ held' \in [Procs -> SUBSET (Peers \cup {Listener})]
    /\ \A p \in Procs : p # Command(c) => held'[p] = held[p]
    /\ \/ worker' = worker
       \/ /\ worker[c] \in Serving
          /\ \/ \E place \in Serving : WorkerAt(c, place)
             \/ kind \notin Forking /\ WorkerAt(c, "lost")
    /\ client' \in [Peers -> {"off", "open", "waiting", "left", "reset", "gone", "ended", "refused"}]
    /\ \A d \in Peers : client'[d] = "off" <=> client[d] = "off"
    /\ asked' \in [Peers -> 0..MaxAsks] /\ inbox' \in [Peers -> 0..MaxAsks]
    /\ \A d \in Peers : inbox'[d] <= asked'[d]

LEMMA QuietKeepsSockets ==
  ASSUME SocketsInv, NEW c \in Peers, Quiet(c)
  PROVE  SocketsInv'
<1> USE DEF SocketsInv, WorkerAt
<1>1. /\ worker' \in [Peers -> Places]
      /\ \A d \in Peers : worker'[d] # worker[d] => d = c /\ worker[c] \in Serving
      /\ \A d \in Peers : worker'[d] \in Serving => worker[d] \in Serving
      /\ \A d \in Peers :
            kind \notin Forking =>
               (worker[d] \in Serving \cup {"queued", "lost"}
                   <=> worker'[d] \in Serving \cup {"queued", "lost"})
  BY DEF Quiet, TypeOK, Places, Serving
<1>2. TypeOK'
  BY <1>1 DEF Quiet, TypeOK, server
<1>3. \A d \in Peers : held'[Main] = held[Main] /\ held'[Child(d)] = held[Child(d)]
                       /\ held'[Grandchild(d)] = held[Grandchild(d)]
  BY Roles DEF Quiet
<1>4. Own' = Own
  BY <1>1 DEF Own, Quiet, server
<1>5. held'[Main] = held[Main]
  BY Roles DEF Quiet
<1>6. Table'
  BY <1>4, <1>5 DEF Quiet, Table
<1>7. Kinded'
  BY <1>1 DEF Quiet, Kinded, server
<1>8. \A d \in Peers : worker[d] \in {"none", "queued"} => worker'[d] = worker[d]
  BY <1>1 DEF Serving
<1>9. \A d \in Peers : Unserved(d) => Unserved(d)'
  BY <1>8 DEF Unserved, Quiet
<1>10. Once'
  <2>1. \A k \in DOMAIN backlog : backlog[k] \in Peers
    BY DEF Once
  <2>2. \A k \in DOMAIN tasks : tasks[k] \in Peers
    BY DEF Once
  <2>3. lpc # "exited" => \A k \in DOMAIN tasks : worker'[tasks[k]] = "queued"
    BY <1>8, <2>2 DEF Once
  <2>4. \A k \in DOMAIN backlog :
           Unserved(backlog[k])' /\ backlog[k] # cur /\ client'[backlog[k]] # "off"
    BY <1>9, <2>1 DEF Quiet, Once
  <2>5. \A d \in Peers : client'[d] = "off" => Unserved(d)' /\ cur # d
    BY <1>9 DEF Quiet, Once
  <2>6. lpc = "init" => \A d \in Peers : Unserved(d)'
    BY <1>9 DEF Once
  <2>7. lpc = "spawn" => Unserved(cur)'
    <3>1. lpc = "spawn" => cur \in Peers /\ Unserved(cur)
      BY DEF Once, Table
    <3>2. \A d \in Peers : cur = d /\ Unserved(d) => Unserved(cur)'
      BY <1>9 DEF Quiet, Unserved
    <3> QED BY <3>1, <3>2
  <2> QED BY <2>3, <2>4, <2>5, <2>6, <2>7 DEF Quiet, Once
<1>11. \A d \in Peers : ProcessOf(d)' = ProcessOf(d)
  BY DEF Quiet, ProcessOf, server
<1>12. Children'
  BY <1>1, <1>3, <1>8, <1>11, Process, Roles DEF Quiet, Children, server
<1>13. Asked'
  BY DEF Quiet, Asked
<1> QED BY <1>2, <1>6, <1>7, <1>10, <1>12, <1>13

(* The accepting process ends, by itself or by a service in it.               *)
LEMMA ExitKeepsSockets ==
  ASSUME SocketsInv, NEW code \in 0..6 \cup {SIGPIPE}, ExitMain(code),
         UNCHANGED <<server, first, tasks, pool, backlog, asked, client, inbox>>
  PROVE  SocketsInv'
<1> USE DEF SocketsInv
<1>1. /\ worker' \in [Peers -> Places]
      /\ \A d \in Peers : worker'[d] # worker[d] =>
            worker[d] \in Serving \cup {"queued", "lost"} /\ worker'[d] = "killed"
      /\ \A d \in Peers : kind \notin Forking => worker'[d] \notin Serving
  BY Process DEF ExitMain, TypeOK, Places, Serving
<1>2. Main \in Procs
  BY DEF Procs
<1>3. held' \in [Procs -> SUBSET (Peers \cup {Listener})] /\ held'[Main] = {}
  BY <1>2 DEF ExitMain, TypeOK
<1>4. TypeOK'
  BY <1>1, <1>3 DEF ExitMain, TypeOK, server
<1>5. \A d \in Peers : held'[Child(d)] = held[Child(d)]
                       /\ held'[Grandchild(d)] = held[Grandchild(d)]
  BY Roles DEF ExitMain, TypeOK
<1>6. Table'
  BY <1>3 DEF ExitMain, Table
<1>7. Kinded'
  <2>1. lpc' = "exited" /\ kind' = kind /\ first' = first
    BY DEF ExitMain, server
  <2>2. kind = "hello" => \A d \in Peers : worker'[d] \notin Serving
    BY <1>1 DEF Forking
  <2> QED BY <2>1, <2>2 DEF Kinded
<1>8. \A d \in Peers : worker[d] = "none" => worker'[d] = "none"
  BY <1>1 DEF Serving
<1>9. \A d \in Peers : Unserved(d) => Unserved(d)'
  BY <1>8 DEF Unserved
<1>10. Once'
  BY <1>9 DEF ExitMain, Once, TypeOK
<1>11. \A d \in Peers : ProcessOf(d)' = ProcessOf(d)
  BY DEF ProcessOf, server
<1>12. \A d \in Peers : worker'[d] \in Serving =>
          worker[d] \in Serving /\ kind \in Forking
  <2> SUFFICES ASSUME NEW d \in Peers, worker'[d] \in Serving
               PROVE  worker[d] \in Serving /\ kind \in Forking
    OBVIOUS
  <2>1. worker'[d] # "killed"
    BY DEF Serving
  <2> QED BY <1>1, <2>1
<1>13. Children'
  BY <1>5, <1>8, <1>11, <1>12, Process, Roles DEF Children, server
<1>14. Asked'
  BY DEF Asked
<1> QED BY <1>4, <1>6, <1>7, <1>10, <1>13, <1>14

-------------------------------------------------------------------------------
(* What a step leaves alone.                                                  *)

\* The sockets of the processes that a connection has, where they stand, and
\* the services of forking servers.
LEMMA ChildrenKept ==
  ASSUME Children, kind' = kind, first' = first,
         \A d \in Peers : held'[Child(d)] = held[Child(d)]
                          /\ held'[Grandchild(d)] = held[Grandchild(d)],
         \A d \in Peers : kind \in Forking =>
            /\ worker'[d] \in Serving => worker[d] \in Serving
            /\ worker[d] = "none" => worker'[d] = "none",
         \A d \in Peers : kind \notin Forking /\ worker'[d] \in Serving => d \in held'[Main]
  PROVE  Children'
<1>1. \A d \in Peers : ProcessOf(d)' = ProcessOf(d)
  BY DEF ProcessOf
<1>2. SUFFICES ASSUME NEW d \in Peers
      PROVE  worker'[d] \in Serving => d \in held'[ProcessOf(d)]
  BY <1>1 DEF Children
<1>3. CASE kind \in Forking
  <2>1. ProcessOf(d) = Child(d) \/ ProcessOf(d) = Grandchild(d)
    BY <1>3, Process
  <2> QED BY <1>3, <2>1 DEF Children
<1>4. CASE kind \notin Forking
  BY <1>4, Process
<1> QED BY <1>3, <1>4

\* A connection that waits or was just accepted is not touched by who serves
\* another one.
LEMMA OnceKept ==
  ASSUME Once, lpc # "init", lpc' \notin {"init", "spawn"}, tasks' = tasks, cur' = NoOne,
         UNCHANGED <<first, backlog>>,
         \A d \in Peers : client'[d] = "off" <=> client[d] = "off",
         \A d \in Peers : worker[d] = "none" /\ cur # d => worker'[d] = "none",
         lpc' # "exited" => \A k \in DOMAIN tasks : worker'[tasks[k]] = "queued"
  PROVE  Once'
<1>1. \A d \in Peers : Unserved(d) /\ cur # d => Unserved(d)'
  BY DEF Unserved
<1>2. \A k \in DOMAIN backlog : backlog[k] \in Peers
  BY DEF Once
<1>3. \A k \in DOMAIN backlog :
         Unserved(backlog[k])' /\ backlog[k] # cur' /\ client'[backlog[k]] # "off"
  BY <1>1, <1>2, ServersAssumption DEF Once
<1>4. \A d \in Peers : client'[d] = "off" => Unserved(d)' /\ cur' # d
  BY <1>1, ServersAssumption DEF Once
<1> QED BY <1>3, <1>4 DEF Once

-------------------------------------------------------------------------------
(* The accepting process.                                                     *)

LEMMA InitSockets == Init => SocketsInv
<1> SUFFICES ASSUME Init PROVE SocketsInv
  OBVIOUS
<1> USE DEF Init
<1>1. TypeOK
  BY ServersAssumption DEF TypeOK, Places, NoPool
<1>2. \A p \in Procs : held[p] = {}
  OBVIOUS
<1>3. Main \in Procs /\ \A d \in Peers : Child(d) \in Procs /\ Grandchild(d) \in Procs
  BY Roles DEF Procs
<1>4. Table
  BY <1>2, <1>3 DEF Table
<1>5. Kinded
  BY DEF Kinded, Serving
<1>6. backlog \in Seq(Peers) /\ DOMAIN backlog = {} /\ tasks \in Seq(Peers) /\ DOMAIN tasks = {}
  OBVIOUS
<1>7. Once
  BY <1>6, ServersAssumption DEF Once, Unserved
<1>8. Children
  BY <1>2, <1>3 DEF Children, Serving
<1>9. Asked
  BY DEF Asked
<1> QED BY <1>1, <1>4, <1>5, <1>7, <1>8, <1>9 DEF SocketsInv

LEMMA BringUpKeepsSockets ==
  ASSUME SocketsInv, NEW codes \in SUBSET (0..6), BringUp(codes)
  PROVE  SocketsInv'
<1> USE DEF SocketsInv
<1>1. Main \in Procs /\ \A d \in Peers : worker[d] = "none"
  BY DEF Procs, BringUp, Once, Unserved
<1>2. /\ held' \in [Procs -> SUBSET (Peers \cup {Listener})]
      /\ lpc' \in {"accept", "exited"}
      /\ lpc' = "accept" => held'[Main] = {Listener}
      /\ lpc' = "exited" => held'[Main] = {}
      /\ \A d \in Peers : held'[Child(d)] = held[Child(d)]
                          /\ held'[Grandchild(d)] = held[Grandchild(d)]
  BY <1>1, Roles DEF BringUp, TypeOK, Table
<1>3. TypeOK'
  BY <1>2 DEF BringUp, TypeOK, server, net
<1>4. Own' = {}
  BY <1>1 DEF Own, BringUp, server, Serving
<1>5. Table'
  BY <1>2, <1>4 DEF Table
<1>6. Kinded'
  BY <1>1, <1>2 DEF Kinded, BringUp, server, Serving
<1>7. \A d \in Peers : Unserved(d)' = Unserved(d)
  BY DEF BringUp, Unserved
<1>8. lpc = "init" /\ lpc' \notin {"init", "spawn"} /\ cur' = cur /\ backlog' = backlog
      /\ tasks' = tasks /\ client' = client /\ worker' = worker
  BY <1>2 DEF BringUp, net
<1>9. Once'
  <2>1. \A k \in DOMAIN backlog : backlog[k] \in Peers
    BY DEF Once
  <2> QED BY <1>7, <1>8, <2>1 DEF Once
<1>10. Children'
  BY <1>1, <1>2, ChildrenKept DEF BringUp, server, Serving
<1>11. Asked'
  BY DEF Asked, BringUp, net
<1> QED BY <1>3, <1>5, <1>6, <1>9, <1>10, <1>11

LEMMA AcceptKeepsSockets ==
  ASSUME SocketsInv, NEW c \in Peers, Accept(c)
  PROVE  SocketsInv'
<1> USE DEF SocketsInv
<1>1. Main \in Procs
  BY DEF Procs
<1>2. /\ held' \in [Procs -> SUBSET (Peers \cup {Listener})]
      /\ held'[Main] = held[Main] \cup {c}
      /\ \A d \in Peers : held'[Child(d)] = held[Child(d)]
                          /\ held'[Grandchild(d)] = held[Grandchild(d)]
  BY <1>1, Roles DEF Accept, TypeOK
<1>3. TypeOK'
  BY <1>2 DEF Accept, TypeOK, server
<1>4. Own' = Own
  BY DEF Own, Accept, server
<1>5. Table'
  BY <1>2, <1>4 DEF Table, Accept
<1>6. Kinded'
  BY DEF Kinded, Accept, server
<1>7. Once'
  <2>1. /\ backlog' \in Seq(Peers)
        /\ \E i \in DOMAIN backlog : backlog[i] = c
        /\ \A i \in DOMAIN backlog' :
              backlog'[i] # c /\ \E k \in DOMAIN backlog : backlog'[i] = backlog[k]
        /\ \A i, j \in DOMAIN backlog' : backlog'[i] = backlog'[j] => i = j
    BY TailKeepsOnce DEF Accept, Once
  <2>2. \A d : Unserved(d)' = Unserved(d)
    BY DEF Unserved, Accept
  <2>3. cur' = c /\ Unserved(c) /\ client[c] # "off"
    BY <2>1 DEF Accept, Once
  <2>4. lpc = "accept" /\ lpc' = "spawn" /\ tasks' = tasks /\ worker' = worker
        /\ client' = client
    BY DEF Accept
  <2>5. \A i \in DOMAIN backlog' :
           Unserved(backlog[i])' /\ backlog'[i] # c /\ client[backlog'[i]] # "off"
    BY <2>1, <2>2 DEF Once
  <2> QED BY <2>1, <2>2, <2>3, <2>4, <2>5 DEF Once
<1>8. \A d \in Peers : kind \notin Forking /\ worker[d] \in Serving => d \in held[Main]
  BY Process DEF Children
<1>9. Children'
  BY <1>2, <1>8, ChildrenKept DEF Accept, server
<1>10. Asked'
  BY DEF Asked, Accept
<1> QED BY <1>3, <1>5, <1>6, <1>7, <1>9, <1>10

LEMMA AcceptDropsKeepsSockets ==
  ASSUME SocketsInv, NEW c \in Peers, AcceptDrops(c)
  PROVE  SocketsInv'
<1> USE DEF SocketsInv, AcceptDrops, server, listener, works
<1>1. TypeOK'
  BY DEF TypeOK
<1>2. Table'
  BY DEF Table, Own
<1>3. Kinded'
  BY DEF Kinded
<1>4. Once'
  <2>1. /\ backlog' \in Seq(Peers)
        /\ \A i \in DOMAIN backlog' :
              backlog'[i] # c /\ \E k \in DOMAIN backlog : backlog'[i] = backlog[k]
        /\ \A i, j \in DOMAIN backlog' : backlog'[i] = backlog'[j] => i = j
    BY TailKeepsOnce DEF Once
  <2>2. \A d : Unserved(d)' = Unserved(d)
    BY DEF Unserved
  <2>3. \A i \in DOMAIN backlog' :
           Unserved(backlog[i])' /\ backlog'[i] # cur /\ client[backlog'[i]] # "off"
    BY <2>1, <2>2 DEF Once
  <2> QED BY <2>1, <2>2, <2>3 DEF Once
<1>5. Children'
  BY DEF Children, ProcessOf
<1>6. Asked'
  BY DEF Asked
<1> QED BY <1>1, <1>2, <1>3, <1>4, <1>5, <1>6

LEMMA ConnectKeepsSockets ==
  ASSUME SocketsInv, NEW c \in Peers, Connect(c)
  PROVE  SocketsInv'
<1> USE DEF SocketsInv, Connect, server, listener, works
<1>1. TypeOK'
  BY DEF TypeOK
<1>2. Table'
  BY DEF Table, Own
<1>3. Kinded'
  BY DEF Kinded
<1>4. Once'
  <2>1. \A d : Unserved(d)' = Unserved(d)
    BY DEF Unserved
  <2>2. /\ Unserved(c) /\ cur # c
        /\ client'[c] # "off"
        /\ \A d \in Peers : d # c => client'[d] = client[d]
    <3>1. client[c] = "off" /\ Unserved(c) /\ cur # c
      BY DEF Once
    <3>2. client' = [client EXCEPT ![c] = "open"] \/ client' = [client EXCEPT ![c] = "refused"]
      OBVIOUS
    <3> QED BY <3>1, <3>2 DEF TypeOK
  <2>3. \A k \in DOMAIN backlog : backlog[k] \in Peers /\ backlog[k] # c
    BY DEF Once
  <2>4. CASE backlog' = backlog
    BY <2>1, <2>2, <2>3, <2>4 DEF Once
  <2>5. CASE backlog' = Append(backlog, c)
    <3>1. /\ backlog' \in Seq(Peers)
          /\ \A i \in DOMAIN backlog' :
                backlog'[i] = c \/ \E k \in DOMAIN backlog : backlog'[i] = backlog[k]
          /\ \A i, j \in DOMAIN backlog' : backlog'[i] = backlog'[j] => i = j
      BY <2>3, <2>5, AppendKeepsOnce DEF Once
    <3>2. \A i \in DOMAIN backlog' :
             Unserved(backlog[i])' /\ backlog'[i] # cur /\ client'[backlog'[i]] # "off"
      BY <2>1, <2>2, <2>3, <3>1 DEF Once
    <3> QED BY <2>1, <2>2, <3>1, <3>2 DEF Once
  <2> QED BY <2>4, <2>5
<1>5. Children'
  BY DEF Children, ProcessOf
<1>6. Asked'
  BY DEF Asked
<1> QED BY <1>1, <1>2, <1>3, <1>4, <1>5, <1>6

LEMMA ForkKeepsSockets ==
  ASSUME SocketsInv, Fork
  PROVE  SocketsInv'
<1> USE DEF SocketsInv
<1>1. CASE ExitMain(6) /\ UNCHANGED first
  BY <1>1, ExitKeepsSockets DEF Fork, net
<1>2. CASE ~ (ExitMain(6) /\ UNCHANGED first)
  <2>1. /\ kind \in Forking /\ lpc = "spawn" /\ lpc' = "close" /\ cur \in Peers
        /\ held' = [held EXCEPT ![Child(cur)] = held[Main]]
        /\ first' = [first EXCEPT ![cur] = "listen"]
        /\ worker[cur] = "none"
        /\ held[Main] = {Listener, cur}
        /\ UNCHANGED <<kind, maxfds, cur, status, worker, tasks, pool, backlog, inbox, client, asked>>
    BY <1>2 DEF Fork, Once, Unserved, Table, Own, server, net
  <2>2. /\ held' \in [Procs -> SUBSET (Peers \cup {Listener})]
        /\ held'[Main] = held[Main]
        /\ held'[Child(cur)] = {Listener, cur}
        /\ \A d \in Peers : d # cur => held'[Child(d)] = held[Child(d)]
        /\ \A d \in Peers : held'[Grandchild(d)] = held[Grandchild(d)]
    BY <2>1, Roles DEF TypeOK
  <2>3. /\ first' \in [Peers -> {"none", "listen", "fork", "exit", "serve", "ended"}]
        /\ first'[cur] = "listen"
        /\ \A d \in Peers : d # cur => first'[d] = first[d]
    BY <2>1 DEF TypeOK
  <2>4. TypeOK'
    BY <2>1, <2>2, <2>3 DEF TypeOK
  <2>5. Table'
    BY <2>1, <2>2 DEF Table, Own
  <2>6. Kinded'
    BY <2>1 DEF Kinded, Forking
  <2>7. Once'
    <3>1. \A d \in Peers : d # cur /\ Unserved(d) => Unserved(d)'
      BY <2>1, <2>3 DEF Unserved
    <3>2. \A k \in DOMAIN backlog : backlog[k] \in Peers
      BY DEF Once
    <3> QED BY <2>1, <3>1, <3>2 DEF Once
  <2>8. Children'
    <3> SUFFICES ASSUME NEW d \in Peers
                 PROVE  /\ worker'[d] \in Serving => d \in held'[ProcessOf(d)']
                        /\ held'[Grandchild(d)] \subseteq {d}
                        /\ held'[Child(d)] \subseteq {Listener, d}
                        /\ first'[d] # "listen" => held'[Child(d)] \subseteq {d}
                        /\ first'[d] \in {"none", "ended"} => held'[Child(d)] = {}
                        /\ first'[d] \in {"listen", "fork"} => d \in held'[Child(d)]
                        /\ kind' \in Forking /\ first'[d] \in {"none", "listen", "fork"}
                              => worker'[d] = "none"
      BY DEF Children
    <3>1. CASE d = cur
      BY <2>1, <2>2, <2>3, <3>1 DEF Children, Serving
    <3>2. CASE d # cur
      <4>1. ProcessOf(d)' = ProcessOf(d) /\ held'[ProcessOf(d)] = held[ProcessOf(d)]
        BY <2>1, <2>2, <2>3, <3>2, Process DEF ProcessOf
      <4> QED BY <2>1, <2>2, <2>3, <3>2, <4>1 DEF Children
    <3> QED BY <3>1, <3>2
  <2>9. Asked'
    BY <2>1 DEF Asked
  <2> QED BY <2>4, <2>5, <2>6, <2>7, <2>8, <2>9
<1> QED BY <1>1, <1>2

LEMMA FatherKeepsSockets ==
  ASSUME SocketsInv, FatherCloseSock \/ FatherWait
  PROVE  SocketsInv'
<1> USE DEF SocketsInv
<1>1. Main \in Procs
  BY DEF Procs
<1>2. /\ kind \in Forking /\ cur \in Peers /\ Own = {}
      /\ UNCHANGED <<kind, maxfds, first, worker, status, tasks, pool, backlog, inbox, client, asked>>
  BY DEF Kinded, Own, FatherCloseSock, FatherWait, server, net, works
<1>3. /\ held' \in [Procs -> SUBSET (Peers \cup {Listener})]
      /\ held'[Main] = {Listener}
      /\ \A d \in Peers : held'[Child(d)] = held[Child(d)]
                          /\ held'[Grandchild(d)] = held[Grandchild(d)]
  <2>1. CASE FatherCloseSock
    <3>1. held[Main] = {Listener, cur} /\ Listener # cur
      BY <1>2, <2>1, ServersAssumption DEF Table, FatherCloseSock
    <3> QED BY <1>1, <2>1, <3>1, Roles DEF FatherCloseSock, FatherCloses, TypeOK
  <2>2. CASE FatherWait
    BY <1>2, <2>2 DEF FatherWait, Table, TypeOK
  <2> QED BY <2>1, <2>2
<1>4. /\ lpc \in {"close", "wait"}
      /\ \/ lpc' = "wait" /\ cur' = cur
         \/ lpc' = "accept" /\ cur' = NoOne
  BY DEF FatherCloseSock, FatherWait
<1>5. TypeOK'
  BY <1>2, <1>3, <1>4 DEF TypeOK
<1>6. Table'
  BY <1>2, <1>3, <1>4 DEF Table, Own
<1>7. Kinded'
  BY <1>2, <1>4 DEF Kinded, Forking
<1>8. Once'
  <2>1. \A k \in DOMAIN backlog : backlog[k] \in Peers
    BY DEF Once
  <2>2. \A d : Unserved(d)' = Unserved(d)
    BY <1>2 DEF Unserved
  <2>3. \A d \in Peers : cur # d => cur' # d
    BY <1>4, ServersAssumption
  <2> QED BY <1>2, <1>4, <2>1, <2>2, <2>3 DEF Once
<1>9. Children'
  BY <1>2, <1>3, ChildrenKept
<1>10. Asked'
  BY <1>2 DEF Asked
<1> QED BY <1>5, <1>6, <1>7, <1>8, <1>9, <1>10

(* A server of threads hands the connection to a thread, or loses it.         *)
LEMMA CreateThreadKeepsSockets ==
  ASSUME SocketsInv, kind \notin Forking \cup {"hello"}, CreateThread
  PROVE  SocketsInv'
<1> USE DEF SocketsInv
<1>1. /\ cur \in Peers /\ lpc = "spawn" /\ lpc' = "accept" /\ cur' = NoOne
      /\ held[Main] = {Listener, cur} \cup Own
      /\ UNCHANGED <<kind, maxfds, status, held, first, tasks, pool, backlog, inbox, client, asked>>
  BY DEF CreateThread, Table, server, net
<1>2. /\ worker' \in [Peers -> Places]
      /\ worker'[cur] \in Serving \cup {"lost"}
      /\ \A d \in Peers : d # cur => worker'[d] = worker[d]
  BY <1>1 DEF CreateThread, WorkerAt, TypeOK, Places, Serving
<1>3. TypeOK'
  BY <1>1, <1>2 DEF TypeOK
<1>4. Own' = Own \cup {cur}
  BY <1>1, <1>2 DEF Own
<1>5. Table'
  BY <1>1, <1>4 DEF Table
<1>6. Kinded'
  BY <1>1 DEF Kinded
<1>7. Once'
  <2>1. \A k \in DOMAIN tasks : tasks[k] \in Peers /\ worker[tasks[k]] = "queued"
    BY <1>1 DEF Once
  <2>2. worker[cur] = "none"
    BY <1>1 DEF Once, Unserved
  <2>3. \A k \in DOMAIN tasks : worker'[tasks[k]] = "queued"
    BY <1>2, <2>1, <2>2
  <2> QED BY <1>1, <1>2, <2>3, OnceKept
<1>8. \A d \in Peers : worker'[d] \in Serving => d \in held'[Main]
  BY <1>1, <1>4 DEF Own
<1>9. Children'
  BY <1>1, <1>8, ChildrenKept
<1>10. Asked'
  BY <1>1 DEF Asked
<1> QED BY <1>3, <1>5, <1>6, <1>7, <1>9, <1>10

LEMMA SessionStartKeepsSockets ==
  ASSUME SocketsInv, SessionStart
  PROVE  SocketsInv'
<1> USE DEF SocketsInv
<1>1. /\ kind = "session" /\ kind \notin Forking
      /\ cur \in Peers /\ lpc = "spawn" /\ lpc' = "accept" /\ cur' = NoOne
      /\ held[Main] = {Listener, cur} \cup Own
      /\ tasks' = Append(tasks, cur)
      /\ UNCHANGED <<kind, maxfds, status, held, first, backlog, inbox, client, asked>>
  BY DEF SessionStart, Table, server, net, Forking
<1>2. /\ worker' \in [Peers -> Places]
      /\ worker'[cur] = "queued"
      /\ \A d \in Peers : d # cur => worker'[d] = worker[d]
  BY <1>1 DEF SessionStart, WorkerAt, TypeOK, Places
<1>3. pool' \in 0..NoPool
  BY ServersAssumption DEF SessionStart, GetInstance, TypeOK, NoPool
<1>4. TypeOK'
  BY <1>1, <1>2, <1>3 DEF TypeOK
<1>5. Own' = Own \cup {cur}
  BY <1>1, <1>2 DEF Own
<1>6. Table'
  BY <1>1, <1>5 DEF Table
<1>7. Kinded'
  BY <1>1 DEF Kinded
<1>8. Once'
  <2>1. worker[cur] = "none" /\ Unserved(cur)
    BY <1>1 DEF Once, Unserved
  <2>2. \A k \in DOMAIN tasks : worker[tasks[k]] = "queued" /\ tasks[k] \in Peers /\ tasks[k] # cur
    BY <1>1, <2>1 DEF Once
  <2>3. /\ tasks' \in Seq(Peers)
        /\ \A k \in DOMAIN tasks' :
              tasks'[k] = cur \/ \E j \in DOMAIN tasks : tasks'[k] = tasks[j]
        /\ \A j, k \in DOMAIN tasks' : tasks'[j] = tasks'[k] => j = k
    BY <1>1, <2>2, AppendKeepsOnce DEF Once
  <2>4. \A k \in DOMAIN tasks' : worker'[tasks'[k]] = "queued"
    BY <1>2, <2>2, <2>3
  <2>5. \A d \in Peers : d # cur /\ Unserved(d) => Unserved(d)'
    BY <1>1, <1>2 DEF Unserved
  <2>6. \A k \in DOMAIN backlog : backlog[k] \in Peers /\ Unserved(backlog[k]) /\ backlog[k] # cur
                                  /\ client[backlog[k]] # "off"
    BY DEF Once
  <2>7. \A k \in DOMAIN backlog :
           Unserved(backlog[k])' /\ backlog'[k] # cur' /\ client'[backlog'[k]] # "off"
    BY <1>1, <2>5, <2>6, ServersAssumption
  <2>8. \A d \in Peers : client'[d] = "off" => Unserved(d)' /\ cur' # d
    BY <1>1, <2>5, ServersAssumption DEF Once
  <2> QED BY <1>1, <2>3, <2>4, <2>7, <2>8 DEF Once
<1>9. \A d \in Peers : worker'[d] \in Serving => d \in held'[Main]
  BY <1>1, <1>5 DEF Own
<1>10. Children'
  BY <1>1, <1>9, ChildrenKept
<1>11. Asked'
  BY <1>1 DEF Asked
<1> QED BY <1>4, <1>6, <1>7, <1>8, <1>10, <1>11

LEMMA HelloServesKeepsSockets ==
  ASSUME SocketsInv, HelloServes
  PROVE  SocketsInv'
<1> USE DEF SocketsInv
<1>1. /\ kind = "hello" /\ kind \notin Forking
      /\ cur \in Peers /\ lpc = "spawn" /\ lpc' = "serve"
      /\ held[Main] = {Listener, cur} \cup Own
      /\ UNCHANGED <<kind, maxfds, cur, status, held, first, tasks, pool, backlog, inbox, client, asked>>
  BY DEF HelloServes, Table, server, net, Forking
<1>2. /\ worker' \in [Peers -> Places]
      /\ worker'[cur] = "read"
      /\ \A d \in Peers : d # cur => worker'[d] = worker[d]
  BY <1>1 DEF HelloServes, WorkerAt, TypeOK, Places, Serving
<1>3. TypeOK'
  BY <1>1, <1>2 DEF TypeOK
<1>4. Own' = Own \cup {cur}
  BY <1>1, <1>2 DEF Own, Serving
<1>5. Table'
  BY <1>1, <1>4 DEF Table
<1>6. Kinded'
  BY <1>1, <1>2 DEF Kinded
<1>7. Once'
  <2>1. worker[cur] = "none"
    BY <1>1 DEF Once, Unserved
  <2>2. \A k \in DOMAIN tasks : worker[tasks[k]] = "queued" /\ tasks[k] \in Peers
    BY <1>1 DEF Once
  <2>3. \A k \in DOMAIN tasks : worker'[tasks[k]] = "queued"
    BY <1>2, <2>1, <2>2
  <2>4. \A d \in Peers : d # cur /\ Unserved(d) => Unserved(d)'
    BY <1>1, <1>2 DEF Unserved
  <2>5. \A k \in DOMAIN backlog : backlog[k] \in Peers /\ backlog[k] # cur
    BY DEF Once
  <2> QED BY <1>1, <2>3, <2>4, <2>5 DEF Once
<1>8. \A d \in Peers : worker'[d] \in Serving => d \in held'[Main]
  BY <1>1, <1>4 DEF Own
<1>9. Children'
  BY <1>1, <1>8, ChildrenKept
<1>10. Asked'
  BY <1>1 DEF Asked
<1> QED BY <1>3, <1>5, <1>6, <1>7, <1>9, <1>10

LEMMA TakeTaskKeepsSockets ==
  ASSUME SocketsInv, NEW c \in Peers, TakeTask(c)
  PROVE  SocketsInv'
<1> USE DEF SocketsInv
<1>1. /\ lpc # "exited" /\ tasks # <<>> /\ c = Head(tasks) /\ tasks' = Tail(tasks)
      /\ UNCHANGED <<kind, maxfds, lpc, cur, status, held, first, pool, backlog, inbox, client, asked>>
  BY DEF TakeTask, server, listener, net
<1>2. /\ tasks' \in Seq(Peers)
      /\ \E k \in DOMAIN tasks : tasks[k] = c
      /\ \A k \in DOMAIN tasks' :
            tasks'[k] # c /\ \E j \in DOMAIN tasks : tasks'[k] = tasks[j]
      /\ \A j, k \in DOMAIN tasks' : tasks'[j] = tasks'[k] => j = k
  BY <1>1, TailKeepsOnce DEF Once
<1>3. worker[c] = "queued"
  BY <1>1, <1>2 DEF Once
<1>4. /\ worker' \in [Peers -> Places]
      /\ worker'[c] = "read"
      /\ \A d \in Peers : d # c => worker'[d] = worker[d]
  BY DEF TakeTask, WorkerAt, TypeOK, Places, Serving
<1>5. TypeOK'
  BY <1>1, <1>4 DEF TypeOK
<1>6. Own' = Own
  BY <1>1, <1>3, <1>4 DEF Own, Serving
<1>7. Table'
  BY <1>1, <1>6 DEF Table
<1>8. kind \notin Forking /\ kind # "hello"
  BY <1>1 DEF Kinded, Forking
<1>9. Kinded'
  BY <1>1, <1>8 DEF Kinded
<1>10. Once'
  <2>1. ~ Unserved(c) /\ lpc # "init"
    BY <1>3 DEF Once, Unserved
  <2>2. \A d \in Peers : Unserved(d) => Unserved(d)'
    BY <1>1, <1>4, <2>1 DEF Unserved
  <2>3. \A k \in DOMAIN backlog : backlog[k] \in Peers
    BY DEF Once
  <2>4. lpc = "spawn" => cur \in Peers
    BY DEF Table
  <2>5. \A k \in DOMAIN tasks' : worker'[tasks'[k]] = "queued"
    BY <1>1, <1>2, <1>4 DEF Once
  <2> QED BY <1>1, <1>2, <2>1, <2>2, <2>3, <2>4, <2>5 DEF Once
<1>11. c \in held[Main]
  <2>1. c \in Own /\ lpc # "init"
    BY <1>3, <1>8 DEF Own, Once, Unserved
  <2> QED BY <1>1, <2>1 DEF Table, TypeOK
<1>12. \A d \in Peers : worker'[d] \in Serving => d \in held'[Main]
  BY <1>1, <1>4, <1>8, <1>11, Process DEF Children
<1>13. Children'
  BY <1>1, <1>8, <1>12, ChildrenKept
<1>14. Asked'
  BY <1>1 DEF Asked
<1> QED BY <1>5, <1>7, <1>9, <1>10, <1>13, <1>14

-------------------------------------------------------------------------------
(* The processes of a connection.                                             *)

LEMMA ChildKeepsSockets ==
  ASSUME SocketsInv, NEW c \in Peers,
         ChildClosesListener(c) \/ ChildForks(c) \/ ChildExits(c)
  PROVE  SocketsInv'
<1> USE DEF SocketsInv
<1>1. UNCHANGED <<kind, maxfds, lpc, cur, status, tasks, pool, backlog, inbox, client, asked>>
  BY DEF ChildClosesListener, ChildForks, ChildExits, server, listener, net
<1>2. first[c] \in {"listen", "fork", "exit"} /\ kind \in Forking
  BY DEF ChildClosesListener, ChildForks, ChildExits, Leaves, Kinded
<1>3. /\ worker' \in [Peers -> Places]
      /\ \A d \in Peers : d # c => worker'[d] = worker[d]
      /\ worker'[c] = worker[c] \/ (first[c] = "fork" /\ first'[c] \in {"exit", "serve"})
  BY DEF ChildClosesListener, ChildForks, ChildExits, SecondFork, WorkerAt, TypeOK, Places, Serving
<1>4. /\ first' \in [Peers -> {"none", "listen", "fork", "exit", "serve", "ended"}]
      /\ \A d \in Peers : d # c => first'[d] = first[d]
  BY DEF ChildClosesListener, ChildForks, ChildExits, SecondFork, TypeOK
<1>5. /\ held' \in [Procs -> SUBSET (Peers \cup {Listener})]
      /\ held'[Main] = held[Main]
      /\ \A d \in Peers : d # c => held'[Child(d)] = held[Child(d)]
                                   /\ held'[Grandchild(d)] = held[Grandchild(d)]
  BY Roles DEF ChildClosesListener, ChildForks, ChildExits, SecondFork, TypeOK
<1>6. TypeOK'
  BY <1>1, <1>3, <1>4, <1>5 DEF TypeOK
<1>7. Table'
  BY <1>1, <1>2, <1>5 DEF Table, Own
<1>8. Kinded'
  BY <1>1, <1>2 DEF Kinded, Forking
<1>9. Once'
  <2>1. ~ Unserved(c)
    BY <1>2 DEF Unserved
  <2>2. \A d \in Peers : Unserved(d) => Unserved(d)'
    BY <1>3, <1>4, <2>1 DEF Unserved
  <2>3. \A k \in DOMAIN backlog : backlog[k] \in Peers
    BY DEF Once
  <2>4. lpc = "spawn" => cur \in Peers
    BY DEF Table
  <2>5. tasks = <<>>
    BY <1>2 DEF Kinded, Forking
  <2>6. DOMAIN tasks = {}
    BY <2>5
  <2> QED BY <1>1, <2>2, <2>3, <2>4, <2>6 DEF Once
<1>10. \A d \in Peers : d # c => ProcessOf(d)' = ProcessOf(d)
                                 /\ held'[ProcessOf(d)] = held[ProcessOf(d)]
  BY <1>1, <1>4, <1>5, Process DEF ProcessOf
<1>11. /\ worker'[c] \in Serving => c \in held'[ProcessOf(c)']
       /\ held'[Grandchild(c)] \subseteq {c}
       /\ held'[Child(c)] \subseteq {Listener, c}
       /\ first'[c] # "listen" => held'[Child(c)] \subseteq {c}
       /\ first'[c] \in {"none", "ended"} => held'[Child(c)] = {}
       /\ first'[c] \in {"listen", "fork"} => c \in held'[Child(c)]
       /\ first'[c] \in {"none", "listen", "fork"} => worker'[c] = "none"
  <2>1. CASE ChildClosesListener(c)
    <3>1. first[c] = "listen" /\ first'[c] = "fork" /\ worker'[c] = "none"
          /\ held'[Grandchild(c)] = held[Grandchild(c)]
          /\ held'[Child(c)] = held[Child(c)] \ {Listener}
      BY <1>2, <2>1, Roles DEF ChildClosesListener, TypeOK, Children
    <3> QED BY <3>1, ServersAssumption DEF Children, Serving
  <2>2. CASE ChildForks(c)
    <3>1. first[c] = "fork" /\ held[Child(c)] = {c}
      BY <2>2 DEF ChildForks, Children
    <3>2. CASE held' = [held EXCEPT ![Grandchild(c)] = held[Child(c)]] /\ first'[c] = "exit"
      <4>1. held'[Grandchild(c)] = {c} /\ held'[Child(c)] = {c} /\ ProcessOf(c)' = Grandchild(c)
        BY <1>1, <1>2, <3>1, <3>2, Roles DEF TypeOK, ProcessOf
      <4> QED BY <3>2, <4>1
    <3>3. CASE held' = held /\ first'[c] = "serve"
      <4>1. ProcessOf(c)' = Child(c)
        BY <1>1, <1>2, <3>3 DEF ProcessOf
      <4> QED BY <3>1, <3>3, <4>1 DEF Children
    <3> QED BY <2>2, <3>2, <3>3 DEF ChildForks, SecondFork, TypeOK
  <2>3. CASE ChildExits(c)
    <3>1. first[c] = "exit" /\ first'[c] = "ended" /\ worker' = worker
          /\ held'[Grandchild(c)] = held[Grandchild(c)] /\ held'[Child(c)] = {}
      BY <2>3, Roles DEF ChildExits, Leaves, TypeOK
    <3>2. ProcessOf(c)' = Grandchild(c) /\ ProcessOf(c) = Grandchild(c)
      BY <1>1, <1>2, <3>1 DEF ProcessOf
    <3> QED BY <3>1, <3>2 DEF Children
  <2> QED BY <2>1, <2>2, <2>3
<1>12. Children'
  BY <1>1, <1>3, <1>4, <1>5, <1>10, <1>11 DEF Children
<1>13. Asked'
  BY <1>1 DEF Asked
<1> QED BY <1>6, <1>7, <1>8, <1>9, <1>12, <1>13

-------------------------------------------------------------------------------
(* The services.                                                              *)

(* The process made for a connection closes the socket, or is killed: either   *)
(* way it has none left.                                                      *)
LEMMA AloneKeepsSockets ==
  ASSUME SocketsInv, NEW c \in Peers, NEW place \in {"done", "killed"},
         kind \in Forking, worker[c] \in Serving,
         held' = [held EXCEPT ![ProcessOf(c)] = {}],
         WorkerAt(c, place),
         first' = [first EXCEPT ![c] = IF @ = "serve" THEN "ended" ELSE @],
         UNCHANGED <<kind, maxfds, lpc, cur, status, tasks, pool, backlog, inbox, client, asked>>
  PROVE  SocketsInv'
<1> USE DEF SocketsInv
<1>1. first[c] \notin {"none", "listen", "fork"}
  BY DEF Children, Serving
<1>2. /\ worker' \in [Peers -> Places]
      /\ worker'[c] = place
      /\ \A d \in Peers : d # c => worker'[d] = worker[d]
  BY DEF WorkerAt, TypeOK, Places
<1>3. /\ first' \in [Peers -> {"none", "listen", "fork", "exit", "serve", "ended"}]
      /\ first[c] = "serve" => first'[c] = "ended"
      /\ first[c] # "serve" => first'[c] = first[c]
      /\ \A d \in Peers : d # c => first'[d] = first[d]
  BY DEF TypeOK
<1>4. /\ ProcessOf(c) \in {Child(c), Grandchild(c)}
      /\ first[c] = "serve" => ProcessOf(c) = Child(c)
      /\ first[c] # "serve" => ProcessOf(c) = Grandchild(c)
  BY Process
<1>5. /\ held' \in [Procs -> SUBSET (Peers \cup {Listener})]
      /\ held'[Main] = held[Main]
      /\ held'[ProcessOf(c)] = {}
      /\ \A d \in Peers :
            /\ Child(d) # ProcessOf(c) => held'[Child(d)] = held[Child(d)]
            /\ Grandchild(d) # ProcessOf(c) => held'[Grandchild(d)] = held[Grandchild(d)]
  BY <1>4, Roles, Process DEF TypeOK
<1>6. \A d \in Peers : d # c =>
         /\ held'[Child(d)] = held[Child(d)]
         /\ held'[Grandchild(d)] = held[Grandchild(d)]
  BY <1>4, <1>5, Roles
<1>7. TypeOK'
  BY <1>2, <1>3, <1>5 DEF TypeOK
<1>8. Table'
  BY <1>5 DEF Table, Own
<1>9. Kinded'
  BY DEF Kinded, Forking
<1>10. Once'
  <2>1. \A d \in Peers : Unserved(d) => Unserved(d)'
    BY <1>1, <1>2, <1>3 DEF Unserved
  <2>2. \A k \in DOMAIN backlog : backlog[k] \in Peers
    BY DEF Once
  <2>3. lpc = "spawn" => cur \in Peers
    BY DEF Table
  <2>4. tasks = <<>>
    BY DEF Kinded, Forking
  <2>5. DOMAIN tasks = {}
    BY <2>4
  <2> QED BY <2>1, <2>2, <2>3, <2>5 DEF Once
<1>11. /\ worker'[c] \notin Serving
       /\ held'[Grandchild(c)] \subseteq {c}
       /\ held'[Child(c)] \subseteq {c}
       /\ first'[c] \notin {"none", "listen", "fork"}
       /\ first'[c] = "ended" => held'[Child(c)] = {}
  BY <1>1, <1>2, <1>3, <1>4, <1>5, Roles DEF Children, Serving
<1>12. \A d \in Peers : d # c => ProcessOf(d)' = ProcessOf(d)
                                 /\ held'[ProcessOf(d)] = held[ProcessOf(d)]
  BY <1>3, <1>6, Process DEF ProcessOf
<1>13. Children'
  BY <1>2, <1>3, <1>6, <1>11, <1>12 DEF Children
<1>14. Asked'
  BY DEF Asked
<1> QED BY <1>7, <1>8, <1>9, <1>10, <1>13, <1>14

LEMMA CloseSocketKeepsSockets ==
  ASSUME SocketsInv, NEW c \in Peers, CloseSocket(c)
  PROVE  SocketsInv'
<1> USE DEF SocketsInv
<1>1. /\ worker[c] = "close" /\ worker[c] \in Serving
      /\ UNCHANGED <<kind, maxfds, lpc, cur, status, tasks, pool, backlog, inbox, client, asked>>
  BY DEF CloseSocket, server, listener, net, Serving
<1>2. CASE kind \in Forking
  <2>1. held[ProcessOf(c)] \subseteq {c}
    BY <1>1, <1>2, Process DEF Children
  <2>2. held' = [held EXCEPT ![ProcessOf(c)] = {}]
    BY <2>1 DEF CloseSocket
  <2> QED BY <1>1, <1>2, <2>2, AloneKeepsSockets DEF CloseSocket
<1>3. CASE kind \notin Forking
  <2>1. /\ worker' \in [Peers -> Places]
        /\ worker'[c] = "done"
        /\ \A d \in Peers : d # c => worker'[d] = worker[d]
    BY DEF CloseSocket, WorkerAt, TypeOK, Places
  <2>2. first' = first
    BY <1>3 DEF CloseSocket, Kinded, TypeOK
  <2>3. ProcessOf(c) = Main /\ Main \in Procs
    BY <1>3, Process, Roles
  <2>4. /\ held' \in [Procs -> SUBSET (Peers \cup {Listener})]
        /\ held'[Main] = held[Main] \ {c}
        /\ \A d \in Peers : held'[Child(d)] = held[Child(d)]
                            /\ held'[Grandchild(d)] = held[Grandchild(d)]
    BY <2>3, Roles DEF CloseSocket, TypeOK
  <2>5. TypeOK'
    BY <1>1, <2>1, <2>2, <2>4 DEF TypeOK
  <2>6. Own' = Own \ {c}
    BY <1>1, <1>3, <2>1 DEF Own, Serving
  <2>7. lpc = "spawn" => cur # c
    BY <1>1 DEF Once, Unserved
  <2>8. lpc # "close"
    BY <1>3 DEF Kinded
  <2>9. Table'
    BY <1>1, <2>4, <2>6, <2>7, <2>8, ServersAssumption DEF Table
  <2>10. Kinded'
    BY <1>1, <2>1, <2>2 DEF Kinded, Serving
  <2>11. Once'
    <3>1. \A d \in Peers : Unserved(d) => Unserved(d)'
      BY <1>1, <2>1, <2>2 DEF Unserved
    <3>2. \A k \in DOMAIN backlog : backlog[k] \in Peers
      BY DEF Once
    <3>3. lpc = "spawn" => cur \in Peers
      BY DEF Table
    <3>4. lpc # "exited" => \A k \in DOMAIN tasks : worker'[tasks[k]] = "queued"
      BY <1>1, <2>1 DEF Once
    <3> QED BY <1>1, <3>1, <3>2, <3>3, <3>4 DEF Once
  <2>12. \A d \in Peers : worker'[d] \in Serving => d \in held'[Main]
    BY <1>3, <2>1, <2>4, Process DEF Children, Serving
  <2>13. Children'
    BY <1>1, <1>3, <2>2, <2>4, <2>12, ChildrenKept
  <2>14. Asked'
    BY <1>1 DEF Asked
  <2> QED BY <2>5, <2>9, <2>10, <2>11, <2>13, <2>14
<1> QED BY <1>2, <1>3

(* hello's answer, after which it accepts again and has lost the socket.      *)
LEMMA HelloLosesKeepsSockets ==
  ASSUME SocketsInv, NEW c \in Peers, kind = "hello", worker[c] \in Serving,
         WorkerAt(c, "lost"), lpc' = "accept", cur' = NoOne,
         UNCHANGED <<kind, maxfds, status, held, first, tasks, pool, backlog, inbox, asked>>,
         client' \in [Peers -> {"off", "open", "waiting", "left", "reset", "gone", "ended", "refused"}],
         \A d \in Peers : client'[d] = "off" <=> client[d] = "off"
  PROVE  SocketsInv'
<1> USE DEF SocketsInv
<1>1. kind \notin Forking /\ lpc = "serve" /\ cur = c
  BY DEF Kinded, Forking
<1>2. /\ worker' \in [Peers -> Places]
      /\ worker'[c] = "lost"
      /\ \A d \in Peers : d # c => worker'[d] = worker[d]
  BY DEF WorkerAt, TypeOK, Places
<1>3. TypeOK'
  BY <1>2 DEF TypeOK
<1>4. Own' = Own
  BY <1>1, <1>2 DEF Own
<1>5. Table'
  BY <1>1, <1>4 DEF Table
<1>6. \A d \in Peers : worker'[d] \notin Serving
  BY <1>1, <1>2 DEF Kinded, Serving
<1>7. Kinded'
  BY <1>1, <1>6 DEF Kinded
<1>8. Once'
  <2>1. \A d \in Peers : worker[d] = "none" /\ cur # d => worker'[d] = "none"
    BY <1>1, <1>2
  <2>2. \A k \in DOMAIN tasks : worker'[tasks[k]] = "queued"
    BY <1>1, <1>2 DEF Once, Kinded, Serving
  <2> QED BY <1>1, <2>1, <2>2, OnceKept
<1>9. Children'
  BY <1>1, <1>6, ChildrenKept
<1>10. Asked'
  BY DEF Asked
<1> QED BY <1>3, <1>5, <1>7, <1>8, <1>9, <1>10

\* A read, and where the service goes with what it got.
LEMMA ReadKeepsSockets ==
  ASSUME SocketsInv, NEW c \in Peers, worker[c] = "read", NEW place, Goes(c, place),
         place \in Serving \/ (kind \notin Forking /\ place = "lost"),
         Got(c) \/ UNCHANGED inbox,
         UNCHANGED <<server, first, tasks, pool, backlog, client, asked>>
  PROVE  SocketsInv'
<1> USE DEF SocketsInv
<1>1. inbox' \in [Peers -> 0..MaxAsks] /\ \A d \in Peers : inbox'[d] <= asked[d]
  BY ServersAssumption DEF Got, TypeOK, Asked
<1>2. Quiet(c)
  BY <1>1 DEF Quiet, Goes, TypeOK, listener, Serving
<1> QED BY <1>2, QuietKeepsSockets

LEMMA ServiceKeepsSockets ==
  ASSUME SocketsInv, NEW c \in Peers, Service(c)
  PROVE  SocketsInv'
<1> USE DEF SocketsInv
<1>1. CASE NetCalService(c) \/ HttpService(c) \/ EchoService(c)
  <2>1. \E place \in Serving : Goes(c, place)
    BY <1>1 DEF NetCalService, HttpService, EchoService, Serving
  <2>2. /\ worker[c] = "read"
        /\ Got(c) \/ UNCHANGED inbox
        /\ UNCHANGED <<server, first, tasks, pool, backlog, client, asked>>
    BY <1>1 DEF NetCalService, HttpService, EchoService, Reading, AtEnd, Failed
  <2> QED BY <2>1, <2>2, ReadKeepsSockets
<1>2. CASE StubRoutine(c) \/ SessionService(c)
  <2>1. kind \notin Forking
    BY <1>2 DEF StubRoutine, SessionService, Reading, Forking
  <2>2. Goes(c, "write") \/ Goes(c, "lost")
    BY <1>2 DEF StubRoutine, SessionService
  <2>3. /\ worker[c] = "read"
        /\ Got(c) \/ UNCHANGED inbox
        /\ UNCHANGED <<server, first, tasks, pool, backlog, client, asked>>
    BY <1>2 DEF StubRoutine, SessionService, Reading, AtEnd, Failed
  <2>4. "write" \in Serving
    BY DEF Serving
  <2> QED BY <2>1, <2>2, <2>3, <2>4, ReadKeepsSockets
<1>3. CASE RewriteService(c) \/ HelloService(c)
  <2>1. /\ worker[c] = "read"
        /\ UNCHANGED <<server, first, tasks, pool, backlog, client, asked>>
    BY <1>3 DEF RewriteService, HelloService, Reading
  <2>2. CASE Failed(c)
    <3>1. ExitMain(4) \/ ExitMain(1)
      BY <1>3, <2>2 DEF RewriteService, HelloService, Failed, Got, AtEnd
    <3>2. UNCHANGED inbox
      BY <2>2 DEF Failed
    <3> QED BY <2>1, <3>1, <3>2, ExitKeepsSockets
  <2>3. CASE ~ Failed(c)
    <3>1. (Goes(c, "write") \/ Goes(c, "close")) /\ (Got(c) \/ UNCHANGED inbox)
      BY <1>3, <2>3 DEF RewriteService, HelloService, AtEnd
    <3>2. "write" \in Serving /\ "close" \in Serving
      BY DEF Serving
    <3> QED BY <2>1, <3>1, <3>2, ReadKeepsSockets
  <2> QED BY <2>2, <2>3
<1>4. CASE Excute(c)
  <2>1. Main \in Procs /\ held[Main] \in SUBSET (Peers \cup {Listener})
    BY Roles DEF TypeOK
  <2>2. /\ held' \in [Procs -> SUBSET (Peers \cup {Listener})]
        /\ \A p \in Procs : p # Command(c) => held'[p] = held[p]
    BY <1>4, <2>1 DEF Excute, Goes, TypeOK
  <2>3. Quiet(c)
    BY <1>4, <2>2 DEF Quiet, Excute, Goes, TypeOK, Asked, net, listener, Serving
  <2> QED BY <2>3, QuietKeepsSockets
<1>5. CASE CloseSocket(c)
  BY <1>5, CloseSocketKeepsSockets
<1>6. CASE Write(c)
  <2>1. /\ worker[c] = "write" /\ worker[c] \in Serving
        /\ UNCHANGED <<server, tasks, pool, backlog, asked, inbox>>
    BY <1>6 DEF Write, Serving
  <2>2. CASE client[c] = "gone"
    <3>1. Killed(c) /\ UNCHANGED client
      BY <1>6, <2>2 DEF Write
    <3>2. CASE ProcessOf(c) = Main
      BY <2>1, <3>1, <3>2, ExitKeepsSockets DEF Killed
    <3>3. CASE ProcessOf(c) # Main
      <4>1. kind \in Forking
        BY <3>3, Process
      <4> QED BY <2>1, <3>1, <3>3, <4>1, AloneKeepsSockets DEF Killed, server, listener
    <3> QED BY <3>2, <3>3
  <2>3. CASE client[c] # "gone"
    <3>1. /\ AfterWrite(c) /\ UNCHANGED first
          /\ client' \in [Peers -> {"off", "open", "waiting", "left", "reset", "gone", "ended", "refused"}]
          /\ \A d \in Peers : client'[d] = "off" <=> client[d] = "off"
      BY <1>6, <2>3 DEF Write, TypeOK
    <3>2. CASE kind = "hello"
      BY <2>1, <3>1, <3>2, HelloLosesKeepsSockets DEF AfterWrite, server
    <3>3. CASE kind # "hello"
      <4>1. \E place \in Serving : Goes(c, place)
        BY <3>1, <3>3 DEF AfterWrite, Serving
      <4>2. Quiet(c)
        BY <2>1, <3>1, <4>1 DEF Quiet, Goes, TypeOK, Asked, listener
      <4> QED BY <4>2, QuietKeepsSockets
    <3> QED BY <3>2, <3>3
  <2> QED BY <2>2, <2>3
<1> QED BY <1>1, <1>2, <1>3, <1>4, <1>5, <1>6 DEF Service

LEMMA CommandEndsKeepsSockets ==
  ASSUME SocketsInv, NEW c \in Peers, CommandEnds(c)
  PROVE  SocketsInv'
<1> USE DEF SocketsInv
<1>1. /\ held' \in [Procs -> SUBSET (Peers \cup {Listener})]
      /\ \A p \in Procs : p # Command(c) => held'[p] = held[p]
  BY DEF CommandEnds, TypeOK
<1>2. /\ \/ worker' = worker
         \/ worker[c] \in Serving /\ \E place \in Serving : WorkerAt(c, place)
  BY DEF CommandEnds, WorkerAt, Serving
<1>3. Quiet(c)
  BY <1>1, <1>2 DEF Quiet, CommandEnds, TypeOK, Asked, net, listener
<1> QED BY <1>3, QuietKeepsSockets

LEMMA ClientKeepsSockets ==
  ASSUME SocketsInv, NEW c \in Peers, EchoClient(c) \/ RewriteClient(c)
  PROVE  SocketsInv'
<1> USE DEF SocketsInv
<1>1. CASE Connect(c)
  BY <1>1, ConnectKeepsSockets
<1>2. CASE Ask(c) \/ Answered(c) \/ SeesEnd(c) \/ Leave(c)
  <2>1. UNCHANGED <<server, listener, held, works, backlog>>
    BY <1>2 DEF Ask, Answered, SeesEnd, Leave
  <2>2. /\ client' \in [Peers -> {"off", "open", "waiting", "left", "reset", "gone", "ended", "refused"}]
        /\ \A d \in Peers : client'[d] = "off" <=> client[d] = "off"
    BY <1>2 DEF Ask, Answered, SeesEnd, Leave, TypeOK
  <2>3. CASE Ask(c)
    <3>1. asked[c] \in 0..MaxAsks /\ asked[c] < MaxAsks /\ inbox[c] \in 0..MaxAsks
          /\ inbox[c] <= asked[c]
      BY <2>3 DEF Ask, TypeOK, Asked
    <3>2. asked[c] + 1 \in 0..MaxAsks /\ inbox[c] + 1 \in 0..MaxAsks
      BY <3>1, ServersAssumption
    <3>3. asked' \in [Peers -> 0..MaxAsks] /\ inbox' \in [Peers -> 0..MaxAsks]
      BY <2>3, <3>2 DEF Ask, TypeOK
    <3>4. \A d \in Peers : inbox'[d] <= asked'[d]
      BY <2>3, <3>1, ServersAssumption DEF Ask, TypeOK, Asked
    <3>5. Quiet(c)
      BY <2>1, <2>2, <3>3, <3>4 DEF Quiet, TypeOK, listener, works
    <3> QED BY <3>5, QuietKeepsSockets
  <2>4. CASE ~ Ask(c)
    <3>1. UNCHANGED <<asked, inbox>>
      BY <1>2, <2>4 DEF Answered, SeesEnd, Leave
    <3>2. Quiet(c)
      BY <2>1, <2>2, <3>1 DEF Quiet, TypeOK, Asked, listener, works
    <3> QED BY <3>2, QuietKeepsSockets
  <2> QED BY <2>3, <2>4
<1> QED BY <1>1, <1>2 DEF EchoClient, RewriteClient

LEMMA ListeningKeepsSockets ==
  ASSUME SocketsInv, Listening
  PROVE  SocketsInv'
<1>1. CASE \E codes \in SUBSET (0..6) : BringUp(codes)
  BY <1>1, BringUpKeepsSockets
<1>2. CASE \E c \in Peers : Accept(c)
  BY <1>2, AcceptKeepsSockets
<1>3. CASE Fork
  BY <1>3, ForkKeepsSockets
<1>4. CASE FatherCloseSock \/ FatherWait
  BY <1>4, FatherKeepsSockets
<1>5. CASE EchoRun \/ RewriteStart \/ StubMain
  <2>1. kind \notin Forking \cup {"hello"} /\ CreateThread
    BY <1>5 DEF EchoRun, RewriteStart, StubMain, Forking
  <2> QED BY <2>1, CreateThreadKeepsSockets
<1>6. CASE SessionStart
  BY <1>6, SessionStartKeepsSockets
<1>7. CASE HelloServes
  BY <1>7, HelloServesKeepsSockets
<1>8. {1} \in SUBSET (0..6) /\ {1, 2, 3} \in SUBSET (0..6) /\ {2, 3, 4} \in SUBSET (0..6)
  OBVIOUS
<1>9. BuildListenSocketMethod \/ EchoInit \/ RewriteInit \/ StubInit \/ SessionInit \/ HelloInit
         => \E codes \in SUBSET (0..6) : BringUp(codes)
  BY <1>8 DEF BuildListenSocketMethod, EchoInit, RewriteInit, StubInit, SessionInit, HelloInit
<1> QED BY <1>1, <1>2, <1>3, <1>4, <1>5, <1>6, <1>7, <1>9 DEF Listening, ForkServer

LEMMA StepKeepsSockets == SocketsInv /\ [Next]_vars => SocketsInv'
<1> SUFFICES ASSUME SocketsInv, [Next]_vars PROVE SocketsInv'
  OBVIOUS
<1>1. CASE Listening
  BY <1>1, ListeningKeepsSockets
<1>2. ASSUME NEW c \in Peers, AcceptDrops(c) PROVE SocketsInv'
  BY <1>2, AcceptDropsKeepsSockets
<1>3. ASSUME NEW c \in Peers, Processes(c) PROVE SocketsInv'
  BY <1>3, ChildKeepsSockets, CommandEndsKeepsSockets DEF Processes
<1>4. ASSUME NEW c \in Peers, TakeTask(c) PROVE SocketsInv'
  BY <1>4, TakeTaskKeepsSockets
<1>5. ASSUME NEW c \in Peers, Service(c) PROVE SocketsInv'
  BY <1>5, ServiceKeepsSockets
<1>6. ASSUME NEW c \in Peers, EchoClient(c) \/ RewriteClient(c) PROVE SocketsInv'
  BY <1>6, ClientKeepsSockets
<1>7. CASE UNCHANGED vars
  <2> USE <1>7 DEF vars, server, listener, works, net
  <2>1. TypeOK' /\ Table' /\ Kinded' /\ Asked'
    BY DEF SocketsInv, TypeOK, Table, Own, Kinded, Asked
  <2>2. Once'
    BY DEF SocketsInv, Once, Unserved
  <2>3. Children'
    BY DEF SocketsInv, Children, ProcessOf
  <2> QED BY <2>1, <2>2, <2>3 DEF SocketsInv
<1> QED BY <1>1, <1>2, <1>3, <1>4, <1>5, <1>6, <1>7 DEF Next

THEOREM SocketsInvariant == Spec => []SocketsInv
<1> QED BY InitSockets, StepKeepsSockets, PTL DEF Spec

-------------------------------------------------------------------------------
(* Sockets have the owners they should, for any number of clients: the        *)
(* father's and the children's closes, the exits, the signals and the lost    *)
(* threads leave each socket with who serves it and with nobody else.         *)
THEOREM SocketsOwnedCorrect == Spec => []SocketsOwned
<1>1. SocketsInv => SocketsOwned
  <2> SUFFICES ASSUME SocketsInv PROVE SocketsOwned
    OBVIOUS
  <2> USE DEF SocketsInv
  <2>1. lpc = "accept" =>
          held[Main] = {Listener} \cup
              IF kind \in Forking THEN {}
              ELSE {c \in Peers : worker[c] \in Serving \cup {"queued", "lost"}}
    BY DEF Table, Own
  <2>2. \A c \in Peers :
          /\ worker[c] \in Serving => c \in held[ProcessOf(c)]
          /\ held[Grandchild(c)] \subseteq {c}
          /\ first[c] # "listen" => held[Child(c)] \subseteq {c}
          /\ first[c] = "ended" => held[Child(c)] = {}
    BY DEF Children
  <2> QED BY <2>1, <2>2 DEF SocketsOwned
<1> QED BY <1>1, SocketsInvariant, PTL

(* The accepting process never lets go of its listening socket while it runs, *)
(* and has at most one socket beside those of its services: the one it was    *)
(* just given.                                                                *)
THEOREM TableCorrect == Spec => []Table
<1>1. SocketsInv => Table
  BY DEF SocketsInv
<1> QED BY <1>1, SocketsInvariant, PTL
=============================================================================
