------------------------------- MODULE Services -------------------------------
(***************************************************************************)
(* The programs of MCPrograms that answer who asks them or keep what is       *)
(* written to them: the servers of pages, sessions, calculations, datagrams   *)
(* and the chat, the shells, the buffered files and the loggers.  They share  *)
(* the variables r1, r2, ..., each program in the order in which its module   *)
(* declares its own, and are proved about without the other programs in       *)
(* ServicesProofs.                                                            *)
(***************************************************************************)
EXTENDS Integers, Sequences, FiniteSets

CONSTANTS
    Nothing,                                                \* no task
    Pages, Home, Page404, Routes, Largest, MaxChanges,      \* Http
    Browsers, Ids, MaxRequests, MaxRestarts,                \* HttpSession
    Width, Base, RecvSize,                                  \* Calculator
    UdpClients, Words, MaxAsks, MaxDups,                    \* UdpServers
    ChatPeers, ChatWorkers,                                 \* ChatServer
    MaxArgv, MaxOrders,                                     \* Shell
    BufferSize, MaxWrites,                                  \* MyStdio
    Loggers, FirstOne, Levels, MaxLines                     \* Logger

ASSUME HttpAssumption == Largest \in Nat \ {0}
ASSUME SessionAssumption == MaxRequests \in Nat /\ MaxRestarts \in Nat /\ "none" \notin Ids
\* What is used of the powers is said, since tlapm knows no arithmetic of ^; the
\* numbers of Batches are an int.
ASSUME CalculatorAssumption ==
    /\ 2 ^ (Width - 1) \in Nat /\ 4 <= 2 ^ (Width - 1) /\ 2 ^ Width = 2 * 2 ^ (Width - 1)
    /\ Base \in Nat \ {0, 1} /\ RecvSize \in Nat
    /\ Base ^ 0 = 1 /\ \A k \in 0..2 : Base ^ (k + 1) = Base * Base ^ k
ASSUME UdpAssumption == MaxAsks \in Nat /\ MaxDups \in Nat /\ "server" \notin UdpClients
ASSUME ChatAssumption == Nothing \notin [peer : ChatPeers, text : {"inline", "text", "QUIT"}]
ASSUME StdioAssumption == BufferSize \in Nat /\ MaxWrites \in Nat
ASSUME LoggersAssumption ==
    FirstOne \in Loggers /\ "nobody" \notin Loggers /\ MaxLines \in Nat

VARIABLES r1, r2, r3, r4, r5, r6, r7, r8, r9,
          r10, r11, r12, r13, r14, r15, r16, r17

-----------------------------------------------------------------------------
(* What the users, the files and the clock of the run have. *)

\* Http: the files' names end in a suffix that matters, or do not.
Endings == [f \in Pages \cup {Home, Page404} |-> IF f \in Pages THEN "png" ELSE "html"]

\* Calculator: one request of every kind at the limits of an int, and two that
\* wait in the stream together.
Req(x, oper, y) == [x |-> x, y |-> y, oper |-> oper]
Batches ==
    {<<Req(x, oper, y)>> : x \in {-4, -3, 3}, oper \in {"+", "-", "*", "/", "%", "?"},
                           y \in {-4, -1, 0, 2}}
    \cup {<<Req(-4, "+", 1), Req(3, "*", -1)>>, <<Req(-4, "/", -1), Req(1, "+", 1)>>,
          <<Req(1, "-", 2), Req(-4, "%", -1)>>}

\* dictionary.txt has lines without a word, without a meaning, without a separator, and
\* a word twice.
DictFile == <<<<"nothing", "m">>, <<"w1", "nothing">>, <<"x">>, <<"w1", "m1">>, <<"w1", "m2">>>>

\* Shell: built-in commands and others, alone, with too many words, with every
\* redirection, with a blank at the end and without a newline.
Order(argv, mode, blank, newline) ==
    [argv |-> argv, mode |-> mode, file |-> "f", blank |-> blank, newline |-> newline]
Orders ==
    {Order(<<"prog">>, mode, FALSE, TRUE) : mode \in {"none", "in", "out", "app"}}
    \cup {Order(argv, "none", FALSE, TRUE) :
              argv \in {<<>>, <<"cd">>, <<"cd", "tmp">>, <<"echo">>, <<"echo", "$?">>,
                        <<"nope">>, <<"prog", "x", "x">>}}
    \cup {Order(<<"echo", "$?">>, "out", FALSE, TRUE), Order(<<"nope">>, "out", FALSE, TRUE),
          Order(<<"prog">>, "out", TRUE, TRUE), Order(<<"prog">>, "out", FALSE, FALSE)}

\* MyStdio: lines that end in the text, before it or not at all.
Chars == {<<"x">>, <<"\n">>, <<"y", "\n">>, <<"\n", "z">>}

\* The minute changes between two lines of a log.
Clock == <<<<0, 59>>, <<1, 0>>>>

-----------------------------------------------------------------------------
(* The programs. *)

Page == INSTANCE Http WITH
    files <- r1, req <- r2, hpc <- r3, target <- r4, size <- r5, resp <- r6,
    changes <- r7
Session == INSTANCE HttpSession WITH
    number <- r1, sessions <- r2, hpc <- r3, url <- r4, sid <- r5,
    user <- r6, newid <- r7, cookie <- r8, passwd <- r9, answered <- r10,
    issued <- r11, cut <- r12, raced <- r13, collided <- r14,
    requests <- r15, restarts <- r16, broken <- r17
Calc == INSTANCE Calculator WITH
    kind <- r1, batch <- r2, asked <- r3, spc <- r4, inbuffer <- r5,
    response_str <- r6, cpc <- r7, resp_buffer <- r8, toServer <- r9,
    toClient <- r10, shown <- r11
Udp == INSTANCE UdpServers WITH
    Clients <- UdpClients, DictFiles <- {DictFile}, kind <- r1, lines <- r2,
    dict <- r3, server <- r4, request <- r5, net <- r6, dups <- r7,
    cpc <- r8, asked <- r9, shown <- r10
Route == INSTANCE ChatServer WITH
    Peers <- ChatPeers, Workers <- ChatWorkers, MaxTexts <- 0, None <- Nothing,
    texts <- r1, network <- r2, tasks <- r3, wpc <- r4, task <- r5,
    inside <- r6, online <- r7, crashed <- r8, overlapped <- r9,
    raced <- r10, erased <- r11
Myshell == INSTANCE Shell WITH
    Redirections <- TRUE, Dirs <- {"home", "tmp"}, HomeDir <- "home",
    FileNames <- {"f"}, Programs <- {"prog"}, Inherited <- {1, 99},
    MaxEnvs <- 100, spc <- r1, line <- r2, argv <- r3, redir <- r4,
    filename <- r5, lastcode <- r6, cwd <- r7, dirs <- r8, pwd <- r9,
    files <- r10, status <- r11, order <- r12, typed <- r13, eof <- r14
PlainShell == INSTANCE Shell WITH
    Redirections <- FALSE, Dirs <- {"home"}, HomeDir <- "home",
    FileNames <- {"f"}, Programs <- {"prog"}, Inherited <- {1},
    MaxEnvs <- 100, spc <- r1, line <- r2, argv <- r3, redir <- r4,
    filename <- r5, lastcode <- r6, cwd <- r7, dirs <- r8, pwd <- r9,
    files <- r10, status <- r11, order <- r12, typed <- r13, eof <- r14
Stdio == INSTANCE MyStdio WITH
    Texts <- Chars, OldContent <- <<"o">>, upc <- r1, mode <- r2,
    fileno <- r3, outbuffer <- r4, disk <- r5, written <- r6, writes <- r7,
    short <- r8
Logs == INSTANCE Logger WITH
    Times <- Clock, style <- r1, forked <- r2, dir <- r3, now <- r4,
    tm <- r5, lpc <- r6, level <- r7, stamp <- r8, lines <- r9, lost <- r10,
    holder <- r11, buffer <- r12, sinks <- r13, overlap <- r14
=============================================================================
