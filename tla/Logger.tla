---------------------------------- MODULE Logger ----------------------------------
(***************************************************************************)
(* The two loggers of the servers.  LogModule (Log.hpp, eleven copies, those  *)
(* of the thread pool are meant) has a strategy, console or file, chosen      *)
(* before threads start, and a mutex in each strategy; the older Log of       *)
(* test_05_03 has three styles and no mutex.  Those who log are threads, or   *)
(* processes after fork, each with a logger, a stream and a mutex of its own. *)
(* Lines are shorter than a stream's buffer.                                  *)
(***************************************************************************)
EXTENDS Naturals, Sequences

CONSTANTS
    Loggers,    \* threads or processes that log
    FirstOne,   \* one of them
    Levels,
    Times,      \* what the clock shows, one time after the other: <<minute, second>>
    MaxLines    \* lines each logs (a bound of the model)

VARIABLES
    style,      \* console, file; screen, onefile, classfile
    forked,     \* processes, not threads
    dir,        \* the directory of the files exists
    now,        \* index into Times
    tm,         \* the one struct tm of localtime, in each process
    lpc, level, stamp,  \* of each logger: the next step, its line's level and time
    lines,      \* history: lines begun
    lost,       \* history: those whose file could not be opened
    holder,     \* of each process' mutex
    buffer,     \* what cout of a process, or the ofstream of a line, holds
    sinks,      \* what has been written, by file
    overlap     \* history: two threads were in localtime at once

vars == <<style, forked, dir, now, tm, lpc, level, stamp, lines, lost, holder, buffer,
          sinks, overlap>>

NewStyle == style \in {"console", "file"}
Sep == <<"gsep">>
Nobody == "nobody"
Sinks == {"console", "my.log", "all"} \cup Levels

\* Threads share what processes have of their own.
Process(t) == IF forked THEN t ELSE FirstOne

\* LogStrategy, WriteLog: where a line goes.
SinkOf(t) ==
    CASE style \in {"console", "screen"} -> "console"
      [] style = "file" -> "my.log"
      [] style = "onefile" -> "all"
      [] style = "classfile" -> level[t]

LineOf(t) == <<t, lines[t], stamp[t]>>

\* FileLogStrategy and Log make the directory and go on without it.
Init ==
    /\ style \in {"console", "file", "screen", "onefile", "classfile"}
    /\ forked \in BOOLEAN
    /\ dir \in BOOLEAN
    /\ now = 1
    /\ tm = [p \in Loggers |-> Times[1]]
    /\ lpc = [t \in Loggers |-> "idle"]
    /\ level \in [Loggers -> Levels]
    /\ stamp = [t \in Loggers |-> Times[1]]
    /\ lines = [t \in Loggers |-> 0] /\ lost = [t \in Loggers |-> {}]
    /\ holder = [p \in Loggers |-> Nobody]
    /\ buffer = [p \in Loggers |-> <<>>]
    /\ sinks = [s \in Sinks |-> <<>>]
    /\ overlap = FALSE

Go(t, pc) == lpc' = [lpc EXCEPT ![t] = pc]

-----------------------------------------------------------------------------
(* The time. *)

\* GetTimeStamp uses localtime_r; the line gets its texts next.
LogMessage(t) ==
    /\ NewStyle /\ lpc[t] = "idle" /\ lines[t] < MaxLines
    /\ lines' = [lines EXCEPT ![t] = @ + 1]
    /\ stamp' = [stamp EXCEPT ![t] = Times[now]]
    /\ Go(t, "lock")
    /\ UNCHANGED <<style, forked, dir, now, tm, level, lost, holder, buffer, sinks, overlap>>

InLocaltime(t) == lpc[t] \in {"localtime", "format"}

\* TimeStampExLocalTime: localtime fills one struct for all threads, field by field.
BeginLogMessage(t) ==
    /\ ~NewStyle /\ lpc[t] = "idle" /\ lines[t] < MaxLines
    /\ lines' = [lines EXCEPT ![t] = @ + 1]
    /\ tm' = [tm EXCEPT ![Process(t)][1] = Times[now][1]]
    /\ stamp' = [stamp EXCEPT ![t] = Times[now]]
    /\ overlap' = (overlap \/ \E u \in Loggers \ {t} :
                      InLocaltime(u) /\ Process(u) = Process(t))
    /\ Go(t, "localtime")
    /\ UNCHANGED <<style, forked, dir, now, level, lost, holder, buffer, sinks>>

Localtime(t) ==
    /\ lpc[t] = "localtime"
    /\ tm' = [tm EXCEPT ![Process(t)][2] = stamp[t][2]]
    /\ Go(t, "format")
    /\ UNCHANGED <<style, forked, dir, now, level, stamp, lines, lost, holder, buffer,
                   sinks, overlap>>

Format(t) ==
    /\ lpc[t] = "format"
    /\ stamp' = [stamp EXCEPT ![t] = tm[Process(t)]]
    /\ Go(t, "write")
    /\ UNCHANGED <<style, forked, dir, now, tm, level, lines, lost, holder, buffer, sinks,
                   overlap>>

-----------------------------------------------------------------------------
(* SyncLog. *)

\* The guard left out.
CanLockMutant(t) == TRUE

CanLock(t) == holder[Process(t)] = Nobody

SyncLog(t) ==
    /\ lpc[t] = "lock" /\ CanLock(t)
    /\ holder' = [holder EXCEPT ![Process(t)] = t]
    /\ Go(t, IF style = "file" THEN "open" ELSE "insert")
    /\ UNCHANGED <<style, forked, dir, now, tm, level, stamp, lines, lost, buffer, sinks,
                   overlap>>

\* ofstream's open, which needs the directory.
Open(t, works) ==
    /\ lpc[t] = "open"
    /\ works => dir
    /\ IF works
       THEN Go(t, "insert") /\ UNCHANGED <<lost, holder>>
       ELSE /\ Go(t, "idle")
            /\ lost' = [lost EXCEPT ![t] = @ \cup {lines[t]}]
            /\ holder' = [holder EXCEPT ![Process(t)] = Nobody]
    /\ UNCHANGED <<style, forked, dir, now, tm, level, stamp, lines, buffer, sinks, overlap>>

\* cout belongs to the process, an ofstream to the line.
Stream(t) == IF style = "file" THEN t ELSE Process(t)

Insert(t) ==
    /\ lpc[t] = "insert"
    /\ buffer' = [buffer EXCEPT ![Stream(t)] = Append(@, LineOf(t))]
    /\ Go(t, "sep")
    /\ UNCHANGED <<style, forked, dir, now, tm, level, stamp, lines, lost, holder, sinks,
                   overlap>>

\* The separator ends the line, and the guard's scope.
EndLine(t) ==
    /\ lpc[t] = "sep"
    /\ sinks' = [sinks EXCEPT ![SinkOf(t)] = @ \o Append(buffer[Stream(t)], Sep)]
    /\ buffer' = [buffer EXCEPT ![Stream(t)] = <<>>]
    /\ holder' = [holder EXCEPT ![Process(t)] = Nobody]
    /\ Go(t, "idle")
    /\ UNCHANGED <<style, forked, dir, now, tm, level, stamp, lines, lost, overlap>>

\* Log::WriteLog: one insertion, or WriteLogToOneFile's open with O_APPEND and write.
WriteLog(t, works) ==
    /\ lpc[t] = "write"
    /\ works => dir \/ style = "screen"
    /\ ~works => style # "screen"
    /\ IF works
       THEN sinks' = [sinks EXCEPT ![SinkOf(t)] = @ \o <<LineOf(t), Sep>>] /\ UNCHANGED lost
       ELSE lost' = [lost EXCEPT ![t] = @ \cup {lines[t]}] /\ UNCHANGED sinks
    /\ Go(t, "idle")
    /\ UNCHANGED <<style, forked, dir, now, tm, level, stamp, lines, holder, buffer, overlap>>

Tick ==
    /\ now < Len(Times)
    /\ now' = now + 1
    /\ UNCHANGED <<style, forked, dir, tm, lpc, level, stamp, lines, lost, holder, buffer,
                   sinks, overlap>>

Next ==
    \/ Tick
    \/ \E t \in Loggers :
          \/ LogMessage(t) \/ BeginLogMessage(t) \/ Localtime(t) \/ Format(t)
          \/ SyncLog(t) \/ Insert(t) \/ EndLine(t)
          \/ \E works \in BOOLEAN : Open(t, works) \/ WriteLog(t, works)

-----------------------------------------------------------------------------
(* Properties. *)

TypeOK ==
    /\ lpc \in [Loggers -> {"idle", "lock", "localtime", "format", "open", "insert", "sep",
                            "write"}]
    /\ holder \in [Loggers -> Loggers \cup {Nobody}]
    /\ lines \in [Loggers -> 0..MaxLines]

IsLine(x) == Len(x) = 3

\* The places in its file where a logger's lines are.
Places(t) ==
    {i \in DOMAIN sinks[SinkOf(t)] :
        IsLine(sinks[SinkOf(t)][i]) /\ sinks[SinkOf(t)][i][1] = t}

(* However threads and processes log, every line in a file is followed by its   *)
(* separator and not by another line, those of one logger are in its order and *)
(* each there once, and when it is idle all are there but those whose file     *)
(* could not be opened (SyncLog, WriteLogToOneFile).  The time of a line is    *)
(* one the clock has shown, for the older logger as long as no two threads     *)
(* are in localtime at once.                                                  *)
LinesWhole ==
    /\ \A s \in Sinks :
          /\ \A i \in DOMAIN sinks[s] : IsLine(sinks[s][i]) <=> i % 2 = 1
          /\ \A i \in DOMAIN sinks[s] :
                IsLine(sinks[s][i]) /\ ~overlap =>
                    \E n \in 1..now : sinks[s][i][3] = Times[n]
    /\ \A t \in Loggers :
          /\ \A i, j \in Places(t) :
                i < j => sinks[SinkOf(t)][i][2] < sinks[SinkOf(t)][j][2]
          /\ lpc[t] = "idle" =>
                {sinks[SinkOf(t)][i][2] : i \in Places(t)} = (1..lines[t]) \ lost[t]

\* What a file is made of.
Time == Nat \X Nat
Entry == (Loggers \X (1..MaxLines) \X Time) \cup {Sep}

LogTypes ==
    /\ style \in {"console", "file", "screen", "onefile", "classfile"}
    /\ now \in 1..Len(Times)
    /\ level \in [Loggers -> Levels]
    /\ tm \in [Loggers -> Time] /\ stamp \in [Loggers -> Time]
    /\ lost \in [Loggers -> SUBSET Nat]
    /\ buffer \in [Loggers -> Seq(Entry)] /\ sinks \in [Sinks -> Seq(Entry)]

\* Whoever writes a line has the mutex of its process, and its line alone is in the stream.
LineGuarded ==
    /\ \A t \in Loggers : lpc[t] \in {"open", "insert", "sep"} => holder[Process(t)] = t
    /\ \A t \in Loggers : lpc[t] = "sep" => buffer[Stream(t)] = <<LineOf(t)>>
    /\ \A p \in Loggers :
          (\A t \in Loggers : lpc[t] = "sep" => Stream(t) # p) => buffer[p] = <<>>

\* A line follows a separator, a separator a line.
LinesPaired ==
    \A s \in Sinks :
        /\ Len(sinks[s]) % 2 = 0
        /\ \A i \in DOMAIN sinks[s] : IsLine(sinks[s][i]) <=> i % 2 = 1

\* Lines a logger is done with.
Done(t) == IF lpc[t] = "idle" THEN 1..lines[t] ELSE 1..(lines[t] - 1)

LinesInTurn ==
    \A t \in Loggers :
        /\ lpc[t] # "idle" => lines[t] > 0
        /\ lost[t] \subseteq Done(t)
        /\ \A i, j \in Places(t) : i < j => sinks[SinkOf(t)][i][2] < sinks[SinkOf(t)][j][2]
        /\ {sinks[SinkOf(t)][i][2] : i \in Places(t)} = Done(t) \ lost[t]

ClockHasShown(x) == \E n \in 1..now : x = Times[n]

\* Without an overlap a thread's time is in the struct until it has formatted it.
TimesShown ==
    /\ \A t \in Loggers : lpc[t] # "idle" => ClockHasShown(stamp[t])
    /\ \A t \in Loggers : lpc[t] = "localtime" => tm[Process(t)][1] = stamp[t][1]
    /\ \A t \in Loggers : lpc[t] = "format" => tm[Process(t)] = stamp[t]
    /\ \A t, u \in Loggers :
          t # u /\ InLocaltime(t) /\ InLocaltime(u) => Process(t) # Process(u)
    /\ \A s \in Sinks : \A i \in DOMAIN sinks[s] :
          IsLine(sinks[s][i]) => ClockHasShown(sinks[s][i][3])

\* What makes LinesWhole inductive.
LogInv ==
    /\ TypeOK /\ LogTypes /\ LineGuarded /\ LinesPaired /\ LinesInTurn
    /\ ~overlap => TimesShown
=============================================================================
