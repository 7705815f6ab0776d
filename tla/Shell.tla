----------------------------------- MODULE Shell -----------------------------------
(***************************************************************************)
(* The shell of test_02_22 (Redirections) and its first version, test_02_13.  *)
(* A line is a sequence of tokens: words, "<", ">" and, where it matters, a   *)
(* blank at the end.  One child runs at a time; the directory the shell is in *)
(* may be removed by others.  A file is what its writers put there.           *)
(***************************************************************************)
EXTENDS Naturals, Sequences

CONSTANTS
    Redirections,   \* FALSE in test_02_13
    Orders,         \* what the user may type: argv, mode, file, blank, newline
    Dirs, HomeDir,  \* directories; $HOME
    FileNames,
    Programs,       \* what execvp finds; they write their name
    Inherited,      \* numbers of environment strings the shell may start with
    MaxEnvs,        \* MAX_ENVS
    MaxArgv,        \* MAXARGV
    MaxOrders       \* lines typed (a bound of the model)

VARIABLES
    spc,        \* the next step of main
    line,       \* commandline
    argv,       \* g_argv, g_argc
    redir, filename,
    lastcode,
    cwd, dirs, pwd,     \* where the shell is, what exists, the variable PWD
    files,
    status,     \* the child: its exit status, "ran" if the program did its work
    order,      \* history: the order typed last, with the files before it
    typed,      \* history: orders read
    eof         \* the input has ended

vars == <<spc, line, argv, redir, filename, lastcode, cwd, dirs, pwd, files, status,
          order, typed, eof>>

Symbols == {"<", ">"}
Blank == " "
CutWord == "cut"    \* a word without its last letter
Garbage == "garbage"
Missing == <<"missing">>
NoOrder == [argv |-> <<>>, mode |-> "none", file |-> <<>>, proper |-> FALSE, before |-> <<>>]
NoStatus == [code |-> 0, ran |-> FALSE]

\* A name is all that follows the symbol: a blank at the end belongs to it.
Names == {<<f>> : f \in FileNames} \cup {<<f, Blank>> : f \in FileNames}

\* What follows the words of an order.
Behind(mode, f) ==
    CASE mode = "none" -> <<>>
      [] mode = "in" -> <<"<", f>>
      [] mode = "out" -> <<">", f>>
      [] mode = "app" -> <<">", ">", f>>

Typed(o) ==
    LET text == o.argv \o Behind(o.mode, o.file) \o (IF o.blank THEN <<Blank>> ELSE <<>>)
        shorter == SubSeq(text, 1, Len(text) - 1)
    IN  \* GetCommandLine cuts the last letter, newline or not.
        CASE o.newline \/ text = <<>> -> text
          [] ~o.newline /\ text # <<>> /\ text[Len(text)] \in Symbols \cup {Blank} -> shorter
          [] OTHER -> Append(shorter, CutWord)

Init ==
    /\ spc \in {IF n + 2 > MaxEnvs THEN "overrun" ELSE "prompt" : n \in Inherited}
    /\ line \in {<<>>, <<Garbage>>}
    /\ argv = <<>>
    /\ redir = "none" /\ filename = <<>>
    /\ lastcode = 0
    /\ cwd \in Dirs /\ dirs = Dirs /\ pwd = cwd
    /\ files \in [Names -> {Missing, <<>>}]
    /\ status = NoStatus
    /\ order = NoOrder
    /\ typed = 0
    /\ eof = FALSE

-----------------------------------------------------------------------------
(* Reading an order. *)

\* GetPwd: without a directory the variable stays as it is.
PrintCommandPrompt ==
    /\ spc = "prompt"
    /\ pwd' = IF cwd \in dirs THEN cwd ELSE pwd
    /\ spc' = "read"
    /\ UNCHANGED <<line, argv, redir, filename, lastcode, cwd, dirs, files, status,
                   order, typed, eof>>

\* Without redirections main goes on to the parsing.
Checked == IF Redirections THEN "redir" ELSE "parse"

GetCommandLine(o) ==
    /\ spc = "read" /\ ~eof /\ typed < MaxOrders
    /\ line' = Typed(o)
    /\ order' = [argv |-> o.argv, mode |-> o.mode, file |-> <<o.file>>, before |-> files,
                 proper |-> o.newline /\ ~o.blank /\ (Redirections \/ o.mode = "none")]
    /\ typed' = typed + 1
    /\ eof' = ~o.newline
    /\ status' = NoStatus
    /\ spc' = Checked
    /\ UNCHANGED <<argv, redir, filename, lastcode, cwd, dirs, pwd, files>>

\* The end of the input: fgets leaves the buffer alone, and 1 is true.
EndOfInput ==
    /\ spc = "read"
    /\ eof' = TRUE
    /\ order' = NoOrder
    /\ status' = NoStatus
    /\ spc' = Checked
    /\ UNCHANGED <<line, argv, redir, filename, lastcode, cwd, dirs, pwd, files, typed>>

\* The result for a line without a symbol, if RedirCheck did not reset first.
NoRedirMutant(cmd) == [redir |-> redir, filename |-> filename, rest |-> cmd]

NoRedir(cmd) == [redir |-> "none", filename |-> <<>>, rest |-> cmd]

\* The last symbol counts.  In front of a line that begins with it the code reads,
\* and may clear, a byte that is not the line's; whatever that is, no word is left
\* and CommandParse is the shell's end.
Redirection(cmd) ==
    LET at == {i \in DOMAIN cmd : cmd[i] \in Symbols}
        i == CHOOSE k \in at : \A j \in at : j <= k
        append == i > 1 /\ cmd[i] = ">" /\ cmd[i - 1] = ">"
    IN  IF at = {} THEN NoRedir(cmd)
        ELSE [redir |-> CASE cmd[i] = "<" -> "in" [] append -> "app" [] OTHER -> "out",
              filename |-> SubSeq(cmd, i + 1, Len(cmd)),
              rest |-> SubSeq(cmd, 1, IF append THEN i - 2 ELSE i - 1)]

RedirCheck ==
    /\ spc = "redir"
    /\ LET r == Redirection(line) IN
       /\ redir' = r.redir /\ filename' = r.filename /\ line' = r.rest
    /\ spc' = "parse"
    /\ UNCHANGED <<argv, lastcode, cwd, dirs, pwd, files, status, order, typed, eof>>

\* strtok: a blank, which only ends a line, is no word.
WordsOf(text) ==
    IF text # <<>> /\ text[Len(text)] = Blank THEN SubSeq(text, 1, Len(text) - 1) ELSE text

\* g_argc starts at 1 and loses the 1 that the final NULL adds, so the result is
\* true for a blank line, too, whose g_argv[0] is NULL: std::string throws.
CommandParse ==
    /\ spc = "parse"
    /\ argv' = WordsOf(line)
    /\ line' = IF argv' = <<>> THEN <<>> ELSE <<Head(argv')>>
    /\ spc' = CASE Len(argv') + 1 > MaxArgv -> "overrun"
                [] argv' = <<>> -> "thrown"
                [] OTHER -> "builtin"
    /\ UNCHANGED <<redir, filename, lastcode, cwd, dirs, pwd, files, status, order, typed, eof>>

-----------------------------------------------------------------------------
(* Built-in commands, which look at no redirection. *)

Cd ==
    LET where == IF Len(argv) = 1 THEN HomeDir ELSE argv[2] IN
    /\ spc = "builtin" /\ argv[1] = "cd"
    /\ cwd' = IF where \in dirs THEN where ELSE cwd
    /\ spc' = "prompt"
    /\ UNCHANGED <<line, argv, redir, filename, lastcode, dirs, pwd, files, status, order,
                   typed, eof>>

\* `echo $?' forgets the code; without a word g_argv[1] is NULL.
Echo ==
    /\ spc = "builtin" /\ argv[1] = "echo"
    /\ IF Len(argv) = 1
       THEN spc' = "thrown" /\ UNCHANGED lastcode
       ELSE /\ spc' = "prompt"
            /\ lastcode' = IF argv[2] = "$?" THEN 0 ELSE lastcode
    /\ UNCHANGED <<line, argv, redir, filename, cwd, dirs, pwd, files, status, order, typed, eof>>

CheckAndExecBuiltin ==
    /\ spc = "builtin" /\ argv[1] \notin {"cd", "echo"}
    /\ spc' = "fork"
    /\ UNCHANGED <<line, argv, redir, filename, lastcode, cwd, dirs, pwd, files, status,
                   order, typed, eof>>

-----------------------------------------------------------------------------
(* Excute. *)

\* fork fails: waitpid(-1) finds no child and the code stays.
NoFork ==
    /\ spc = "fork"
    /\ spc' = "prompt"
    /\ UNCHANGED <<line, argv, redir, filename, lastcode, cwd, dirs, pwd, files, status,
                   order, typed, eof>>

\* test_02_13: the child has nothing to open.
PlainExcute == ~Redirections /\ spc = "fork" /\ spc' = "exec" /\ UNCHANGED <<files, status>>

Redirected == IF redir = "none" THEN "exec" ELSE "open"

Excute ==
    /\ \/ PlainExcute
       \/ Redirections /\ spc = "fork" /\ spc' = Redirected /\ UNCHANGED <<files, status>>
    /\ UNCHANGED <<line, argv, redir, filename, lastcode, cwd, dirs, pwd, order, typed, eof>>

FailCode == CASE redir = "in" -> 1 [] redir = "out" -> 2 [] OTHER -> 3

\* The child's open; it may fail for any file (permission, a full disk).
ChildOpens(works) ==
    /\ spc = "open"
    /\ works => filename \in Names /\ (redir = "in" => files[filename] # Missing)
    /\ IF ~works
       THEN /\ spc' = "wait"
            /\ status' = [code |-> FailCode, ran |-> FALSE]
            /\ UNCHANGED files
       ELSE /\ spc' = "exec"
            /\ files' = CASE redir = "in" -> files
                          [] redir = "out" -> [files EXCEPT ![filename] = <<>>]
                          [] OTHER -> [files EXCEPT ![filename] =
                                          IF files[filename] = Missing THEN <<>> ELSE @]
            /\ UNCHANGED status
    /\ UNCHANGED <<line, argv, redir, filename, lastcode, cwd, dirs, pwd, order, typed, eof>>

\* execvp: the program writes, to the terminal or the file, and leaves with a code.
ChildRuns(code) ==
    /\ spc = "exec"
    /\ IF argv[1] \in Programs
       THEN /\ status' = [code |-> code, ran |-> TRUE]
            /\ files' = IF redir \in {"out", "app"}
                        THEN [files EXCEPT ![filename] = Append(@, argv[1])] ELSE files
       ELSE /\ status' = [code |-> 1, ran |-> FALSE]
            /\ UNCHANGED files
    /\ spc' = "wait"
    /\ UNCHANGED <<line, argv, redir, filename, lastcode, cwd, dirs, pwd, order, typed, eof>>

\* Ended by a signal: WEXITSTATUS makes that 0.
ChildKilled ==
    /\ spc \in {"open", "exec"}
    /\ status' = NoStatus
    /\ spc' = "wait"
    /\ UNCHANGED <<line, argv, redir, filename, lastcode, cwd, dirs, pwd, files, order,
                   typed, eof>>

Wait ==
    /\ spc = "wait"
    /\ lastcode' = status.code
    /\ spc' = "prompt"
    /\ UNCHANGED <<line, argv, redir, filename, cwd, dirs, pwd, files, status, order, typed, eof>>

\* Somebody removes the directory.
RemoveDir ==
    /\ spc \notin {"overrun", "thrown"} /\ ~eof
    /\ cwd \in dirs /\ cwd # HomeDir
    /\ dirs' = dirs \ {cwd}
    /\ UNCHANGED <<spc, line, argv, redir, filename, lastcode, cwd, pwd, files, status,
                   order, typed, eof>>

Next ==
    \/ PrintCommandPrompt \/ EndOfInput \/ RedirCheck \/ CommandParse
    \/ \E o \in Orders : GetCommandLine(o)
    \/ Cd \/ Echo \/ CheckAndExecBuiltin
    \/ NoFork \/ Excute \/ ChildKilled \/ Wait \/ RemoveDir
    \/ \E works \in BOOLEAN : ChildOpens(works)
    \/ \E code \in 0..1 : ChildRuns(code)

-----------------------------------------------------------------------------
(* Properties. *)

TypeOK ==
    /\ spc \in {"prompt", "read", "redir", "parse", "builtin", "fork", "open", "exec",
                "wait", "overrun", "thrown"}
    /\ redir \in {"none", "in", "out", "app"}
    /\ lastcode \in 0..3
    /\ cwd \in Dirs /\ pwd \in Dirs /\ dirs \subseteq Dirs
    /\ files \in [Names -> {Missing} \cup Seq(Programs)]

Content(f) == IF order.before[f] = Missing THEN <<>> ELSE order.before[f]

\* What has become of the files when the order is done.
Obeyed ==
    LET file == order.file
        kept == order.before
    IN  /\ status.ran /\ order.mode = "out" => files = [kept EXCEPT ![file] = <<argv[1]>>]
        /\ status.ran /\ order.mode = "app" =>
               files = [kept EXCEPT ![file] = Append(Content(file), argv[1])]
        /\ order.mode \in {"none", "in"} => files = kept
        /\ ~status.ran /\ order.mode # "none" =>
               files \in {kept, [kept EXCEPT ![file] = Content(file)],
                          [kept EXCEPT ![file] = IF order.mode = "out" THEN <<>> ELSE @]}
        /\ argv[1] \in {"cd", "echo"} => files = kept
        /\ status.ran /\ order.mode = "in" => kept[file] # Missing

(* An order with a newline and without a blank behind its file name does what  *)
(* it says (main, RedirCheck, Excute): its words reach the command, a program  *)
(* that runs adds its output to the file, after what was there for `>>' and   *)
(* instead of it for `>', nothing else of any file changes, and built-in      *)
(* commands change none.  An order never meets the redirection of an earlier. *)
OrdersObeyed ==
    spc = "prompt" /\ order.proper => argv = order.argv /\ Obeyed

(* What stops the shell: a blank line, `echo' alone (CommandParse and Echo hand *)
(* NULL to std::string), more words than MAXARGV, too large an environment;    *)
(* never the end of the input, after which it repeats the first word of the   *)
(* last line for ever.  PWD is the directory whenever an order is read, unless *)
(* that was removed.                                                          *)
KnownEnds ==
    /\ spc = "thrown" =>
          argv = <<>> \/ argv = <<"echo">>
    /\ spc = "overrun" /\ order.proper => Len(order.argv) + 1 > MaxArgv
    /\ eof /\ order = NoOrder /\ typed > 0 /\ spc = "builtin" => Len(argv) = 1
    /\ spc = "read" /\ cwd \in dirs => pwd = cwd

\* What lines are made of.
OrderWords == UNION {{o.argv[i] : i \in DOMAIN o.argv} : o \in Orders}
Text == OrderWords \cup FileNames \cup Symbols \cup {Blank, CutWord, Garbage}

LineTypes ==
    /\ line \in Seq(Text) /\ argv \in Seq(Text)
    /\ status \in [code : 0..3, ran : BOOLEAN]
    /\ ~Redirections => redir = "none" /\ spc \notin {"redir", "open"}
    /\ spc = "exec" /\ redir \in {"out", "app"} =>
           filename \in Names /\ files[filename] \in Seq(Programs)
    /\ spc = "open" => redir # "none"

\* Built-in commands run in no child, and the last line is its first word.
LinesRun ==
    /\ spc \in {"builtin", "fork", "open", "exec", "wait"} => argv # <<>>
    /\ spc \in {"fork", "open", "exec", "wait"} => argv[1] \notin {"cd", "echo"}
    /\ spc \notin {"redir", "parse"} => Len(line) <= 1
    /\ order = NoOrder /\ spc \in {"redir", "parse"} => Len(line) <= 1
    /\ order = NoOrder /\ spc = "builtin" => Len(argv) = 1

\* A proper order on its way.
OrderTyped ==
    /\ order.argv \in Seq(OrderWords)
    /\ order.mode \in {"none", "in", "out", "app"}
    /\ \E f \in FileNames : order.file = <<f>> /\
           (spc = "redir" => line = order.argv \o Behind(order.mode, f))
    /\ order.before \in [Names -> {Missing} \cup Seq(Programs)]

OrderParsed ==
    /\ spc = "parse" => line = order.argv
    /\ spc \in {"builtin", "fork", "open", "exec", "wait", "prompt"} => argv = order.argv
    /\ spc \in {"parse", "builtin", "fork", "open", "exec", "wait", "prompt"} =>
           redir = order.mode /\ (redir # "none" => filename = order.file)

Opened ==
    /\ order.mode \in {"none", "in"} => files = order.before
    /\ order.mode = "in" => order.before[order.file] # Missing
    /\ order.mode = "out" => files = [order.before EXCEPT ![order.file] = <<>>]
    /\ order.mode = "app" =>
           files = [order.before EXCEPT ![order.file] = Content(order.file)]

OrderRun ==
    /\ spc \in {"redir", "parse", "builtin", "fork", "open"} =>
           files = order.before /\ ~status.ran
    /\ spc = "exec" => ~status.ran /\ Opened
    /\ spc \in {"wait", "prompt"} => Obeyed

\* What makes OrdersObeyed and KnownEnds inductive.
ShellInv ==
    /\ TypeOK /\ LineTypes /\ LinesRun /\ KnownEnds
    /\ order.proper => OrderTyped /\ OrderParsed /\ OrderRun
=============================================================================
