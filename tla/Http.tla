----------------------------------- MODULE Http -----------------------------------
(***************************************************************************)
(* test_04_20: one request of the static HTTP server, from the first read to  *)
(* the answer.  Each connection has a process of its own (TcpServers, kind    *)
(* http), so requests meet only in the files, which their owner may replace   *)
(* between any two of the server's calls: the size is asked three times.      *)
(***************************************************************************)
EXTENDS Integers

CONSTANTS
    Pages,          \* files under ./wwwroot, beside those below
    Home, Page404,  \* homepage, page_404
    Endings,        \* what follows the last dot of a file's name, "" without a dot
    Routes,         \* what RegisterService was called with
    Largest,        \* largest size of a file
    MaxChanges      \* replacements while a request is served (a bound of the model)

VARIABLES
    files,      \* sizes: Missing, 0, 1, ...
    req,        \* what the client sends
    hpc,        \* the next step
    target,     \* _uri, then _targetfile
    size,       \* filesize of ReadFileContent
    resp,       \* the response
    changes     \* history: files replaced so far

vars == <<files, req, hpc, target, size, resp, changes>>

Missing == -1
NoHeader == -2      \* SetHeader was not called
Favicon == "favicon.ico"
Redirect == "redir_test"
Directory == "./wwwroot"

Files == Pages \cup {Home, Page404}
Slash == "/"
Uris == Pages \cup Routes \cup {Slash, Favicon, Redirect}

\* line: the first read holds the whole request line.
Requests == [uri : Uris, args : BOOLEAN, line : BOOLEAN]

\* text: its length; read: how much of it came from the file.
NoAnswer == [code |-> 0, length |-> NoHeader, type |-> "none", text |-> 0, read |-> 0]

Init ==
    /\ files \in [Files -> {Missing} \cup 0..Largest]
    /\ req \in Requests
    /\ hpc = "recv"
    /\ target = Directory
    /\ size = 0
    /\ resp = NoAnswer
    /\ changes = 0

\* The directory has no size, either.
SizeOf(f) == IF f \in Files THEN files[f] ELSE Missing

-----------------------------------------------------------------------------
(* HttpRequest::Deserialize.  ReadOneLine's result is not looked at: without  *)
(* a whole line there is no uri, and the target is the directory.             *)

Target ==
    CASE ~req.line -> Directory
      [] req.line /\ req.uri = Slash /\ ~req.args -> Home
      [] OTHER -> req.uri

isInteract == req.line /\ req.args

\* MakeResponse: favicon has no answer, redir_test no file.
MakeResponse ==
    CASE Target = Favicon -> "end"
      [] Target = Redirect -> "redirect"
      [] OTHER -> "size"

\* HandlerHttpRequest: an argument goes to the service registered for the uri;
\* without one nothing is sent.
HandlerHttpRequest ==
    /\ hpc = "recv"
    /\ target' = Target
    /\ hpc' = IF isInteract THEN (IF Target \in Routes THEN "service" ELSE "end")
              ELSE MakeResponse
    /\ UNCHANGED <<files, req, size, resp, changes>>

\* Login of Main.cc answers with the arguments.
Login ==
    /\ hpc = "service"
    /\ resp' = [NoAnswer EXCEPT !.code = 200, !.type = "text/plain", !.length = 1, !.text = 1, !.read = 1]
    /\ hpc' = "send"
    /\ UNCHANGED <<files, req, target, size, changes>>

SetRedirect ==
    /\ hpc = "redirect"
    /\ resp' = [NoAnswer EXCEPT !.code = 302]
    /\ hpc' = "send"
    /\ UNCHANGED <<files, req, target, size, changes>>

-----------------------------------------------------------------------------
(* MakeResponse's files. *)

\* The names begin with "./wwwroot", so rfind finds a dot in every one.
Uri2Suffix(f) ==
    CASE Endings[f] \in {"html", "htm"} -> "text/html"
      [] Endings[f] = "jpg" -> "image/jpeg"
      [] Endings[f] = "png" -> "image/png"
      [] OTHER -> ""

\* ReadFileContent: an empty file is as good as none.
FileSize ==
    /\ hpc = "size"
    /\ size' = SizeOf(target)
    /\ hpc' = IF SizeOf(target) > 0 THEN "read"
              ELSE IF resp.code = 404 THEN "send" ELSE "404"
    /\ UNCHANGED <<files, req, target, resp, changes>>

\* text gets the size first seen; what the file lacks by now stays zero.
ReadFileContent ==
    LET n == SizeOf(target) IN
    /\ hpc = "read"
    /\ IF n = Missing
       THEN /\ hpc' = IF resp.code = 404 THEN "send" ELSE "404"
            /\ UNCHANGED resp
       ELSE /\ resp' = [resp EXCEPT !.text = size, !.read = IF n < size THEN n ELSE size]
            /\ hpc' = IF resp.code = 404 THEN "send" ELSE "length"
    /\ UNCHANGED <<files, req, target, size, changes>>

\* code 200: Content-Length is what the file is by now.
SetLength ==
    /\ hpc = "length"
    /\ resp' = [resp EXCEPT !.code = 200, !.type = Uri2Suffix(target), !.length = SizeOf(target)]
    /\ hpc' = "send"
    /\ UNCHANGED <<files, req, target, size, changes>>

\* The size of the file that was asked for.
NotFoundLengthMutant == SizeOf(target)

NotFoundLength == SizeOf(Page404)

\* code 404: the size of the page, then the page.
SetNotFound ==
    /\ hpc = "404"
    /\ target' = Page404
    /\ resp' = [NoAnswer EXCEPT !.code = 404, !.type = Uri2Suffix(Page404), !.length = NotFoundLength]
    /\ hpc' = "size"
    /\ UNCHANGED <<files, req, size, changes>>

\* Serialize and Send.
Send ==
    /\ hpc = "send"
    /\ hpc' = "sent"
    /\ UNCHANGED <<files, req, target, size, resp, changes>>

\* The owner of the site puts another file in a file's place, or removes it.
Replace(f, n) ==
    /\ changes < MaxChanges
    /\ hpc \notin {"end", "sent"}
    /\ files[f] # n
    /\ files' = [files EXCEPT ![f] = n]
    /\ changes' = changes + 1
    /\ UNCHANGED <<req, hpc, target, size, resp>>

Next ==
    \/ HandlerHttpRequest \/ Login \/ SetRedirect
    \/ FileSize \/ ReadFileContent \/ SetLength \/ SetNotFound \/ Send
    \/ \E f \in Files, n \in {Missing} \cup 0..Largest : Replace(f, n)

-----------------------------------------------------------------------------
(* Properties. *)

TypeOK ==
    /\ files \in [Files -> {Missing} \cup 0..Largest]
    /\ req \in Requests
    /\ target \in Files \cup Uris \cup {Directory}
    /\ size \in {Missing} \cup 0..Largest
    /\ resp.code \in {0, 200, 302, 404}
    /\ resp.text \in 0..Largest /\ resp.read \in 0..Largest
    /\ resp.length \in {NoHeader, Missing} \cup 0..Largest

\* What is known of the answer while its page is looked for, and in addition
\* if nobody replaces a file.
PageSought ==
    hpc \in {"size", "read", "length", "404"} =>
        /\ ~isInteract /\ Target # Favicon
        /\ \/ resp.code = 0 /\ target = Target
           \/ hpc \in {"size", "read"} /\ resp.code = 404 /\ target = Page404
        /\ hpc # "length" => resp.text = 0 /\ resp.read = 0
        /\ hpc = "read" => size > 0
        /\ hpc = "length" => resp.text > 0

SizesKept ==
    changes = 0 =>
        /\ hpc = "read" => size = SizeOf(target)
        /\ hpc = "length" => resp.text = SizeOf(target) /\ resp.read = resp.text
        /\ hpc = "404" \/ resp.code = 404 => SizeOf(Target) <= 0
        /\ hpc \in {"size", "read"} /\ resp.code = 404 => resp.length = SizeOf(Page404)

\* What holds of an answer before it is sent as after it.
AnswerMade ==
    hpc \in {"send", "sent"} =>
        /\ Target = Favicon => isInteract
        /\ resp.code = 200 => resp.text > 0
        /\ resp.code = 200 /\ ~isInteract => resp.type = Uri2Suffix(Target)
        /\ changes = 0 =>
              /\ resp.read = resp.text
              /\ resp.code = 200 => resp.length = resp.text
              /\ resp.code = 200 /\ ~isInteract => resp.text = SizeOf(Target)
              /\ resp.code = 404 => resp.length = SizeOf(Page404)
                                    /\ resp.text = IF resp.length < 0 THEN 0 ELSE resp.length

\* What is known before and without a page.
RequestKnown ==
    /\ hpc \in {"recv", "service", "redirect"} => resp = NoAnswer
    /\ hpc = "end" => Target = Favicon \/ (isInteract /\ Target \notin Routes)
    /\ hpc = "service" => isInteract
    /\ hpc = "redirect" => Target = Redirect

Answers == [code : {0, 200, 302, 404}, length : {NoHeader, Missing} \cup 0..Largest,
            type : {"none", "text/plain", "text/html", "image/jpeg", "image/png", ""},
            text : 0..Largest, read : 0..Largest]

\* What makes AnswersWhole inductive.
PageInv ==
    /\ TypeOK /\ changes \in Nat /\ resp \in Answers
    /\ RequestKnown /\ PageSought /\ SizesKept /\ AnswerMade

(* What is announced is what is sent: if nobody replaces a file in the middle,  *)
(* Content-Length is the length of the text, all of the text is the file's,   *)
(* and 404 is for what is missing or empty; only a missing 404.html announces *)
(* a length without a text.  Whoever replaces files, a page of code 200 has   *)
(* the type of its name, and only favicon.ico and arguments for what nobody   *)
(* registered go without an answer (MakeResponse, HandlerHttpRequest).        *)
AnswersWhole ==
    /\ hpc = "end" => Target = Favicon \/ (isInteract /\ Target \notin Routes)
    /\ hpc = "sent" =>
          /\ Target = Favicon => isInteract
          /\ resp.code = 200 /\ ~isInteract => resp.type = Uri2Suffix(Target)
          /\ resp.code = 200 => resp.text > 0
    /\ hpc = "sent" /\ changes = 0 =>
          /\ resp.read = resp.text
          /\ resp.code \in {200, 404} =>
                resp.length = resp.text \/ (resp.code = 404 /\ files[Page404] = Missing)
          /\ resp.code = 200 => isInteract \/ resp.text = files[Target]
          /\ resp.code = 404 => SizeOf(Target) <= 0
=============================================================================
