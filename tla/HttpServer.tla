----------------------------- MODULE HttpServer -----------------------------
(***************************************************************************)
(* The handling of one connection by the web server src/Http: Recv, the    *)
(* parsing of HttpRequest::Deserialize, the routes, HttpResponse::         *)
(* MakeResponse with its accesses to the files, and Send (Http.hpp,        *)
(* Util.hpp, Main.cc).  ForkServer models the accept loop around it.       *)
(*                                                                         *)
(* A request is a sequence of tokens; what arrives of it with the one Recv *)
(* is a prefix.  A file is its size: the handler looks at a file in        *)
(* several steps, and others may write or remove it in between.  The       *)
(* prefix wberoot of all file names is left out.                           *)
(***************************************************************************)
EXTENDS Integers, Sequences, SequencesExt, FiniteSetsExt

CONSTANTS Requests,     \* what a client may send
          CRLF,         \* the end of a line
          FileNames,
          Sizes,        \* sizes a file may get
          Uninitialized,\* values of an int that has not been set
          MaxEdits      \* bound: how often somebody changes a file

(* The arguments of a uri without a question mark; behind one there may be *)
(* none, which is "".                                                      *)
NoQuery == "no question mark"
NoUri   == [path |-> "", args |-> NoQuery]

Absent == -1     \* what FileSize returns for a file that cannot be opened
NotSet == -2     \* a header that has not been set

(* The second token of a request line is a uri: a path and the arguments.  *)
IsUri(u) == u = [path |-> u.path, args |-> u.args]
IsRequest(r) == /\ Len(r) \in Nat /\ r = [i \in 1..Len(r) |-> r[i]]
                /\ Len(r) >= 2 /\ r[1] # CRLF /\ r[2] # CRLF => IsUri(r[2])

HttpAssumption ==
    /\ \A r \in Requests : IsRequest(r)
    /\ {"/index.html", "/404.html"} \subseteq FileNames
    /\ Sizes \subseteq Nat \cup {Absent} /\ Sizes # {}
    /\ Uninitialized \subseteq Int /\ Uninitialized # {}
    /\ MaxEdits \in Nat

VARIABLES
    sent,        \* the request sent by the client
    files,       \* size of each file
    edits,       \* number of changes
    pc,          \* where the handler is
    request,     \* httprequest: what is left to parse
    reqline,     \* reqline of Deserialize
    method, uri, args, internal,        \* fields of HttpRequest
    target,      \* _targetfile
    code, length, location, text,       \* fields of HttpResponse
    answer,      \* history: what Send was called with
    arrived,     \* history: what Recv got
    edited       \* history: a file has changed since Recv

reqVars  == <<request, reqline, method, uri, args, internal>>
respVars == <<target, code, length, location, text>>
fileVars == <<files, edits, edited>>
vars == <<sent, files, edits, pc, request, reqline, method, uri, args, internal,
          target, code, length, location, text, answer, arrived, edited>>

(* RegisterHandler in main: the one route.                                 *)
_route == {"/login"}

Init == /\ sent \in Requests
        /\ files \in [FileNames -> Sizes]
        /\ edits = 0 /\ edited = FALSE
        /\ pc = "recv"
        /\ request = <<>> /\ arrived = <<>>
        /\ reqline = <<>>
        /\ method = "" /\ uri = NoUri /\ args = "" /\ internal = FALSE
        /\ target = ""
        /\ code \in Uninitialized
        /\ length = NotSet /\ location = FALSE /\ text = 0
        /\ answer = <<>>

Goto(l) == pc' = l

-----------------------------------------------------------------------------
(* Somebody writes or removes a file.                                      *)
Edit == /\ edits < MaxEdits /\ pc # "done"
        /\ \E f \in FileNames : \E s \in Sizes \ {files[f]} : files' = [files EXCEPT ![f] = s]
        /\ edits' = edits + 1
        /\ edited' = (edited \/ pc # "recv")
        /\ UNCHANGED <<sent, pc, reqVars, respVars, answer, arrived>>

(* FileSize, by the number that ends up in an int.                         *)
FileSize(f) == IF f \in FileNames THEN files[f] ELSE Absent

-----------------------------------------------------------------------------
(* Util::ReadOneLine: the first line with its end is taken off.  Without   *)
(* an end of line nothing is changed.                                      *)
Ends(r)     == {i \in 1..Len(r) : r[i] = CRLF}
LineOf(r)   == SubSeq(r, 1, Min(Ends(r)) - 1)
LineKept(r)  == SubSeq(r, 1, Min(Ends(r)) - 1)
AfterLine(r) == SubSeq(r, Min(Ends(r)) + 1, Len(r))

ReadOneLine == IF Ends(request) = {} THEN UNCHANGED <<request, reqline>>
               ELSE request' = AfterLine(request) /\ reqline' = LineOf(request)

(* ss >> _method >> _uri >> _version.                                      *)
MethodOf(line) == IF Len(line) >= 1 THEN line[1] ELSE ""
UriOf(line)    == IF Len(line) >= 2 THEN line[2] ELSE NoUri

HomepageForgotten(u) == u
Homepage(u) == IF u = [path |-> "/", args |-> NoQuery] THEN [u EXCEPT !.path = "/index.html"]
                                                       ELSE u

(* Whether Deserialize goes on to the header lines.                        *)
ReadsAlways(m)  == TRUE
ReadsHeaders(m) == m = "POST"

(* Recv, the request line, and the local name of the resource.             *)
Recv ==
    /\ pc = "recv"
    /\ \E n \in 1..Len(sent) :
         LET got == SubSeq(sent, 1, n)
             line == IF Ends(got) = {} THEN <<>> ELSE LineOf(got)
         IN  /\ arrived' = got
             /\ request' = IF Ends(got) = {} THEN got ELSE AfterLine(got)
             /\ reqline' = line
             /\ method' = MethodOf(line)
             /\ uri' = Homepage(UriOf(line))
             /\ internal' = (MethodOf(line) = "POST")
    /\ Goto(IF ReadsHeaders(method') THEN "headers" ELSE "query")
    /\ UNCHANGED <<sent, fileVars, args, respVars, answer>>

(* The client leaves without a request.                                    *)
RecvEnd ==
    /\ pc = "recv"
    /\ Goto("done")
    /\ UNCHANGED <<sent, fileVars, reqVars, respVars, answer, arrived>>

(* The loop over the header lines of a POST.  It ends at a line that       *)
(* consists of a line end, and ReadOneLine has removed the line ends.      *)
Headers ==
    /\ pc = "headers"
    /\ ReadOneLine
    /\ Goto(IF reqline' # <<CRLF>> THEN "headers" ELSE "query")
    /\ UNCHANGED <<sent, fileVars, method, uri, args, internal, respVars, answer, arrived>>

(* The arguments are cut off the uri, at its question mark.                *)
Query ==
    /\ pc = "query"
    /\ IF uri.args = NoQuery THEN UNCHANGED <<args, uri, internal>>
       ELSE /\ args' = uri.args
            /\ uri' = [uri EXCEPT !.args = NoQuery]
            /\ internal' = TRUE
    /\ Goto("dispatch")
    /\ UNCHANGED <<sent, fileVars, request, reqline, method, respVars, answer, arrived>>

-----------------------------------------------------------------------------
(* HandlerHttpRquest and MakeResponse.                                     *)
Routed == internal /\ uri.path \in _route

(* A route is looked up; without one nothing is sent.                      *)
NoRoute ==
    /\ pc = "dispatch" /\ internal /\ ~Routed
    /\ Goto("done")
    /\ UNCHANGED <<sent, fileVars, reqVars, respVars, answer, arrived>>

(* Login: "Hello, " and the arguments, of one size.                        *)
Login ==
    /\ pc = "dispatch" /\ Routed
    /\ code' = 200 /\ text' = 1 /\ length' = 1
    /\ Goto("send")
    /\ UNCHANGED <<sent, fileVars, reqVars, target, location, answer, arrived>>

Favicon ==
    /\ pc = "dispatch" /\ ~internal /\ uri.path = "/favicon.ico"
    /\ target' = uri.path
    /\ Goto("send")
    /\ UNCHANGED <<sent, fileVars, reqVars, code, length, location, text, answer, arrived>>

Redirect ==
    /\ pc = "dispatch" /\ ~internal /\ uri.path = "/redir_test"
    /\ target' = uri.path
    /\ code' = 301 /\ location' = TRUE
    /\ Goto("send")
    /\ UNCHANGED <<sent, fileVars, reqVars, length, text, answer, arrived>>

(* ReadFileContent asks for the size first and makes room.                 *)
Look ==
    /\ pc = "dispatch" /\ ~internal /\ uri.path \notin {"/favicon.ico", "/redir_test"}
    /\ target' = uri.path
    /\ LET size == FileSize(uri.path)
       IN  IF size = Absent THEN Goto("missing") /\ text' = text
                            ELSE Goto("open") /\ text' = size
    /\ UNCHANGED <<sent, fileVars, reqVars, code, length, location, answer, arrived>>

(* Then it opens the file again and reads as much as there was.            *)
Open ==
    /\ pc = "open"
    /\ Goto(IF FileSize(target) = Absent THEN "missing" ELSE "found")
    /\ UNCHANGED <<sent, fileVars, reqVars, respVars, answer, arrived>>

Found ==
    /\ pc = "found"
    /\ code' = 200 /\ length' = FileSize(target)
    /\ Goto("send")
    /\ UNCHANGED <<sent, fileVars, reqVars, target, location, text, answer, arrived>>

Missing ==
    /\ pc = "missing"
    /\ code' = 404 /\ target' = "/404.html"
    /\ length' = FileSize("/404.html")
    /\ Goto("look 404")
    /\ UNCHANGED <<sent, fileVars, reqVars, location, text, answer, arrived>>

(* The page's content; the result of this ReadFileContent is not used.     *)
Look404 ==
    /\ pc = "look 404"
    /\ text' = IF FileSize(target) = Absent THEN text ELSE FileSize(target)
    /\ Goto("send")
    /\ UNCHANGED <<sent, fileVars, reqVars, target, code, length, location, answer, arrived>>

Send ==
    /\ pc = "send"
    /\ answer' = <<[code |-> code, length |-> length, location |-> location, text |-> text]>>
    /\ Goto("done")
    /\ UNCHANGED <<sent, fileVars, reqVars, respVars, arrived>>

MakeResponse == Favicon \/ Redirect \/ Look \/ Open \/ Found \/ Missing \/ Look404
HandlerHttpRquest == Headers \/ Query \/ NoRoute \/ Login \/ MakeResponse \/ Send

-----------------------------------------------------------------------------
Terminated == pc = "done" /\ UNCHANGED vars

Next == Recv \/ RecvEnd \/ HandlerHttpRquest \/ Edit \/ Terminated

Safety   == Init /\ [][Next]_vars
Fairness == WF_vars(HandlerHttpRquest)
Spec     == Safety /\ Fairness

-----------------------------------------------------------------------------
(* Properties.                                                             *)

TypeOK ==
    /\ sent \in Requests
    /\ files \in [FileNames -> Sizes]
    /\ edits \in 0..MaxEdits /\ edited \in BOOLEAN
    /\ pc \in {"recv", "headers", "query", "dispatch", "open", "found", "missing",
               "look 404", "send", "done"}
    /\ IsSuffix(request, arrived) /\ IsPrefix(arrived, sent)
    /\ internal \in BOOLEAN /\ location \in BOOLEAN
    /\ code \in Uninitialized \cup {200, 301, 404}
    /\ length \in Sizes \cup {NotSet, 1} /\ text \in Nat
    /\ Len(answer) <= 1

(* What a request line asks for, whatever else of the request has arrived. *)
FirstLine == IF Ends(arrived) = {} THEN <<>> ELSE LineOf(arrived)
Asked     == UriOf(FirstLine)
Resource  == IF Asked.path = "/" /\ Asked.args = NoQuery THEN "/index.html" ELSE Asked.path

(* A question mark makes a request internal: it is for a route.            *)
UnknownRoute == Asked.args # NoQuery /\ Resource \notin _route

(* The response to what has arrived: with a question mark, the route's;    *)
(* without, the file, the page for missing files, the redirection, or, for *)
(* the icon that is to be ignored, no length and no text.  The length in   *)
(* the header is that of the text, though it is looked up at another time. *)
Expected(a) ==
    IF Asked.args # NoQuery THEN a.code = 200 /\ a.length = a.text
    ELSE CASE Resource = "/favicon.ico" -> a.length = NotSet /\ a.text = 0
           [] Resource = "/redir_test"  -> a.code = 301 /\ a.location
           [] OTHER -> IF FileSize(Resource) # Absent
                       THEN a.code = 200 /\ a.text = FileSize(Resource) /\ a.length = a.text
                       ELSE /\ a.code = 404 /\ a.length = files["/404.html"]
                            /\ a.length # Absent => a.text = a.length

(* As long as nobody changes the files, the response is the one that the   *)
(* files and the request line call for, however little of the rest of the  *)
(* request came with the one Recv; and only a client that sent nothing     *)
(* gets none.  It says nothing of a route that does not exist.             *)
AsRequested ==
    pc = "done" /\ ~edited /\ ~UnknownRoute =>
        IF answer # <<>> THEN Expected(answer[1]) ELSE arrived = <<>>

(* A request for a route that does not exist is answered with 404, as the  *)
(* comment in HandlerHttpRquest says (Http.hpp:448).                       *)
UnknownRouteAnswered ==
    pc = "done" /\ UnknownRoute => answer # <<>> /\ answer[1].code = 404

(* A request that is no POST is handled to its end, and the process exits. *)
HandlerEnds == pc # "recv" /\ method # "POST" ~> pc = "done"

(* The form of wwwroot/Login.html posts to /login, and main registers a    *)
(* handler for it, which says that it has been reached (Main.cc:5).  A     *)
(* login that arrives is answered.                                         *)
LoginAnswered ==
    Len(FirstLine) >= 2 /\ MethodOf(FirstLine) = "POST" /\ Asked.path = "/login" ~> answer # <<>>
=============================================================================
