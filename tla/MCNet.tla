-------------------------------- MODULE MCNet --------------------------------
(***************************************************************************)
(* Model checking of the smaller parts of the network programs: the accept *)
(* loop that forks, the web server's handler, the dictionary server and    *)
(* the chat client's threads.  They share nothing: a behaviour picks one   *)
(* of them in the beginning, and nobody starts the others.                 *)
(***************************************************************************)
EXTENDS Integers, Sequences

CONSTANTS Clients, Users, Server, DictLines, UserWords,
          Requests, CRLF, FileNames, Sizes, Uninitialized,
          MaxForkFailures, MaxAsked, MaxNetFaults, MaxThreadFailures, MaxEdits

VARIABLES
    program,
    backlog, client, loop, sock, state, holders, listeners, forkFailures, alone,
    sent, files, edits, pc, request, reqline, method, uri, args, internal, target, code,
    length, location, text, answer, arrived, edited,
    _dict, waiting, asked, got, requests, answers, lost, duplicated, netFaults,
    main, thread, _tid, id, cancelled, quit, failures

forkVars == <<backlog, client, loop, sock, state, holders, listeners,
             forkFailures, alone>>
httpVars == <<sent, files, edits, pc, request, reqline, method, uri, args, internal,
              target, code, length, location, text, answer, arrived, edited>>
dictVars == <<_dict, waiting, asked, got, requests, answers, lost, duplicated,
             netFaults>>
clientVars == <<main, thread, _tid, id, cancelled, quit, failures>>

Fork == INSTANCE ForkServer WITH failures <- forkFailures

Http == INSTANCE HttpServer

Dict == INSTANCE DictServer
    WITH Clients <- Users, File <- DictLines, Words <- UserWords,
         MaxFaults <- MaxNetFaults, faults <- netFaults

Client == INSTANCE ChatClient WITH MaxFailures <- MaxThreadFailures

ASSUME Assumptions ==
    /\ Fork!ForkAssumption /\ Http!HttpAssumption /\ Dict!DictAssumption
    /\ Client!ClientAssumption

Programs == {"fork", "http", "dict", "client"}

Init == /\ program \in Programs
        /\ Fork!Init /\ Http!Init /\ Dict!Init /\ Client!Init
        /\ \/ program = "http"
           \/ /\ sent = CHOOSE r \in Requests : TRUE
              /\ files = [f \in FileNames |-> CHOOSE size \in Sizes : TRUE]
              /\ code = CHOOSE n \in Uninitialized : TRUE

ForkStep == /\ program = "fork" /\ Fork!Next
            /\ UNCHANGED <<program, httpVars, dictVars, clientVars>>

HttpStep == /\ program = "http" /\ Http!Next
            /\ UNCHANGED <<program, forkVars, dictVars, clientVars>>

DictStep == /\ program = "dict" /\ Dict!Next
            /\ UNCHANGED <<program, forkVars, httpVars, clientVars>>

ClientStep == /\ program = "client" /\ Client!Next
              /\ UNCHANGED <<program, forkVars, httpVars, dictVars>>

Next == ForkStep \/ HttpStep \/ DictStep \/ ClientStep

vars == <<program, forkVars, httpVars, dictVars, clientVars>>

(* No action that is fair is enabled in a program that nobody has started, *)
(* so this conjunction is, in any behaviour, the fairness of the program   *)
(* that runs.                                                              *)
Fairness == /\ Fork!Fairness /\ Dict!Fairness /\ Client!Fairness
            /\ WF_httpVars(Http!HandlerHttpRquest)

Spec == Init /\ [][Next]_vars /\ Fairness

-----------------------------------------------------------------------------
(* The file has two meanings for one word, the later one with a blank in   *)
(* it, an empty meaning, and lines that are no entries: no blank, a blank  *)
(* at the beginning, no colon in front of the blank.  The users' words are *)
(* in the file, in the lines that are no entries, or empty.                *)
MCDictLines == << <<"a", ":", " ", "x">>, <<"b", ":", " ">>, <<"b">>, <<" ", "d">>,
                  <<"c", "e", " ", "f">>, <<"a", ":", " ", "y", " ", "z">> >>
MCUserWords == {<<"a">>, <<"b">>, <<"c">>, <<" ", "d">>, <<>>}

(* The requests the site's pages make, with and without a question mark    *)
(* and arguments behind it, for files and routes that exist or not, and    *)
(* lines that are no requests.                                             *)
Plain == "no question mark"
Get(path, query) == <<"GET", [path |-> path, args |-> query], "HTTP/1.1", CRLF,
                      "Host: server", CRLF, CRLF>>
Post(path) == <<"POST", [path |-> path, args |-> Plain], "HTTP/1.1", CRLF,
                "Content-Length: 3", CRLF, CRLF, "a=b">>

Gets  == {Get(path, Plain) : path \in {"/", "/index.html", "/login", "/favicon.ico",
                                    "/redir_test", "/missing"}}
         \cup {Get(path, query) : path \in {"/", "/login", "/missing"}, query \in {"", "a=b"}}
Posts == {Post("/login"), Post("/missing")}

MCRequests == Gets \cup Posts \cup {<<CRLF>>, <<"GET", CRLF>>}

(* A file may be missing (Http!Absent), empty, or hold something.          *)
MCSizes == {-1, 0, 2}

-----------------------------------------------------------------------------
(* Properties, each about one of the programs.                             *)

(* Every module's variables have their types.                              *)
TypeOK == /\ program \in Programs
          /\ Fork!TypeOK /\ Http!TypeOK /\ Dict!TypeOK /\ Client!TypeOK

(* No process keeps another client's connection open.                      *)
Isolation == Fork!Isolation

(* A connection ends when its service has ended, and a long session delays *)
(* no other client.                                                        *)
ClientsServed == Fork!HangsUp /\ Fork!Accepted

(* As long as nobody changes the files, the web server's response is the   *)
(* one that the files and the request line call for; a route that does not *)
(* exist is left out.                                                      *)
AsRequested == Http!AsRequested

(* A request for a route that does not exist is answered with 404, as      *)
(* Http.hpp:448 says.                                                      *)
UnknownRouteAnswered == Http!UnknownRouteAnswered

(* A request that is no POST is handled to its end.                        *)
HandlerEnds == Http!HandlerEnds

(* The form of wwwroot/Login.html posts to /login, and main registers a    *)
(* handler for it, which says that it has been reached (Main.cc:5): a      *)
(* login that arrives is answered.                                         *)
LoginAnswered == Http!LoginAnswered

(* An answer is the file's meaning of the client's own word, or what is on *)
(* a line that is misread as it.                                           *)
AnswersMatch == Dict!AnswersMatch

(* A client of the dictionary hangs only after a lost datagram or an empty *)
(* word, and "quit" ends the chat client, if main had stored the           *)
(* receiver's id by then.                                                  *)
ClientsGoOn == Dict!WordAnswered /\ Client!QuitEnds
=============================================================================
