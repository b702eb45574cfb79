----------------------------- MODULE DictServer -----------------------------
(***************************************************************************)
(* src/Socket/2.dictserver: a server that loads a dictionary from a file   *)
(* and translates one word per datagram, and clients that send a word and  *)
(* wait for the answer, without a time limit and without looking at what   *)
(* the answer answers.                                                     *)
(*                                                                         *)
(* A word and a meaning are sequences of characters, because LoadDict cuts *)
(* the lines of the file at a position it computes.                        *)
(***************************************************************************)
EXTENDS Naturals, Sequences, SequencesExt, FiniteSetsExt, Bags

CONSTANTS Clients,
          File,        \* the lines of dictionary.txt
          Words,       \* words that users ask for; <<>> is an empty line
          MaxAsked,    \* bound: words asked by each client
          MaxFaults    \* bound: datagrams lost or duplicated

VARIABLES
    _dict,       \* _dict of the server, loaded before the first word comes
    waiting,     \* clients that wait in recvfrom
    asked,       \* the words each client has sent
    got,         \* the answers each client has received
    requests,    \* datagrams <<client, word>> on their way to the server
    answers,     \* datagrams <<client, text>> on their way back
    lost,        \* history: clients one of whose datagrams was lost
    duplicated,  \* history: clients one of whose datagrams came twice
    faults

vars == <<_dict, waiting, asked, got, requests, answers, lost, duplicated, faults>>

-----------------------------------------------------------------------------
(* LoadDict.  Its pos: the place of the first blank, from 1, or 0.         *)
Space == " "
FirstSpace(line) == SelectInSeq(line, LAMBDA ch : ch = Space)

(* line.substr(0, pos - 1) leaves out the colon in front of the blank.  If *)
(* the line begins with the blank, the length is -1 as a size_t.           *)
KeyWithColon(line) == SubSeq(line, 1, FirstSpace(line) - 1)
KeyOf(line) == IF FirstSpace(line) = 1 THEN line ELSE SubSeq(line, 1, FirstSpace(line) - 2)

(* line.substr(pos + 1)                                                    *)
ValueOf(line) == SubSeq(line, FirstSpace(line) + 1, Len(line))

(* _dict[key] = value for each line with a blank: of two lines with the    *)
(* same key the later one stays.                                           *)
Entries      == {i \in 1..Len(File) : FirstSpace(File[i]) # 0}
EntryOf(key) == Max({i \in Entries : KeyOf(File[i]) = key})
LoadDict     == [key \in {KeyOf(File[i]) : i \in Entries} |-> ValueOf(File[EntryOf(key)])]

(* What the specification assumes of its constants: any lines, any words.  *)
DictAssumption ==
    /\ File \in Seq(Seq(STRING)) /\ Words \subseteq Seq(STRING)
    /\ MaxAsked \in Nat /\ MaxFaults \in Nat
    /\ {":", Space, "not found"} \subseteq STRING   \* the provers know it of no literal

NotFound == <<"not found">>
Translate(word) == IF word \in DOMAIN _dict THEN _dict[word] ELSE NotFound

-----------------------------------------------------------------------------
Init == /\ _dict = LoadDict
        /\ waiting = {}
        /\ asked = [c \in Clients |-> <<>>]
        /\ got = [c \in Clients |-> <<>>]
        /\ requests = EmptyBag /\ answers = EmptyBag
        /\ lost = {} /\ duplicated = {}
        /\ faults = 0

With(bag, datagram)    == bag (+) SetToBag({datagram})
Without(bag, datagram) == bag (-) SetToBag({datagram})
Fault == faults < MaxFaults /\ faults' = faults + 1

(* The client sends the line and waits.                                    *)
Ask(c) ==
    /\ c \notin waiting /\ Len(asked[c]) < MaxAsked
    /\ \E word \in Words : /\ asked' = [asked EXCEPT ![c] = Append(@, word)]
                           /\ requests' = With(requests, <<c, word>>)
    /\ waiting' = waiting \cup {c}
    /\ UNCHANGED <<_dict, got, answers, lost, duplicated, faults>>

(* It takes whatever datagram comes; an empty one is not printed.          *)
Receive(c) ==
    /\ c \in waiting
    /\ \E datagram \in BagToSet(answers) :
         /\ datagram[1] = c
         /\ got' = [got EXCEPT ![c] = Append(@, datagram[2])]
         /\ answers' = Without(answers, datagram)
    /\ waiting' = waiting \ {c}
    /\ UNCHANGED <<_dict, asked, requests, lost, duplicated, faults>>

HasAnswer(word) == word # <<>>

(* One round of the server's loop.  An empty datagram is not answered.     *)
Serve ==
    /\ \E datagram \in BagToSet(requests) :
         /\ requests' = Without(requests, datagram)
         /\ answers' = IF HasAnswer(datagram[2])
                       THEN With(answers, <<datagram[1], Translate(datagram[2])>>)
                       ELSE answers
    /\ UNCHANGED <<_dict, waiting, asked, got, lost, duplicated, faults>>

(* The network.                                                            *)
Lose ==
    /\ Fault
    /\ \/ \E datagram \in BagToSet(requests) :
            /\ requests' = Without(requests, datagram)
            /\ lost' = lost \cup {datagram[1]}
            /\ UNCHANGED answers
       \/ \E datagram \in BagToSet(answers) :
            /\ answers' = Without(answers, datagram)
            /\ lost' = lost \cup {datagram[1]}
            /\ UNCHANGED requests
    /\ UNCHANGED <<_dict, waiting, asked, got, duplicated>>

Duplicate ==
    /\ Fault
    /\ \/ \E datagram \in BagToSet(requests) :
            /\ requests' = With(requests, datagram)
            /\ duplicated' = duplicated \cup {datagram[1]}
            /\ UNCHANGED answers
       \/ \E datagram \in BagToSet(answers) :
            /\ answers' = With(answers, datagram)
            /\ duplicated' = duplicated \cup {datagram[1]}
            /\ UNCHANGED requests
    /\ UNCHANGED <<_dict, waiting, asked, got, lost>>

-----------------------------------------------------------------------------
(* Nobody asks any more, and nothing is under way but answers that nobody  *)
(* waits for.  A client that waits then waits for ever.                    *)
Terminated ==
    /\ \A c \in Clients : c \in waiting \/ Len(asked[c]) = MaxAsked
    /\ requests = EmptyBag
    /\ \A datagram \in BagToSet(answers) : datagram[1] \notin waiting
    /\ UNCHANGED vars

Next == \/ \E c \in Clients : Ask(c) \/ Receive(c)
        \/ Serve \/ Lose \/ Duplicate
        \/ Terminated

(* Server and clients are scheduled.  Nobody has to ask.                   *)
Fairness == WF_vars(Serve) /\ \A c \in Clients : WF_vars(Receive(c))

Spec == Init /\ [][Next]_vars /\ Fairness

-----------------------------------------------------------------------------
(* Types.                                                                  *)
TypeOK ==
    /\ \A word \in DOMAIN _dict : _dict[word] \in Seq(STRING)
    /\ waiting \subseteq Clients
    /\ asked \in [Clients -> Seq(Words)]
    /\ got \in [Clients -> Seq(Seq(STRING))]
    /\ IsABag(requests) /\ BagToSet(requests) \subseteq Clients \X Words
    /\ IsABag(answers) /\ BagToSet(answers) \subseteq Clients \X Seq(STRING)
    /\ lost \subseteq Clients /\ duplicated \subseteq Clients
    /\ faults \in 0..MaxFaults

(* A line that begins with the word, one character and a blank.            *)
Reads(line, word, ch) ==
    Space \notin ToSet(word) /\ IsPrefix(word \o <<ch, Space>>, line)
Behind(line, word) == SubSeq(line, Len(word) + 3, Len(line))

(* What the file says: the meaning on the last line "word: meaning", where *)
(* the word is without a blank.                                            *)
Meaning(word) ==
    LET last == SelectLastInSeq(File, LAMBDA line : Reads(line, word, ":"))
    IN  IF last = 0 THEN NotFound ELSE Behind(File[last], word)

(* The lines that LoadDict misreads as an entry of the word: the character *)
(* in front of the first blank is no colon, or the blank is the first.     *)
Misread(line, word, text) ==
    \/ \E ch \in ToSet(line) \ {":", Space} : Reads(line, word, ch) /\ text = Behind(line, word)
    \/ line = word /\ line # <<>> /\ Head(line) = Space /\ text = Tail(line)

Says(word, text) == \/ text = Meaning(word)
                    \/ \E i \in 1..Len(File) : Misread(File[i], word, text)

(* A client's answers are the file's meanings of its own words, one for    *)
(* each, in order: nothing is given to another client, and a word that got *)
(* no answer gets no other's.  Only where the file has a line that is      *)
(* misread as the very word, the answer may be that line's rest.  A        *)
(* duplicated datagram puts the client behind for good: from then on an    *)
(* answer is that of some earlier word.                                    *)
AnswersMatch ==
    \A c \in Clients : \A k \in 1..Len(got[c]) :
        \/ Says(asked[c][k], got[c][k])
        \/ c \in duplicated /\ \E j \in 1..k : Says(asked[c][j], got[c][k])

(* A client hangs only if one of its datagrams was lost or its word was    *)
(* empty.                                                                  *)
WordAnswered ==
    \A c \in Clients : c \in waiting ~>
        c \notin waiting \/ c \in lost \/ Last(asked[c]) = <<>>
=============================================================================
