---------------------------- MODULE SolvedServer ----------------------------
(***************************************************************************)
(* The solved server (blind/solvedserver.c) and the solvers that call it   *)
(* through blind/solvedclient.c.  The server is one thread: a round of its *)
(* loop is a select, a request handled to its end for each client that was *)
(* ready, and at most one accept.  It owns the solved file, so SolvedFile  *)
(* runs inside it with a single writer.  The server can be interrupted or  *)
(* killed, and started again; its clients then find their connection       *)
(* broken, each in the middle of whatever it was doing.                    *)
(***************************************************************************)
EXTENDS SolvedBytes, Sequences

CONSTANTS Client, MaxField, None, Srv,
          InitSizes         \* sizes the file may have when the server starts

ASSUME ServerAssumption ==
  /\ MaxField \in Nat /\ None \notin Client
  /\ InitSizes \subseteq {NoFile} \cup 0..MaxField

VARIABLES size, marked, pc, req, pos, acked   \* the file and its writer, see SolvedFile

fileVars == <<size, marked, pc, req, pos, acked>>

File == INSTANCE SolvedFile WITH Writer <- {Srv}

Field == 1..MaxField

VARIABLES
  up,         \* is the server running?
  backlog,    \* clients whose connection has not been accepted, in order
  clients,    \* clients on the server's list
  round,      \* clients found ready by the last select, not handled yet
  acceptable, \* did the last select find the listening socket ready?
  current,    \* the client whose "set" is being written to the file
  conn,       \* each client's fserver: "null", "open" or "broken"
  call,       \* each client's call in progress
  line,       \* the request in each client's socket
  reply,      \* the reply in each client's socket
  confirmed   \* history: fields whose "set" was answered "ok"

serverVars == <<up, backlog, clients, round, acceptable, current>>
clientVars == <<conn, call, line, reply, confirmed>>
vars == <<fileVars, serverVars, clientVars>>

\* A call remembers what was confirmed when it began.
Request == [op : {"get", "set", "getall"}, field : Field]
Call == [op : {"get", "set", "getall"}, field : Field,
         at : {"connect", "send", "wait"}, before : SUBSET Field]
Reply == [op : {"get", "set", "getall"}, field : Field, unsolved : SUBSET Field]

ASSUME NoneAssumption == None \notin Request \cup Call \cup Reply

TypeInv ==
  /\ File!TypeInv
  /\ up \in BOOLEAN
  /\ backlog \in Seq(Client) /\ clients \subseteq Client /\ round \subseteq clients
  /\ acceptable \in BOOLEAN
  /\ current \in Client \cup {None}
  /\ conn \in [Client -> {"null", "open", "broken"}]
  /\ call \in [Client -> Call \cup {None}]
  /\ line \in [Client -> Request \cup {None}]
  /\ reply \in [Client -> Reply \cup {None}]
  /\ confirmed \subseteq Field

Init ==
  /\ File!Init
  /\ up = TRUE
  /\ backlog = <<>> /\ clients = {} /\ round = {}
  /\ acceptable = FALSE
  /\ current = None
  /\ conn = [c \in Client |-> "null"]
  /\ call = [c \in Client |-> None]
  /\ line = [c \in Client |-> None]
  /\ reply = [c \in Client |-> None]
  /\ confirmed = {}

-----------------------------------------------------------------------------
(* The clients. *)

Begin(c, op, f) ==
  /\ call[c] = None
  /\ call' = [call EXCEPT ![c] =
                [op |-> op, field |-> f, at |-> "connect", before |-> confirmed]]
  /\ UNCHANGED <<fileVars, serverVars, conn, line, reply, confirmed>>

\* The three entry points.  A "getall" asks for the unsolved fields from f on.
solvedclient_get(c, f) == Begin(c, "get", f)
solvedclient_set(c, f) == Begin(c, "set", f)
solvedclient_get_fields(c, f) == Begin(c, "getall", f)

Failed(c) == call' = [call EXCEPT ![c] = None]

\* An existing connection is used as it is, even one the server has closed.
connect_to_server(c) ==
  /\ call[c] # None
  /\ call[c].at = "connect"
  /\ IF conn[c] # "null" \/ up
       THEN call' = [call EXCEPT ![c].at = "send"]
       ELSE Failed(c)
  /\ IF conn[c] = "null" /\ up
       THEN /\ conn' = [conn EXCEPT ![c] = "open"]
            /\ backlog' = Append(backlog, c)
       ELSE UNCHANGED <<conn, backlog>>
  /\ UNCHANGED <<fileVars, up, clients, round, acceptable, current,
                 line, reply, confirmed>>

\* A "set" that does not wait for the response.
Send_SetDoesNotWait(c) ==
  /\ call[c] # None
  /\ call[c].at = "send"
  /\ call' = [call EXCEPT ![c] = IF call[c].op = "set" THEN None ELSE [call[c] EXCEPT !.at = "wait"]]
  /\ line' = IF conn[c] = "open"
               THEN [line EXCEPT ![c] = [op |-> call[c].op, field |-> call[c].field]]
               ELSE line
  /\ UNCHANGED <<fileVars, serverVars, conn, reply, confirmed>>

\* fwrite and fflush.  The write on a broken connection may still succeed.
Send(c) ==
  /\ call[c] # None
  /\ call[c].at = "send"
  /\ call' = [call EXCEPT ![c].at = "wait"]
  /\ line' = IF conn[c] = "open"
               THEN [line EXCEPT ![c] = [op |-> call[c].op, field |-> call[c].field]]
               ELSE line
  /\ UNCHANGED <<fileVars, serverVars, conn, reply, confirmed>>

\* The write fails: only solvedclient_get closes the connection.
SendFails(c) ==
  /\ call[c] # None
  /\ call[c].at = "send"
  /\ conn[c] = "broken"
  /\ Failed(c)
  /\ conn' = IF call[c].op = "get" THEN [conn EXCEPT ![c] = "null"] ELSE conn
  /\ UNCHANGED <<fileVars, serverVars, line, reply, confirmed>>

\* fgets returns the reply.
Receive(c) ==
  /\ call[c] # None
  /\ call[c].at = "wait"
  /\ reply[c] # None
  /\ confirmed' = IF call[c].op = "set" THEN confirmed \cup {call[c].field} ELSE confirmed
  /\ reply' = [reply EXCEPT ![c] = None]
  /\ call' = [call EXCEPT ![c] = None]
  /\ UNCHANGED <<fileVars, serverVars, conn, line>>

\* fgets returns NULL: close, and fail.
ReceiveFails(c) ==
  /\ call[c] # None
  /\ call[c].at = "wait"
  /\ conn[c] = "broken"
  /\ reply[c] = None
  /\ Failed(c)
  /\ conn' = [conn EXCEPT ![c] = "null"]
  /\ UNCHANGED <<fileVars, serverVars, line, reply, confirmed>>

\* solvedclient_set_server(NULL), at the end of a run.
solvedclient_set_server(c) ==
  /\ call[c] = None
  /\ conn[c] = "open"
  /\ c \in clients
  /\ conn' = [conn EXCEPT ![c] = "null"]
  /\ clients' = clients \ {c}
  /\ round' = round \ {c}
  /\ UNCHANGED <<fileVars, up, backlog, acceptable, current, call, line, reply,
                 confirmed>>

-----------------------------------------------------------------------------
(* The server. *)

\* select(): the next round, once the last one is over.
Select ==
  /\ up
  /\ round = {} /\ current = None /\ ~acceptable
  /\ LET ready == {c \in clients : line[c] # None} IN
       /\ ready # {} \/ backlog # <<>>
       /\ round' = ready
       /\ acceptable' = (backlog # <<>>)
  /\ UNCHANGED <<fileVars, up, backlog, clients, current, clientVars>>

\* accept(), after the clients of the round.
Accept ==
  /\ up
  /\ round = {} /\ current = None /\ acceptable
  /\ acceptable' = FALSE
  /\ backlog' = Tail(backlog)
  /\ clients' = clients \cup {Head(backlog)}
  /\ UNCHANGED <<fileVars, up, round, current, clientVars>>

\* The unsolved fields a reply reports.
Unsolved(r) ==
  CASE r.op = "get" ->
         IF solvedfile_get(size, marked, r.field) = 1 THEN {} ELSE {r.field}
    [] r.op = "getall" -> solvedfile_getall(size, marked, r.field, MaxField, 0)
    [] r.op = "set" -> {}

Answer(c, r) ==
  reply' = [reply EXCEPT ![c] =
              [op |-> r.op, field |-> r.field, unsolved |-> Unsolved(r)]]

\* A client taken off the list with its connection left open.
Drop_WithoutClosing(c) ==
  /\ clients' = clients \ {c}
  /\ UNCHANGED conn

\* The server closes the connection of c and takes it off its list.
Drop(c) ==
  /\ conn' = [conn EXCEPT ![c] = "broken"]
  /\ clients' = clients \ {c}

\* handle_request of a "get" or a "getall": answered at once.
HandleRead(c) ==
  /\ up /\ current = None
  /\ c \in round
  /\ line[c] # None
  /\ line[c].op \in {"get", "getall"}
  /\ Answer(c, line[c])
  /\ line' = [line EXCEPT ![c] = None]
  /\ round' = round \ {c}
  /\ UNCHANGED <<fileVars, up, backlog, clients, acceptable, current, conn, call,
                 confirmed>>

\* The file cannot be read: no answer.
HandleReadFails(c) ==
  /\ up /\ current = None
  /\ c \in round
  /\ line[c] # None
  /\ line[c].op = "get"
  /\ Drop(c)
  /\ line' = [line EXCEPT ![c] = None]
  /\ round' = round \ {c}
  /\ UNCHANGED <<fileVars, up, backlog, acceptable, current, call, reply, confirmed>>

\* "ok" sent before the file is written.
HandleSet_AnswerFirst(c) ==
  /\ up /\ current = None
  /\ c \in round
  /\ line[c] # None
  /\ line[c].op = "set"
  /\ File!solvedfile_set(Srv, line[c].field)
  /\ Answer(c, line[c])
  /\ current' = c
  /\ round' = round \ {c}
  /\ UNCHANGED <<up, backlog, clients, acceptable, conn, call, line, confirmed>>

\* handle_request of a "set": solvedfile_set begins ...
HandleSet(c) ==
  /\ up /\ current = None
  /\ c \in round
  /\ line[c] # None
  /\ line[c].op = "set"
  /\ File!solvedfile_set(Srv, line[c].field)
  /\ current' = c
  /\ round' = round \ {c}
  /\ UNCHANGED <<up, backlog, clients, acceptable, clientVars>>

\* ... makes its system calls ...
WriteFile ==
  /\ up /\ current # None
  /\ File!SeekEnd(Srv) \/ File!WritePad(Srv) \/ File!WriteMark(Srv)
  /\ UNCHANGED <<serverVars, clientVars>>

\* ... and returns 0: "ok" ...
HandleSetDone(c) ==
  /\ up /\ current = c
  /\ File!Finish(Srv)
  /\ Answer(c, line[c])
  /\ line' = [line EXCEPT ![c] = None]
  /\ current' = None
  /\ UNCHANGED <<up, backlog, clients, round, acceptable, conn, call, confirmed>>

\* ... or -1: no answer.
HandleSetFails(c) ==
  /\ up /\ current = c
  /\ File!PadFails(Srv) \/ File!MarkFails(Srv)
  /\ Drop(c)
  /\ line' = [line EXCEPT ![c] = None]
  /\ current' = None
  /\ UNCHANGED <<up, backlog, round, acceptable, call, reply, confirmed>>

\* The process ends, whatever it was doing: interrupted (sighandler sets
\* bailout, and the loop ends at the next select) or killed.  What it has
\* already sent can still be read.
Stop ==
  /\ up
  /\ up' = FALSE
  /\ IF current # None THEN File!Crash(Srv) ELSE UNCHANGED fileVars
  /\ backlog' = <<>> /\ clients' = {} /\ round' = {}
  /\ acceptable' = FALSE
  /\ current' = None
  /\ conn' = [c \in Client |-> IF conn[c] = "null" THEN "null" ELSE "broken"]
  /\ line' = [c \in Client |-> None]
  /\ UNCHANGED <<call, reply, confirmed>>

\* main() up to the loop.
Start ==
  /\ ~up
  /\ up' = TRUE
  /\ UNCHANGED <<fileVars, backlog, clients, round, acceptable, current, clientVars>>

-----------------------------------------------------------------------------
ClientStep(c) ==
  \/ connect_to_server(c)
  \/ Send(c)
  \/ SendFails(c)
  \/ Receive(c)
  \/ ReceiveFails(c)

ClientCall(c) ==
  \/ \E f \in Field : solvedclient_get(c, f)
  \/ \E f \in Field : solvedclient_set(c, f)
  \/ \E f \in Field : solvedclient_get_fields(c, f)
  \/ solvedclient_set_server(c)

ServerStep ==
  \/ Select
  \/ Accept
  \/ WriteFile
  \/ \E c \in Client : HandleRead(c) \/ HandleSet(c) \/ HandleSetDone(c)

ServerFailure ==
  \/ \E c \in Client : HandleReadFails(c) \/ HandleSetFails(c)
  \/ Stop
  \/ Start

Next ==
  \/ \E c \in Client : ClientStep(c) \/ ClientCall(c)
  \/ ServerStep
  \/ ServerFailure

Spec == Init /\ [][Next]_vars

\* The server's loop and a client inside a call keep running.  Nothing says
\* that a server that has stopped is started again.
FairSpec ==
  /\ Spec
  /\ WF_vars(ServerStep)
  /\ \A c \in Client : WF_vars(ClientStep(c))

-----------------------------------------------------------------------------
\* A field whose "set" was answered "ok" is in the file from then on, though
\* the server may have been killed in any later (or the same) request and
\* started again.
ConfirmedMarked == confirmed \subseteq marked

\* No reader is told that a field is unsolved if that field was confirmed, to
\* anyone, before the reader's call began; and a "get" that answers "solved"
\* is right.
AnswersFresh ==
  \A c \in Client : reply[c] # None =>
    /\ reply[c].unsolved \cap call[c].before = {}
    /\ reply[c].op = "get" /\ reply[c].unsolved = {} => reply[c].field \in marked

\* A reply that waits in a socket answers the call in progress: no call that
\* failed leaves its reply to be read by the next one.
ReplyMatchesCall ==
  \A c \in Client : reply[c] # None =>
    /\ call[c] # None
    /\ call[c].at = "wait"
    /\ reply[c].op = call[c].op /\ reply[c].field = call[c].field

\* A call always returns, whatever becomes of the server.
CallEnds == \A c \in Client : call[c] # None ~> call[c] = None

\* To its clients, the server is the set of solved fields of SolvedSet.
Set == INSTANCE SolvedSet WITH solved <- marked, acked <- confirmed
ImplementsSet == Set!Spec

=============================================================================
