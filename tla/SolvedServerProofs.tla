------------------------- MODULE SolvedServerProofs -------------------------
(***************************************************************************)
(* Proofs about SolvedServer, for every set of clients and every number of *)
(* fields.  What the server does to the file is what one writer of         *)
(* SolvedFile may do, so the invariant of SolvedFileProofs holds of the    *)
(* file; the rest is about requests, replies and calls.                    *)
(***************************************************************************)
EXTENDS SolvedServer, TLAPS

FP == INSTANCE SolvedFileProofs WITH Writer <- {Srv}

-----------------------------------------------------------------------------
(* The file.                                                               *)

\* Everything the server does to the file is a step of the one writer.
LEMMA FileStep ==
  ASSUME TypeInv, [Next]_vars
  PROVE  [FP!Next]_(FP!vars)
<1> DEFINE W == [FP!Next]_(FP!vars)
<1> USE DEF FP!vars
<1>1. ASSUME UNCHANGED fileVars PROVE W
  BY <1>1 DEF fileVars
<1>2. ASSUME NEW c \in Client, HandleSet(c) PROVE W
  <2>1. line[c].field \in Field /\ File!solvedfile_set(Srv, line[c].field)
    BY <1>2 DEF HandleSet, TypeInv, Request
  <2>2. FP!solvedfile_set(Srv, line[c].field)
    BY <2>1 DEF File!solvedfile_set, FP!solvedfile_set, File!Open, FP!Open, FP!NoFile,
                File!NoFile
  <2> QED BY <2>1, <2>2 DEF FP!Next, FP!Call, FP!Field, Field
<1>3. ASSUME WriteFile PROVE W
  <2>1. FP!SeekEnd(Srv) \/ FP!WritePad(Srv) \/ FP!WriteMark(Srv)
    BY <1>3 DEF WriteFile, File!SeekEnd, FP!SeekEnd, File!WritePad, FP!WritePad,
                File!WriteMark, FP!WriteMark, File!Larger, FP!Larger
  <2> QED BY <2>1 DEF FP!Next, FP!Step
<1>4. ASSUME NEW c \in Client, HandleSetDone(c) PROVE W
  <2>1. FP!Finish(Srv)
    BY <1>4 DEF HandleSetDone, File!Finish, FP!Finish, File!Return, FP!Return,
                File!NoRequest, FP!NoRequest
  <2> QED BY <2>1 DEF FP!Next, FP!Step
<1>5. ASSUME NEW c \in Client, HandleSetFails(c) PROVE W
  <2>1. FP!PadFails(Srv) \/ FP!MarkFails(Srv)
    BY <1>5 DEF HandleSetFails, File!PadFails, FP!PadFails, File!MarkFails, FP!MarkFails,
                File!Return, FP!Return, File!NoRequest, FP!NoRequest
  <2> QED BY <2>1 DEF FP!Next, FP!Failure
<1>6. ASSUME Stop PROVE W
  <2>1. FP!Crash(Srv) \/ UNCHANGED fileVars
    BY <1>6 DEF Stop, File!Crash, FP!Crash, File!Return, FP!Return,
                File!NoRequest, FP!NoRequest
  <2> QED BY <1>1, <2>1 DEF FP!Next, FP!Failure
<1>7. ASSUME NEW c \in Client, ClientStep(c) \/ ClientCall(c) PROVE W
  <2>1. UNCHANGED fileVars
    BY <1>7 DEF ClientStep, ClientCall, connect_to_server, Send, SendFails, Receive,
                ReceiveFails, solvedclient_get, solvedclient_set,
                solvedclient_get_fields, solvedclient_set_server, Begin
  <2> QED BY <1>1, <2>1
<1>8. ASSUME NEW c \in Client, HandleRead(c) \/ HandleReadFails(c) PROVE W
  BY <1>1, <1>8 DEF HandleRead, HandleReadFails
<1>9. ASSUME Select \/ Accept \/ Start PROVE W
  BY <1>1, <1>9 DEF Select, Accept, Start
<1>10. ASSUME UNCHANGED vars PROVE W
  BY <1>1, <1>10 DEF vars
<1>11. W
  <2> HIDE DEF W
  <2> QED BY <1>2, <1>3, <1>4, <1>5, <1>6, <1>7, <1>8, <1>9, <1>10
          DEF Next, ServerStep, ServerFailure
<1> QED BY <1>11

\* A missing file has no marks, and neither has what lies past its end.
LEMMA MarkedInFile ==
  ASSUME FP!IInv
  PROVE  /\ size \in {-1} \cup 0..MaxField /\ marked \subseteq Field
         /\ \A f \in marked : f <= size
  BY DEF FP!IInv, FP!TypeInv, FP!MarksInFile, FP!NoFile, FP!Field, Field

\* What a reply reports as unsolved is not marked, and a "get" that reports
\* nothing asked for a marked field.
LEMMA UnsolvedRight ==
  ASSUME FP!IInv, NEW r \in Request
  PROVE  /\ Unsolved(r) \subseteq Field
         /\ Unsolved(r) \cap marked = {}
         /\ r.op = "get" /\ Unsolved(r) = {} => r.field \in marked
<1> USE ServerAssumption, MarkedInFile
<1>1. r.field \in Field /\ r.op \in {"get", "set", "getall"}
  BY DEF Request
<1>2. CASE r.op = "get"
  BY <1>1, <1>2 DEF Unsolved, solvedfile_get, Field
<1>3. CASE r.op = "getall"
  <2> DEFINE f == r.field
             S == solvedfile_getall(size, marked, f, MaxField, 0)
  <2>1. Unsolved(r) = S
    BY <1>3 DEF Unsolved
  <2>2. S \subseteq Field /\ S \cap marked = {}
    BY <1>1 DEF solvedfile_getall, solvedfile_getall_val, UpTo, PastTheEnd, NoFile, Field
  <2> QED BY <1>3, <2>1, <2>2
<1>4. CASE r.op = "set"
  BY <1>4 DEF Unsolved
<1> QED BY <1>1, <1>2, <1>3, <1>4

-----------------------------------------------------------------------------
(* The invariant. *)

\* A request in a socket is that of the call in progress, which waits for it.
LineMatches ==
  \A c \in Client : line[c] # None =>
    /\ call[c] # None /\ call[c].at = "wait"
    /\ conn[c] = "open" /\ reply[c] = None
    /\ line[c].op = call[c].op /\ line[c].field = call[c].field

\* The field being written is the one the current client asked for, and the
\* client is not handled again in this round.
Writing ==
  current # None =>
    /\ current \notin round
    /\ line[current] # None /\ line[current].op = "set"
    /\ req[Srv].fields = {line[current].field}

\* What is answered "ok" was acknowledged by solvedfile_set.
SetAcked ==
  /\ confirmed \subseteq acked
  /\ \A c \in Client : reply[c] # None /\ reply[c].op = "set" => reply[c].field \in acked

BeforeConfirmed == \A c \in Client : call[c] # None => call[c].before \subseteq confirmed

Acceptable == acceptable => backlog # <<>>

IInv ==
  /\ TypeInv /\ FP!IInv
  /\ LineMatches /\ ReplyMatchesCall /\ Writing
  /\ SetAcked /\ BeforeConfirmed /\ AnswersFresh /\ Acceptable

\* The file's part, and that nothing in it is taken back.
LEMMA FileKept ==
  ASSUME IInv, [Next]_vars
  PROVE  FP!IInv' /\ File!TypeInv' /\ marked \subseteq marked' /\ acked \subseteq acked'
<1>1. MaxField \in Nat /\ InitSizes \subseteq {FP!NoFile} \cup 0..MaxField
  BY ServerAssumption DEF NoFile, FP!NoFile
<1>2. [FP!Next]_(FP!vars)
  BY FileStep DEF IInv
<1>3. FP!IInv'
  BY <1>1, <1>2, FP!IInvStep DEF IInv
<1>4. marked \subseteq marked'
  BY <1>1, <1>2, FP!StepKeepsMarks DEF IInv
<1>5. acked \subseteq acked'
  BY <1>2 DEF FP!Next, FP!vars, FP!Call, FP!Step, FP!Failure, FP!solvedfile_set,
              FP!solvedfile_setsize, FP!solvedfile_set_array, FP!Open, FP!SeekEnd,
              FP!WritePad, FP!WriteMark, FP!Finish, FP!PadFails, FP!MarkFails, FP!Crash
<1>6. File!TypeInv'
  BY <1>3 DEF FP!IInv, FP!TypeInv, File!TypeInv, FP!NoFile, File!NoFile, FP!Field,
              File!Field, FP!Request, File!Request, FP!Op, File!Op
<1> QED BY <1>3, <1>4, <1>5, <1>6

LEMMA InitInvariant == Init => IInv
<1> SUFFICES ASSUME Init PROVE IInv
  OBVIOUS
<1>1. MaxField \in Nat /\ InitSizes \subseteq {FP!NoFile} \cup 0..MaxField
  BY ServerAssumption DEF NoFile, FP!NoFile
<1>2. FP!Init
  BY DEF Init, File!Init, FP!Init, File!Field, FP!Field, File!NoRequest, FP!NoRequest
<1>3. FP!IInv
  BY <1>1, <1>2, FP!IInvInit DEF FP!NoConcurrentPadding
<1>4. <<>> \in Seq(Client)
  OBVIOUS
<1>5. TypeInv
  <2>1. File!TypeInv
    BY <1>3 DEF FP!IInv, FP!TypeInv, File!TypeInv, FP!NoFile, File!NoFile, FP!Field,
                File!Field, FP!Request, File!Request, FP!Op, File!Op
  <2> QED BY <1>4, <2>1 DEF Init, TypeInv
<1> QED BY <1>3, <1>5
        DEF Init, IInv, LineMatches, ReplyMatchesCall, Writing, SetAcked,
            BeforeConfirmed, AnswersFresh, Acceptable

\* What stays of the invariant in a step that leaves the talk alone.
LEMMA TalkUnchanged ==
  ASSUME IInv, [Next]_vars, UNCHANGED clientVars
  PROVE  LineMatches' /\ ReplyMatchesCall' /\ SetAcked' /\ BeforeConfirmed' /\ AnswersFresh'
<1> USE DEF clientVars
<1>1. marked \subseteq marked' /\ acked \subseteq acked'
  BY FileKept
<1>2. LineMatches' /\ ReplyMatchesCall'
  BY DEF IInv, LineMatches, ReplyMatchesCall
<1>3. SetAcked' /\ BeforeConfirmed'
  BY <1>1 DEF IInv, SetAcked, BeforeConfirmed
<1>4. AnswersFresh'
  BY <1>1 DEF IInv, AnswersFresh
<1> QED BY <1>2, <1>3, <1>4

-----------------------------------------------------------------------------
(* The clients. *)

LEMMA BeginStep ==
  ASSUME IInv, [Next]_vars, NEW c \in Client, NEW f \in Field,
         NEW op \in {"get", "set", "getall"}, Begin(c, op, f)
  PROVE  IInv'
<1> DEFINE new == [op |-> op, field |-> f, at |-> "connect", before |-> confirmed]
<1>1. call' = [call EXCEPT ![c] = new] /\ UNCHANGED <<fileVars, serverVars, conn, line, reply, confirmed>>
  BY DEF Begin
<1>2. call[c] = None /\ line[c] = None /\ reply[c] = None
  BY DEF Begin, IInv, LineMatches, ReplyMatchesCall
<1>3. new \in Call
  BY DEF IInv, TypeInv, Call
<1>4. \A d \in Client : call'[d] = IF d = c THEN new ELSE call[d]
  BY <1>1 DEF IInv, TypeInv
<1>5. FP!IInv' /\ File!TypeInv' /\ marked \subseteq marked' /\ acked \subseteq acked'
  BY FileKept
<1>6. TypeInv'
  BY <1>1, <1>3, <1>5 DEF IInv, TypeInv, serverVars, fileVars
<1>7. LineMatches' /\ ReplyMatchesCall'
  BY <1>1, <1>2, <1>4 DEF IInv, LineMatches, ReplyMatchesCall
<1>8. Writing' /\ Acceptable'
  BY <1>1 DEF IInv, Writing, Acceptable, serverVars, fileVars
<1>9. SetAcked' /\ BeforeConfirmed'
  BY <1>1, <1>4, <1>5 DEF IInv, SetAcked, BeforeConfirmed
<1>10. AnswersFresh'
  BY <1>1, <1>2, <1>4, <1>5 DEF IInv, AnswersFresh
<1> QED BY <1>5, <1>6, <1>7, <1>8, <1>9, <1>10 DEF IInv

LEMMA SendStep ==
  ASSUME IInv, [Next]_vars, NEW c \in Client,
         connect_to_server(c) \/ Send(c)
  PROVE  IInv'
<1>1. FP!IInv' /\ marked \subseteq marked' /\ acked \subseteq acked' /\ File!TypeInv'
  BY FileKept
<1>2. call[c] # None /\ call[c].at # "wait" /\ line[c] = None /\ reply[c] = None
  BY DEF connect_to_server, Send, IInv, LineMatches, ReplyMatchesCall
<1>3. /\ \A d \in Client \ {c} : call'[d] = call[d] /\ line'[d] = line[d] /\ conn'[d] = conn[d]
      /\ UNCHANGED <<fileVars, up, clients, round, acceptable, current, reply, confirmed>>
  <2>1. CASE connect_to_server(c)
    BY <2>1 DEF connect_to_server, Failed, IInv, TypeInv
  <2>2. CASE Send(c)
    BY <2>2 DEF Send, serverVars, IInv, TypeInv
  <2> QED BY <2>1, <2>2
<1>4. TypeInv'
  <2>1. call' \in [Client -> Call \cup {None}]
    <3>1. call[c] \in Call
      BY <1>2 DEF IInv, TypeInv
    <3>2. \A a \in {"send", "wait"} : [call[c] EXCEPT !.at = a] \in Call
      BY <3>1 DEF Call
    <3>3. \/ call' = [call EXCEPT ![c] = None]
          \/ \E a \in {"send", "wait"} :
               call' = [call EXCEPT ![c] = [call[c] EXCEPT !.at = a]]
      BY DEF connect_to_server, Send, Failed
    <3> QED BY <3>2, <3>3 DEF IInv, TypeInv
  <2>2. line' \in [Client -> Request \cup {None}]
    BY <1>2 DEF connect_to_server, Send, Call, Request, IInv, TypeInv
  <2>3. conn' \in [Client -> {"null", "open", "broken"}] /\ backlog' \in Seq(Client)
    <3>1. backlog' = backlog \/ backlog' = Append(backlog, c)
      BY DEF connect_to_server, Send, serverVars
    <3>2. backlog' \in Seq(Client)
      BY <3>1 DEF IInv, TypeInv
    <3>3. conn' = conn \/ conn' = [conn EXCEPT ![c] = "open"]
      BY DEF connect_to_server, Send
    <3> QED BY <3>2, <3>3 DEF IInv, TypeInv
  <2> QED BY <1>1, <1>3, <2>1, <2>2, <2>3 DEF IInv, TypeInv
<1>5. line'[c] # None => /\ call'[c] # None /\ call'[c].at = "wait" /\ conn'[c] = "open"
                         /\ line'[c].op = call'[c].op /\ line'[c].field = call'[c].field
  <2>1. CASE connect_to_server(c)
    BY <1>2, <2>1 DEF connect_to_server
  <2>2. CASE Send(c)
    <3>1. call[c] \in Call
      BY <1>2 DEF IInv, TypeInv
    <3>2. call'[c] = [call[c] EXCEPT !.at = "wait"] /\ call'[c] \in Call
      BY <2>2, <3>1 DEF Send, Call, IInv, TypeInv
    <3>3. call'[c] # None
      BY <3>2, NoneAssumption
    <3>4. conn' = conn /\ (line'[c] # None =>
             conn[c] = "open" /\ line'[c] = [op |-> call[c].op, field |-> call[c].field])
      BY <1>2, <2>2 DEF Send, IInv, TypeInv
    <3> QED BY <3>1, <3>2, <3>3, <3>4 DEF Call
  <2> QED BY <2>1, <2>2
<1>6. LineMatches' /\ ReplyMatchesCall'
  BY <1>2, <1>3, <1>5 DEF IInv, LineMatches, ReplyMatchesCall
<1>7. Acceptable'
  BY <1>3 DEF connect_to_server, Send, serverVars, IInv, TypeInv, Acceptable
<1>8. Writing'
  <2>1. current # c
    BY <1>2, ServerAssumption DEF IInv, Writing
  <2> QED BY <1>3, <2>1 DEF IInv, TypeInv, Writing, fileVars
<1>9. call'[c] = None \/ (call'[c] # None /\ call'[c].before = call[c].before)
  BY <1>2 DEF connect_to_server, Send, Failed, Call, IInv, TypeInv
<1>10. SetAcked' /\ BeforeConfirmed'
  BY <1>1, <1>2, <1>3, <1>9 DEF IInv, SetAcked, BeforeConfirmed
<1>11. AnswersFresh'
  BY <1>1, <1>2, <1>3 DEF IInv, AnswersFresh
<1> QED BY <1>1, <1>4, <1>6, <1>7, <1>8, <1>10, <1>11 DEF IInv

\* A call that fails leaves no request and no reply behind.
LEMMA FailStep ==
  ASSUME IInv, [Next]_vars, NEW c \in Client, SendFails(c) \/ ReceiveFails(c)
  PROVE  IInv'
<1>1. FP!IInv' /\ marked \subseteq marked' /\ acked \subseteq acked' /\ File!TypeInv'
  BY FileKept
<1>2. line[c] = None /\ reply[c] = None
  BY DEF SendFails, ReceiveFails, IInv, LineMatches, ReplyMatchesCall
<1>3. /\ call' = [call EXCEPT ![c] = None]
      /\ \A d \in Client \ {c} : conn'[d] = conn[d]
      /\ conn' \in [Client -> {"null", "open", "broken"}]
      /\ UNCHANGED <<fileVars, serverVars, line, reply, confirmed>>
  BY DEF SendFails, ReceiveFails, Failed, IInv, TypeInv
<1>4. \A d \in Client : call'[d] = IF d = c THEN None ELSE call[d]
  BY <1>3 DEF IInv, TypeInv
<1>5. TypeInv'
  BY <1>1, <1>3 DEF IInv, TypeInv, serverVars
<1>6. LineMatches' /\ ReplyMatchesCall'
  BY <1>2, <1>3, <1>4 DEF IInv, LineMatches, ReplyMatchesCall
<1>7. Writing' /\ Acceptable'
  BY <1>3 DEF IInv, Writing, Acceptable, serverVars, fileVars
<1>8. SetAcked' /\ BeforeConfirmed'
  BY <1>1, <1>3, <1>4 DEF IInv, SetAcked, BeforeConfirmed
<1>9. AnswersFresh'
  BY <1>1, <1>2, <1>3, <1>4 DEF IInv, AnswersFresh
<1> QED BY <1>1, <1>5, <1>6, <1>7, <1>8, <1>9 DEF IInv

LEMMA ReceiveStep ==
  ASSUME IInv, [Next]_vars, NEW c \in Client, Receive(c)
  PROVE  IInv'
<1>1. FP!IInv' /\ marked \subseteq marked' /\ acked \subseteq acked' /\ File!TypeInv'
  BY FileKept
<1>2. /\ call[c] # None /\ reply[c] # None /\ line[c] = None
      /\ reply[c].op = call[c].op /\ reply[c].field = call[c].field
  BY DEF Receive, IInv, LineMatches, ReplyMatchesCall
<1>3. /\ call' = [call EXCEPT ![c] = None] /\ reply' = [reply EXCEPT ![c] = None]
      /\ UNCHANGED <<fileVars, serverVars, conn, line>>
  BY DEF Receive
<1>4. \A d \in Client : /\ call'[d] = IF d = c THEN None ELSE call[d]
                        /\ reply'[d] = IF d = c THEN None ELSE reply[d]
  BY <1>3 DEF IInv, TypeInv
<1>5. /\ confirmed \subseteq confirmed' /\ confirmed' \subseteq Field
      /\ confirmed' \subseteq acked
  BY <1>2 DEF Receive, Call, IInv, TypeInv, SetAcked
<1>6. TypeInv'
  BY <1>1, <1>3, <1>5 DEF IInv, TypeInv, serverVars
<1>7. LineMatches' /\ ReplyMatchesCall'
  BY <1>2, <1>3, <1>4 DEF IInv, LineMatches, ReplyMatchesCall
<1>8. Writing' /\ Acceptable'
  BY <1>3 DEF IInv, Writing, Acceptable, serverVars, fileVars
<1>9. SetAcked' /\ BeforeConfirmed'
  BY <1>1, <1>4, <1>5 DEF IInv, SetAcked, BeforeConfirmed
<1>10. AnswersFresh'
  BY <1>1, <1>4 DEF IInv, AnswersFresh
<1> QED BY <1>1, <1>6, <1>7, <1>8, <1>9, <1>10 DEF IInv

LEMMA CloseStep ==
  ASSUME IInv, [Next]_vars, NEW c \in Client, solvedclient_set_server(c)
  PROVE  IInv'
<1>1. FP!IInv' /\ marked \subseteq marked' /\ acked \subseteq acked' /\ File!TypeInv'
  BY FileKept
<1>2. /\ call[c] = None /\ line[c] = None /\ reply[c] = None
      /\ \A d \in Client \ {c} : conn'[d] = conn[d]
      /\ conn' \in [Client -> {"null", "open", "broken"}]
      /\ clients' = clients \ {c} /\ round' = round \ {c}
      /\ UNCHANGED <<fileVars, up, backlog, acceptable, current, call, line, reply, confirmed>>
  BY DEF solvedclient_set_server, IInv, TypeInv, LineMatches, ReplyMatchesCall
<1>3. TypeInv'
  BY <1>1, <1>2 DEF IInv, TypeInv
<1>4. LineMatches' /\ ReplyMatchesCall'
  BY <1>2 DEF IInv, LineMatches, ReplyMatchesCall
<1>5. Writing' /\ Acceptable'
  BY <1>2 DEF IInv, Writing, Acceptable, fileVars
<1>6. SetAcked' /\ BeforeConfirmed' /\ AnswersFresh'
  BY <1>1, <1>2 DEF IInv, SetAcked, BeforeConfirmed, AnswersFresh
<1> QED BY <1>1, <1>3, <1>4, <1>5, <1>6 DEF IInv

-----------------------------------------------------------------------------
(* The server. *)

\* Select, accept and start: nothing is said and nothing written.
LEMMA LoopStep ==
  ASSUME IInv, [Next]_vars, Select \/ Accept \/ Start
  PROVE  IInv'
<1>1. FP!IInv' /\ File!TypeInv'
  BY FileKept
<1>2. UNCHANGED <<fileVars, current, clientVars>>
  BY DEF Select, Accept, Start
<1>3. /\ up' \in BOOLEAN /\ backlog' \in Seq(Client) /\ clients' \subseteq Client
      /\ round' \subseteq clients' /\ acceptable' \in BOOLEAN /\ Acceptable'
  <2>1. CASE Select
    BY <2>1 DEF Select, Acceptable, IInv, TypeInv
  <2>2. CASE Accept
    <3>1. backlog # <<>> /\ backlog \in Seq(Client)
      BY <2>2 DEF Accept, Acceptable, IInv, TypeInv
    <3>2. Head(backlog) \in Client /\ Tail(backlog) \in Seq(Client)
      BY <3>1
    <3> QED BY <2>2, <3>2 DEF Accept, Acceptable, IInv, TypeInv
  <2>3. CASE Start
    BY <2>3 DEF Start, Acceptable, IInv, TypeInv
  <2> QED BY <2>1, <2>2, <2>3
<1>4. TypeInv'
  BY <1>1, <1>2, <1>3 DEF IInv, TypeInv, clientVars
<1>5. LineMatches' /\ ReplyMatchesCall' /\ SetAcked' /\ BeforeConfirmed' /\ AnswersFresh'
  BY <1>2, TalkUnchanged
<1>6. Writing'
  <2>1. current # None => UNCHANGED round
    BY DEF Select, Accept, Start
  <2> QED BY <1>2, <2>1 DEF IInv, Writing, clientVars, fileVars
<1> QED BY <1>1, <1>3, <1>4, <1>5, <1>6 DEF IInv

\* What remains to be shown of a step that answers the request of client c.
LEMMA AnswerStep ==
  ASSUME IInv, [Next]_vars, NEW c \in Client, line[c] # None, Answer(c, line[c]),
         line' = [line EXCEPT ![c] = None], UNCHANGED <<conn, call, confirmed>>,
         line[c].op = "set" => line[c].field \in acked'
  PROVE  /\ LineMatches' /\ ReplyMatchesCall' /\ SetAcked' /\ BeforeConfirmed'
         /\ AnswersFresh'
         /\ line' \in [Client -> Request \cup {None}]
         /\ reply' \in [Client -> Reply \cup {None}]
<1> DEFINE r == line[c]
           answer == [op |-> r.op, field |-> r.field, unsolved |-> Unsolved(r)]
<1>1. marked \subseteq marked' /\ acked \subseteq acked'
  BY FileKept
<1>2. r \in Request
  BY DEF IInv, TypeInv
<1>3. /\ Unsolved(r) \subseteq Field /\ Unsolved(r) \cap marked = {}
      /\ r.op = "get" /\ Unsolved(r) = {} => r.field \in marked
  BY <1>2, UnsolvedRight DEF IInv
<1>4. answer \in Reply
  BY <1>2, <1>3 DEF Request, Reply
<1>5. reply' = [reply EXCEPT ![c] = answer]
  BY DEF Answer
<1>6. \A d \in Client : /\ reply'[d] = IF d = c THEN answer ELSE reply[d]
                        /\ line'[d] = IF d = c THEN None ELSE line[d]
  BY <1>5 DEF IInv, TypeInv
<1>7. /\ call[c] # None /\ call[c].at = "wait"
      /\ r.op = call[c].op /\ r.field = call[c].field
  BY DEF IInv, LineMatches
<1>8. /\ line' \in [Client -> Request \cup {None}]
      /\ reply' \in [Client -> Reply \cup {None}]
  BY <1>4, <1>5 DEF IInv, TypeInv
<1> HIDE DEF r
<1>9. LineMatches' /\ ReplyMatchesCall'
  BY <1>6, <1>7 DEF IInv, LineMatches, ReplyMatchesCall
<1>10. SetAcked' /\ BeforeConfirmed'
  BY <1>1, <1>6 DEF IInv, SetAcked, BeforeConfirmed, r
<1>11. AnswersFresh'
  <2>1. call[c].before \subseteq confirmed /\ confirmed \subseteq acked /\ acked \subseteq marked
    BY <1>7 DEF IInv, BeforeConfirmed, SetAcked, FP!IInv, FP!AckedMarked
  <2>2. Unsolved(r) \cap call[c].before = {}
    BY <1>3, <2>1
  <2> QED BY <1>1, <1>3, <1>6, <2>2 DEF IInv, AnswersFresh
<1> QED BY <1>8, <1>9, <1>10, <1>11

LEMMA HandleReadStep ==
  ASSUME IInv, [Next]_vars, NEW c \in Client, HandleRead(c)
  PROVE  IInv'
<1>1. FP!IInv' /\ File!TypeInv'
  BY FileKept
<1>2. /\ LineMatches' /\ ReplyMatchesCall' /\ SetAcked' /\ BeforeConfirmed' /\ AnswersFresh'
      /\ line' \in [Client -> Request \cup {None}]
      /\ reply' \in [Client -> Reply \cup {None}]
  BY AnswerStep DEF HandleRead
<1>3. TypeInv'
  BY <1>1, <1>2 DEF HandleRead, IInv, TypeInv
<1>4. Writing' /\ Acceptable'
  BY DEF HandleRead, IInv, Writing, Acceptable
<1> QED BY <1>1, <1>2, <1>3, <1>4 DEF IInv

LEMMA HandleSetDoneStep ==
  ASSUME IInv, [Next]_vars, NEW c \in Client, HandleSetDone(c)
  PROVE  IInv'
<1>1. FP!IInv' /\ File!TypeInv'
  BY FileKept
<1>2. line[c] # None /\ req[Srv].fields = {line[c].field}
  BY ServerAssumption DEF HandleSetDone, IInv, Writing
<1>3. line[c].field \in acked'
  BY <1>2 DEF HandleSetDone, File!Finish
<1>4. /\ LineMatches' /\ ReplyMatchesCall' /\ SetAcked' /\ BeforeConfirmed' /\ AnswersFresh'
      /\ line' \in [Client -> Request \cup {None}]
      /\ reply' \in [Client -> Reply \cup {None}]
  BY <1>2, <1>3, AnswerStep DEF HandleSetDone
<1>5. TypeInv'
  BY <1>1, <1>4 DEF HandleSetDone, IInv, TypeInv
<1>6. Writing' /\ Acceptable'
  BY DEF HandleSetDone, IInv, Writing, Acceptable
<1> QED BY <1>1, <1>4, <1>5, <1>6 DEF IInv

\* What remains to be shown of a step that breaks connections and takes the
\* requests out of them.
LEMMA BreakStep ==
  ASSUME IInv, [Next]_vars, UNCHANGED <<call, reply, confirmed>>,
         \A d \in Client : line'[d] = None \/ (line'[d] = line[d] /\ conn'[d] = conn[d])
  PROVE  LineMatches' /\ ReplyMatchesCall' /\ SetAcked' /\ BeforeConfirmed' /\ AnswersFresh'
<1>1. marked \subseteq marked' /\ acked \subseteq acked'
  BY FileKept
<1>2. LineMatches' /\ ReplyMatchesCall'
  BY DEF IInv, LineMatches, ReplyMatchesCall
<1>3. SetAcked' /\ BeforeConfirmed' /\ AnswersFresh'
  BY <1>1 DEF IInv, SetAcked, BeforeConfirmed, AnswersFresh
<1> QED BY <1>2, <1>3

LEMMA DropStep ==
  ASSUME IInv, [Next]_vars, NEW c \in Client, HandleReadFails(c) \/ HandleSetFails(c)
  PROVE  IInv'
<1>1. FP!IInv' /\ File!TypeInv'
  BY FileKept
<1>2. /\ line' = [line EXCEPT ![c] = None] /\ conn' = [conn EXCEPT ![c] = "broken"]
      /\ clients' = clients \ {c} /\ current' = None
      /\ UNCHANGED <<up, backlog, acceptable, call, reply, confirmed>>
      /\ round' \subseteq round
  BY DEF HandleReadFails, HandleSetFails, Drop
<1>3. c \notin round'
  BY ServerAssumption DEF HandleReadFails, HandleSetFails, IInv, Writing
<1>4. TypeInv'
  BY <1>1, <1>2, <1>3 DEF IInv, TypeInv
<1>5. LineMatches' /\ ReplyMatchesCall' /\ SetAcked' /\ BeforeConfirmed' /\ AnswersFresh'
  BY <1>2, BreakStep DEF IInv, TypeInv
<1>6. Writing' /\ Acceptable'
  BY <1>2 DEF IInv, Writing, Acceptable
<1> QED BY <1>1, <1>4, <1>5, <1>6 DEF IInv

LEMMA StopStep ==
  ASSUME IInv, [Next]_vars, Stop
  PROVE  IInv'
<1>1. FP!IInv' /\ File!TypeInv'
  BY FileKept
<1>2. <<>> \in Seq(Client)
  OBVIOUS
<1>3. TypeInv'
  BY <1>1, <1>2 DEF Stop, IInv, TypeInv
<1>4. LineMatches' /\ ReplyMatchesCall' /\ SetAcked' /\ BeforeConfirmed' /\ AnswersFresh'
  BY BreakStep DEF Stop
<1>5. Writing' /\ Acceptable'
  BY DEF Stop, Writing, Acceptable
<1> QED BY <1>1, <1>3, <1>4, <1>5 DEF IInv

\* The steps of a "set" up to its end.
LEMMA WriteStep ==
  ASSUME IInv, [Next]_vars, WriteFile \/ \E c \in Client : HandleSet(c)
  PROVE  IInv'
<1>1. FP!IInv' /\ File!TypeInv'
  BY FileKept
<1>2. UNCHANGED clientVars
  BY DEF WriteFile, HandleSet
<1>3. TypeInv'
  <2>1. CASE WriteFile
    BY <1>1, <1>2, <2>1 DEF WriteFile, serverVars, clientVars, IInv, TypeInv
  <2>2. ASSUME NEW c \in Client, HandleSet(c) PROVE TypeInv'
    BY <1>1, <1>2, <2>2 DEF HandleSet, clientVars, IInv, TypeInv
  <2> QED BY <2>1, <2>2
<1>4. LineMatches' /\ ReplyMatchesCall' /\ SetAcked' /\ BeforeConfirmed' /\ AnswersFresh'
  BY <1>2, TalkUnchanged
<1>5. Acceptable'
  BY DEF WriteFile, HandleSet, serverVars, IInv, Acceptable
<1>6. req \in [{Srv} -> File!Request]
  BY DEF IInv, TypeInv, File!TypeInv
<1>7. Writing'
  <2>1. CASE WriteFile
    <3>1. req'[Srv].fields = req[Srv].fields
      BY <1>6, <2>1 DEF WriteFile, File!SeekEnd, File!WritePad, File!WriteMark, File!Request
    <3> QED BY <1>2, <2>1, <3>1 DEF WriteFile, serverVars, clientVars, IInv, Writing
  <2>2. ASSUME NEW c \in Client, HandleSet(c) PROVE Writing'
    <3>1. req'[Srv].fields = {line[c].field}
      BY <1>6, <2>2 DEF HandleSet, File!solvedfile_set, File!Open
    <3> QED BY <1>2, <2>2, <3>1 DEF HandleSet, clientVars, Writing
  <2> QED BY <2>1, <2>2
<1> QED BY <1>1, <1>3, <1>4, <1>5, <1>7 DEF IInv

-----------------------------------------------------------------------------
(* The theorems. *)

LEMMA NextInvariant == ASSUME IInv, [Next]_vars PROVE IInv'
<1>1. ASSUME NEW c \in Client, ClientStep(c) PROVE IInv'
  BY <1>1, SendStep, FailStep, ReceiveStep DEF ClientStep
<1>2. ASSUME NEW c \in Client, ClientCall(c) PROVE IInv'
  <2>1. ASSUME NEW f \in Field,
               solvedclient_get(c, f) \/ solvedclient_set(c, f) \/ solvedclient_get_fields(c, f)
        PROVE  IInv'
    BY <2>1, BeginStep DEF solvedclient_get, solvedclient_set, solvedclient_get_fields
  <2> QED BY <1>2, <2>1, CloseStep DEF ClientCall
<1>3. ASSUME ServerStep PROVE IInv'
  BY <1>3, LoopStep, WriteStep, HandleReadStep, HandleSetDoneStep DEF ServerStep
<1>4. ASSUME ServerFailure PROVE IInv'
  BY <1>4, LoopStep, DropStep, StopStep DEF ServerFailure
<1>5. ASSUME UNCHANGED vars PROVE IInv'
  <2>1. UNCHANGED <<fileVars, serverVars, clientVars>>
    BY <1>5 DEF vars
  <2>2. FP!IInv' /\ File!TypeInv'
    BY FileKept
  <2>3. LineMatches' /\ ReplyMatchesCall' /\ SetAcked' /\ BeforeConfirmed' /\ AnswersFresh'
    BY <2>1, TalkUnchanged
  <2>4. TypeInv' /\ Writing' /\ Acceptable'
    BY <2>1, <2>2
    DEF fileVars, serverVars, clientVars, IInv, TypeInv, Writing, Acceptable
  <2> QED BY <2>2, <2>3, <2>4 DEF IInv
<1> QED BY <1>1, <1>2, <1>3, <1>4, <1>5 DEF Next

LEMMA Invariant == Spec => []IInv
<1>1. IInv /\ [Next]_vars => IInv'
  BY NextInvariant
<1> QED BY InitInvariant, <1>1, PTL DEF Spec

\* The server, its clients and their connections have their types in every
\* state, for any number of clients and whatever file the server starts with.
THEOREM ServerTypeCorrect == Spec => []TypeInv
<1>1. IInv => TypeInv
  BY DEF IInv
<1> QED BY Invariant, <1>1, PTL

\* A field whose "set" was answered "ok" stays in the file, whatever fails and
\* whenever the server is stopped and started again.
THEOREM ConfirmedStaysMarked == Spec => []ConfirmedMarked
<1>1. IInv => ConfirmedMarked
  BY DEF IInv, SetAcked, ConfirmedMarked, FP!IInv, FP!AckedMarked
<1> QED BY Invariant, <1>1, PTL

\* No reader is told that a field is unsolved if it was confirmed to anyone
\* before the reader's call began.
THEOREM AnswersAreFresh == Spec => []AnswersFresh
<1>1. IInv => AnswersFresh
  BY DEF IInv
<1> QED BY Invariant, <1>1, PTL

\* The reply that waits in a socket is that of the call in progress, after any
\* sequence of failed calls, broken connections and restarts.
THEOREM RepliesMatchCalls == Spec => []ReplyMatchesCall
<1>1. IInv => ReplyMatchesCall
  BY DEF IInv
<1> QED BY Invariant, <1>1, PTL

\* To its clients, the server that loses connections, is killed in the middle of
\* a write and started again is the set of solved fields that only grows.
THEOREM ServerImplementsSet == Spec => ImplementsSet
<1>1. Init => Set!Init
  <2> SUFFICES ASSUME Init PROVE Set!Init
    OBVIOUS
  <2>1. marked \subseteq Field
    BY InitInvariant, MarkedInFile DEF IInv
  <2> QED BY <2>1 DEF Init, Set!Init
<1>2. ASSUME IInv, [Next]_vars PROVE [Set!Next]_(Set!vars)
  <2> USE DEF Set!vars
  <2>1. marked \subseteq marked'
    BY <1>2, FileKept
  <2>2. confirmed \subseteq marked
    BY <1>2 DEF IInv, SetAcked, FP!IInv, FP!AckedMarked
  <2>3. ASSUME NEW c \in Client, Receive(c) PROVE [Set!Next]_(Set!vars)
    <3>1. /\ UNCHANGED fileVars
          /\ confirmed' = IF call[c].op = "set" THEN confirmed \cup {call[c].field}
                                                ELSE confirmed
          /\ call[c] # None /\ call[c].op = reply[c].op /\ call[c].field = reply[c].field
      BY <1>2, <2>3 DEF Receive, IInv, ReplyMatchesCall
    <3>2. call[c].field \in Field
      BY <1>2, <3>1 DEF IInv, TypeInv, Call
    <3>3. call[c].op = "set" => call[c].field \in marked
      BY <1>2, <2>3, <3>1 DEF Receive, IInv, SetAcked, FP!IInv, FP!AckedMarked
    <3>4. CASE call[c].op = "set"
      <4>1. Set!Acknowledge({call[c].field})
        BY <3>1, <3>3, <3>4 DEF Set!Acknowledge, fileVars
      <4> QED BY <3>2, <4>1 DEF Set!Next
    <3> QED BY <3>1, <3>4 DEF fileVars
  <2>4. ASSUME WriteFile PROVE [Set!Next]_(Set!vars)
    <3>1. UNCHANGED confirmed
      BY <2>4 DEF WriteFile, clientVars
    <3>2. CASE File!SeekEnd(Srv) \/ File!WritePad(Srv)
      <4>1. marked' \subseteq marked
        BY <3>2 DEF File!SeekEnd, File!WritePad
      <4> QED BY <2>1, <3>1, <4>1
    <3>3. CASE File!WriteMark(Srv)
      <4>1. PICK f \in req[Srv].todo : marked' = marked \cup {f}
        BY <3>3 DEF File!WriteMark
      <4>2. f \in Field
        BY <1>2, <4>1 DEF IInv, TypeInv, File!TypeInv, File!Request, File!Field, Field
      <4> QED BY <3>1, <4>1, <4>2 DEF Set!Next, Set!Mark
    <3> QED BY <2>4, <3>2, <3>3 DEF WriteFile
  <2>5. ASSUME NEW c \in Client,
               \/ ClientCall(c) \/ connect_to_server(c) \/ Send(c)
               \/ SendFails(c) \/ ReceiveFails(c)
        PROVE  UNCHANGED <<marked, confirmed>>
    BY <2>5 DEF ClientCall, connect_to_server, Send, SendFails, ReceiveFails,
                solvedclient_get, solvedclient_set, solvedclient_get_fields,
                solvedclient_set_server, Begin, fileVars
  <2>6. ASSUME NEW c \in Client,
               \/ HandleRead(c) \/ HandleReadFails(c)
               \/ HandleSet(c) \/ HandleSetDone(c) \/ HandleSetFails(c)
        PROVE  UNCHANGED <<marked, confirmed>>
    BY <2>6 DEF HandleRead, HandleReadFails, HandleSet, HandleSetDone, HandleSetFails,
                File!solvedfile_set, File!Open, File!Finish, File!PadFails,
                File!MarkFails, fileVars, clientVars
  <2>7. ASSUME Select \/ Accept \/ Start \/ Stop \/ UNCHANGED vars
        PROVE  UNCHANGED <<marked, confirmed>>
    BY <2>7 DEF Select, Accept, Start, Stop, File!Crash, vars, fileVars, clientVars
  <2> QED BY <1>2, <2>3, <2>4, <2>5, <2>6, <2>7
          DEF Next, ClientStep, ServerStep, ServerFailure
<1>3. IInv /\ [Next]_vars => [Set!Next]_(Set!vars)
  BY <1>2
<1> QED BY Invariant, <1>1, <1>3, PTL DEF Spec, ImplementsSet, Set!Spec

=============================================================================
