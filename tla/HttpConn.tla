------------------------------ MODULE HttpConn ------------------------------
(***************************************************************************)
(* A connection from its requests to its responses: the parser of          *)
(* HttpParse and the writer of HttpWrite on one Http_Connect object.       *)
(* Process() joins them, Write() hands back to the parser by init(), and   *)
(* a failure of either closes the connection for both.  The object is used *)
(* for one connection after another.                                       *)
(***************************************************************************)
EXTENDS HttpParse, HttpWrite

connVars == <<parseVars, writeVars>>

Init == ParseInit /\ WriteInit

Open == ParserOpens /\ Opens

Client ==
  \/ (\E r \in Requests : Asks(r)) /\ AsksAgain
  \/ (\E n \in 1..READ_BUFF_SIZE : Sends(n)) /\ UNCHANGED writeVars

\* The writer has nothing to do with the connection that is closed.
WriterCloses == wpc' = "closed" /\ UNCHANGED <<windowVars, fileVars, outVars, lost>>

Read ==
  \/ ReadAll /\ UNCHANGED writeVars
  \/ ReadFails /\ WriterCloses

Parse == ParseStep /\ UNCHANGED writeVars

\* Process() with a verdict.  do_request() has looked for a file unless the request is bad.
Respond ==
  /\ pc = "answer"
  /\ \E h \in Heads :
       \/ /\ RespondPage(h)
          /\ verdict = "BAD_REQUEST" => m_file_stat' = m_file_stat
          /\ UNCHANGED parseVars
       \/ /\ verdict = "GET_REQUEST"
          /\ \E n \in Files : RespondFile(h, n)
          /\ UNCHANGED parseVars
       \/ /\ verdict = "GET_REQUEST"
          /\ RespondNothing(h)
          /\ ParserCloses

\* Write(): when all is sent, m_link decides.
Send ==
  \/ \E t \in Takes :
       /\ Writev(t, m_link)
       /\ CASE wpc' = "idle"   -> Replied
            [] wpc' = "closed" -> ParserCloses
            [] OTHER           -> UNCHANGED parseVars
  \/ (Stalls \/ PrintsFailedMapping) /\ UNCHANGED parseVars
  \/ Fails /\ ParserCloses

\* The loop learns of it when it waits for the descriptor.
HangUp ==
  /\ pc = "read" \/ wpc = "ready"
  /\ HangsUp /\ ParserCloses

Next == Open \/ Client \/ Read \/ Parse \/ Respond \/ Send \/ HangUp

Spec == Init /\ [][Next]_connVars

(* The server goes on with what it has.  Clients owe it nothing but to read what they  *)
(* are sent: EPOLLOUT comes in the end, and only with room for a byte, so that a        *)
(* response that stalls again and again still moves.                                   *)
FairSpec ==
  /\ Spec
  /\ WF_connVars(Read) /\ WF_connVars(Parse) /\ WF_connVars(Respond) /\ WF_connVars(Send)

-----------------------------------------------------------------------------

\* All of a well-ended request that fits the buffer has been sent.
Asked ==
  /\ request # None /\ pc # "closed"
  /\ sent = Len(Text(request)) /\ sent <= READ_BUFF_SIZE
  /\ request.eol = "CRLF"

\* The request is answered or its connection closed.  (Write() may send nothing for ever
\* after its second stop inside the header, and a failed mapping or a URL without a path
\* ends the server.)
Over == request = None \/ pc \in {"closed", "crashed"} \/ headCuts = 2 \/ wpc = "crashed"

(* README.md:41: parser and writer together bring every request to a response or to   *)
(* the end of its connection, on kept connections too, however it came in pieces and  *)
(* the response went out in pieces, as long as the client reads it; except when a      *)
(* piece ended inside the body.                                                        *)
RequestConcluded == Asked /\ ~bodyCut ~> Over

(* http_connect.cpp:137: incomplete data, go on receiving.  What has been received so *)
(* far does not keep a request with a body from being answered in the end.            *)
BodyConcluded == Asked ~> Over
=============================================================================
