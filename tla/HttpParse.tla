----------------------------- MODULE HttpParse -----------------------------
(***************************************************************************)
(* The request parser of a connection (http_connect.cpp): Read_once()      *)
(* appends what has arrived to m_read_buf, process_read() takes lines out  *)
(* of it and keeps its place until the next bytes come.                    *)
(*                                                                         *)
(* A request is its request line, header lines and body.  A symbol of its  *)
(* text is a line without its end, a CR, an LF or a byte of the body, so   *)
(* that a request can be cut between any two.  The client waits for the    *)
(* response before it asks again.  Positions in m_read_buf count from 0.   *)
(***************************************************************************)
EXTENDS Integers, Sequences

CONSTANTS
  READ_BUFF_SIZE,
  Requests,        \* what clients may send, see IsRequest
  None             \* no request, nullptr

CR == <<"CR", 0>>
LF == <<"LF", 0>>
NUL == <<"NUL", 0>>
KeepAlive == <<"Connection: keep-alive", 0>>
Other == <<"Host", 0>>
ContentLength(n) == <<"Content-length", n>>

SetOf(s) == {s[i] : i \in 1..Len(s)}

\* A request: BAD has a malformed request line, NOPATH one whose absolute URL has no path
\* (GET http://host HTTP/1.1); eol says how that line ends.
IsRequest(r) ==
  /\ r.method \in {"GET", "POST", "BAD", "NOPATH"} /\ r.eol \in {"CRLF", "LF"}
  /\ r.body \in Nat
  /\ r.headers \in Seq({KeepAlive, Other, ContentLength(r.body)})
  /\ r.body > 0 <=> ContentLength(r.body) \in SetOf(r.headers)

ASSUME ParseAssumption ==
  /\ READ_BUFF_SIZE \in Nat \ {0}
  /\ \A r \in Requests : IsRequest(r)
  /\ None \notin Requests

HeaderText(hs) ==
  [k \in 1..(3 * Len(hs)) |->
     IF k % 3 = 1 THEN hs[(k + 2) \div 3] ELSE IF k % 3 = 2 THEN CR ELSE LF]

Body(r) == [i \in 1..r.body |-> <<"body", i>>]

HeadOf(r) ==
  <<<<r.method, 0>>>> \o (IF r.eol = "LF" THEN <<LF>> ELSE <<CR, LF>>) \o HeaderText(r.headers) \o <<CR, LF>>

Text(r) == HeadOf(r) \o Body(r)

VARIABLES
  request,        \* what the client asks, until it has its response
  sent,           \* how much of it the client has sent
  m_read_buf,     \* up to m_read_idx
  m_check_idx, m_start_line, m_check_state,
  m_content_len, m_link, cgi, m_string,
  line_status,    \* of process_read()
  pc,             \* closed, read (EPOLLIN is registered), parse, answer, crashed
  verdict,        \* what process_read() found, before do_request()
  bodyCut         \* Read_once() has ended with a part of the body

clientVars == <<request, sent>>
requestVars == <<m_content_len, m_link, cgi, m_string>>
placeVars == <<m_check_idx, m_start_line, m_check_state>>
parseVars == <<clientVars, m_read_buf, placeVars, requestVars, line_status, pc, verdict, bodyCut>>

m_read_idx == Len(m_read_buf)

Symbols == {NUL} \cup UNION {SetOf(Text(r)) : r \in Requests}

\* The parser's place is inside what has been read.
ParseTypeOK ==
  /\ request \in Requests \cup {None}
  /\ sent \in Nat
  /\ m_read_buf \in Seq(Symbols) /\ m_read_idx <= READ_BUFF_SIZE
  /\ m_check_idx \in 0..m_read_idx /\ m_start_line \in 0..m_check_idx
  /\ m_check_state \in {"REQUESTLINE", "HEADER", "CONTENT"}
  /\ m_content_len \in Nat
  /\ m_link \in BOOLEAN /\ cgi \in {0, 1}
  /\ m_string \in Seq(Symbols) \cup {None}
  /\ line_status \in {"OK", "OPEN"}
  /\ pc \in {"closed", "read", "parse", "answer", "crashed"}
  /\ verdict \in {"NO_REQUEST", "GET_REQUEST", "BAD_REQUEST"}
  /\ bodyCut \in BOOLEAN

-----------------------------------------------------------------------------

\* Mutant of Cleared: the length of the last body stays.
ClearedButLength ==
  /\ m_read_buf' = <<>>
  /\ m_check_idx' = 0 /\ m_start_line' = 0 /\ m_check_state' = "REQUESTLINE"
  /\ m_link' = FALSE /\ cgi' = 0
  /\ UNCHANGED <<m_content_len, m_string>>

\* init(), for a new connection and after a response; m_string is not reset.
Cleared ==
  /\ m_read_buf' = <<>>
  /\ m_check_idx' = 0 /\ m_start_line' = 0 /\ m_check_state' = "REQUESTLINE"
  /\ m_content_len' = 0 /\ m_link' = FALSE /\ cgi' = 0
  /\ UNCHANGED m_string

NoRequestYet == request' = None /\ sent' = 0 /\ bodyCut' = FALSE /\ verdict' = "NO_REQUEST"

ParseInit ==
  /\ request = None /\ sent = 0
  /\ m_read_buf = <<>>
  /\ m_check_idx = 0 /\ m_start_line = 0 /\ m_check_state = "REQUESTLINE"
  /\ m_content_len = 0 /\ m_link = FALSE /\ cgi = 0 /\ m_string = None
  /\ line_status = "OK" /\ pc = "closed" /\ verdict = "NO_REQUEST" /\ bodyCut = FALSE

ParserOpens ==
  /\ pc = "closed"
  /\ Cleared /\ NoRequestYet
  /\ pc' = "read"
  /\ UNCHANGED line_status

\* The client begins a request; it sends some of the rest of it.
Asks(r) ==
  /\ pc # "closed" /\ request = None
  /\ request' = r
  /\ UNCHANGED <<sent, m_read_buf, placeVars, requestVars, line_status, pc, verdict, bodyCut>>

Sends(n) ==
  /\ pc # "closed" /\ request # None
  /\ sent + n <= Len(Text(request))
  /\ sent' = sent + n
  /\ UNCHANGED <<request, m_read_buf, placeVars, requestVars, line_status, pc, verdict, bodyCut>>

ParserCloses ==
  /\ pc' = "closed"
  /\ UNCHANGED <<clientVars, m_read_buf, placeVars, requestVars, line_status, verdict, bodyCut>>

-----------------------------------------------------------------------------
(* Read_once() reads until EAGAIN.  Init() makes every connection edge-triggered.     *)

Arrived == SubSeq(Text(request), m_read_idx + 1, sent)

SplitsBody(read) == read > Len(HeadOf(request)) /\ read < Len(Text(request))

\* Mutant of ReadAll: the room in the buffer is not looked at.
ReadBlindly ==
  /\ pc = "read" /\ request # None /\ sent > m_read_idx
  /\ m_read_buf' = m_read_buf \o Arrived
  /\ bodyCut' = (bodyCut \/ SplitsBody(sent))
  /\ pc' = "parse" /\ line_status' = "OK"
  /\ UNCHANGED <<clientVars, placeVars, requestVars, verdict>>

\* With the buffer exactly full, the last recv() is asked for 0 bytes.
ReadAll ==
  /\ pc = "read" /\ request # None /\ sent > m_read_idx
  /\ sent <= READ_BUFF_SIZE
  /\ m_read_buf' = m_read_buf \o Arrived
  /\ bodyCut' = (bodyCut \/ SplitsBody(sent))
  /\ pc' = "parse" /\ line_status' = "OK"
  /\ UNCHANGED <<clientVars, placeVars, requestVars, verdict>>

\* There is no room for what has arrived, or recv() gives 0 for the 0 bytes asked for.
ReadFails ==
  /\ pc = "read" /\ request # None /\ sent > m_read_idx
  /\ sent >= READ_BUFF_SIZE
  /\ ParserCloses

-----------------------------------------------------------------------------
(* process_read(): a round of its loop is an action. *)

At(i) == m_read_buf[i + 1]
IsEnd(i) == At(i) \in {CR, LF}
NoEndUpTo(i) == \A j \in m_check_idx..(i - 1) : ~IsEnd(j)

\* The loop calls parse_line(), but for the body's first look.
CallsParseLine == pc = "parse" /\ ~(m_check_state = "CONTENT" /\ line_status = "OK")

NeedsMore(idx) ==
  /\ m_check_idx' = idx
  /\ pc' = "read"
  /\ UNCHANGED <<clientVars, m_read_buf, m_start_line, m_check_state, requestVars, line_status, verdict, bodyCut>>

\* LINE_OPEN: no line end, or a CR in the last place.
LineOpen ==
  /\ CallsParseLine
  /\ \E i \in {m_read_idx - 1, m_read_idx} \cap (m_check_idx..m_read_idx) :
       /\ NoEndUpTo(i)
       /\ i < m_read_idx => At(i) = CR
       /\ NeedsMore(i)

\* LINE_BAD: process_read() returns NO_REQUEST for it, too.
LineBad ==
  /\ CallsParseLine
  /\ \E i \in m_check_idx..(m_read_idx - 1) :
       /\ NoEndUpTo(i)
       /\ \/ At(i) = CR /\ i + 1 < m_read_idx /\ At(i + 1) # LF
          \/ At(i) = LF /\ ~(i > 1 /\ At(i - 1) = CR)
       /\ NeedsMore(i)

\* The positions where a CR may be whose LF parse_line() comes to.
CrPlaces == (m_check_idx..(m_read_idx - 2)) \cup ({m_check_idx - 1} \cap 1..(m_read_idx - 2))

\* LINE_OK: the line at m_start_line ends, text is what it is.
LineOk(text) ==
  /\ CallsParseLine
  /\ \E i \in CrPlaces :
       /\ NoEndUpTo(i) /\ At(i) = CR /\ At(i + 1) = LF
       /\ m_read_buf' = [m_read_buf EXCEPT ![i + 1] = NUL, ![i + 2] = NUL]
       /\ m_check_idx' = i + 2 /\ m_start_line' = i + 2
  /\ text = m_read_buf'[m_start_line + 1]

Decides(code) == verdict' = code /\ pc' = "answer"

\* parse_request_line().  Without a path m_url becomes null behind http://, and the next
\* strncasecmp() ends the server.
RequestLine(text) ==
  /\ m_check_state = "REQUESTLINE"
  /\ LineOk(text)
  /\ \/ /\ text[1] \in {"GET", "POST"}
        /\ cgi' = IF text[1] = "POST" THEN 1 ELSE cgi
        /\ m_check_state' = "HEADER"
        /\ UNCHANGED <<pc, verdict>>
     \/ /\ text[1] = "NOPATH"
        /\ pc' = "crashed"
        /\ UNCHANGED <<cgi, m_check_state, verdict>>
     \/ /\ text[1] \notin {"GET", "POST", "NOPATH"}
        /\ Decides("BAD_REQUEST")
        /\ UNCHANGED <<cgi, m_check_state>>
  /\ UNCHANGED <<clientVars, m_content_len, m_link, m_string, line_status, bodyCut>>

\* parse_headers() on a header, and on the empty line.
Header(text) ==
  /\ m_check_state = "HEADER" /\ text # NUL
  /\ LineOk(text)
  /\ m_link' = (m_link \/ text = KeepAlive)
  /\ m_content_len' = IF text[1] = "Content-length" THEN text[2] ELSE m_content_len
  /\ UNCHANGED <<clientVars, m_check_state, cgi, m_string, line_status, pc, verdict, bodyCut>>

EmptyLine ==
  /\ m_check_state = "HEADER"
  /\ LineOk(NUL)
  /\ IF m_content_len # 0
       THEN m_check_state' = "CONTENT" /\ UNCHANGED <<pc, verdict>>
       ELSE Decides("GET_REQUEST") /\ UNCHANGED m_check_state
  /\ UNCHANGED <<clientVars, requestVars, line_status, bodyCut>>

BodyComplete == m_read_idx >= m_content_len + m_check_idx

\* Mutant of Content: what has come is taken for the body.
ContentEarly ==
  /\ pc = "parse" /\ m_check_state = "CONTENT" /\ line_status = "OK"
  /\ m_start_line' = m_check_idx
  /\ m_string' = SubSeq(m_read_buf, m_start_line + 1, m_read_idx)
  /\ Decides("GET_REQUEST")
  /\ UNCHANGED <<clientVars, m_read_buf, m_check_idx, m_check_state, m_content_len, m_link, cgi, line_status, bodyCut>>

\* text[m_content_len] = 0.  What is behind the last byte read nobody looks at.  Behind a
\* buffer that is exactly full it is the lowest byte of m_read_idx, which is 2048 then: 0
\* before and after.
Terminated(p) == IF p < m_read_idx THEN [m_read_buf EXCEPT ![p + 1] = NUL] ELSE m_read_buf

\* parse_content().  An incomplete body sets line_status, and the loop calls parse_line().
Content ==
  /\ pc = "parse" /\ m_check_state = "CONTENT" /\ line_status = "OK"
  /\ m_start_line' = m_check_idx
  /\ \/ /\ BodyComplete
        /\ m_string' = SubSeq(m_read_buf, m_start_line + 1, m_start_line + m_content_len)
        /\ m_read_buf' = Terminated(m_start_line + m_content_len)
        /\ Decides("GET_REQUEST")
        /\ UNCHANGED line_status
     \/ /\ ~BodyComplete
        /\ line_status' = "OPEN"
        /\ UNCHANGED <<m_read_buf, m_string, verdict, pc>>
  /\ UNCHANGED <<clientVars, m_check_idx, m_check_state, m_content_len, m_link, cgi, bodyCut>>

ParseStep ==
  \/ LineOpen \/ LineBad \/ EmptyLine \/ Content
  \/ \E text \in Symbols : RequestLine(text) \/ Header(text)

-----------------------------------------------------------------------------

\* The response has been sent on a connection that is kept.
Replied ==
  /\ pc = "answer"
  /\ Cleared /\ NoRequestYet
  /\ pc' = "read"
  /\ UNCHANGED line_status

-----------------------------------------------------------------------------

Malformed(r) == r.method = "BAD"

(* README.md:7, README.md:41: the state machine reads GET and POST requests.  However  *)
(* a request is cut into pieces, and whatever was asked on the connection before, the  *)
(* parser comes to the verdict on the whole request, with its keep-alive, its method   *)
(* and its body, and to none before all of it has come.                               *)
VerdictRight ==
  pc = "answer" =>
    /\ request # None /\ request.eol = "CRLF"
    /\ verdict = IF Malformed(request) THEN "BAD_REQUEST" ELSE "GET_REQUEST"
    /\ ~Malformed(request) =>
         /\ m_read_idx = Len(Text(request))
         /\ m_link = (KeepAlive \in SetOf(request.headers))
         /\ cgi = (IF request.method = "POST" THEN 1 ELSE 0)
         /\ request.body > 0 => m_string = Body(request)
=============================================================================
