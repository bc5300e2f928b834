----------------------------- MODULE MCHttpConn -----------------------------
(* Requests with and without body and keep-alive: one fills the read buffer exactly,  *)
(* one does not fit, two are malformed, and one asks for a URL without a path.         *)
EXTENDS HttpConn

Request(method, headers, body, eol) ==
  [method |-> method, headers |-> headers, body |-> body, eol |-> eol]

MCRequests ==
  {Request("GET", <<Other>>, 0, "CRLF"),
   Request("GET", <<KeepAlive>>, 0, "CRLF"),
   Request("POST", <<ContentLength(2)>>, 2, "CRLF"),
   Request("POST", <<KeepAlive, ContentLength(2)>>, 2, "CRLF"),
   Request("POST", <<ContentLength(3), KeepAlive>>, 3, "CRLF"),
   Request("BAD", <<KeepAlive>>, 0, "CRLF"),
   Request("NOPATH", <<KeepAlive>>, 0, "CRLF"),
   Request("GET", <<>>, 0, "LF")}
=============================================================================
