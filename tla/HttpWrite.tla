----------------------------- MODULE HttpWrite -----------------------------
(***************************************************************************)
(* The response of a connection (http_connect.cpp): process_write() sets   *)
(* up one or two buffers, Write() passes them to writev() until all is     *)
(* sent, and moves the two windows m_iv over what the kernel has not taken *)
(* yet.  The kernel takes any part of what it is offered.                  *)
(*                                                                         *)
(* A byte of the response is named by its buffer and offset.  One thread   *)
(* at a time works on a connection (see OneHolder in WebServer), so that a *)
(* call of writev() with the arithmetic behind it is one action.           *)
(***************************************************************************)
EXTENDS Integers, Sequences

CONSTANTS
  Heads,     \* bytes that status line, headers and error page may take
  Files,     \* sizes a file may have
  MaxLost    \* bound: responses with a file that are cut off by a hang-up

ASSUME WriteAssumption ==
  /\ Heads \subseteq Nat \ {0}
  /\ Files \subseteq Nat
  /\ MaxLost \in Nat

VARIABLES
  m_write_idx,      \* bytes in m_write_buf
  m_iv,             \* the windows on m_write_buf and on the file: offset and length
  m_iv_count,
  bytes_to_send, bytes_have_send,
  m_file_address,   \* 0 nullptr, -1 MAP_FAILED, n a mapping of n bytes
  m_file_stat,      \* st_size
  wpc,              \* idle, ready (EPOLLOUT is registered), writing, closed, crashed
  (* what the code does not keep *)
  maps,             \* mappings that exist for this object
  wire,             \* the bytes of this response the kernel has taken
  response,         \* the lengths of its two parts
  outcome,          \* none, pending, sent, lost
  headCuts,         \* writev() calls that stopped inside the header
  lost              \* file responses a hang-up has cut off

windowVars == <<m_write_idx, m_iv, m_iv_count, bytes_to_send, bytes_have_send>>
fileVars == <<m_file_address, m_file_stat, maps>>
outVars == <<wire, response, outcome, headCuts>>
writeVars == <<windowVars, fileVars, wpc, outVars, lost>>

Window == [at : Int, len : Nat]

WriteTypeOK ==
  /\ m_write_idx \in Heads \cup {0}
  /\ m_iv \in [0..1 -> Window]
  /\ m_iv_count \in 1..2
  /\ bytes_to_send \in Nat /\ bytes_have_send \in Nat
  /\ m_file_address \in Files \cup {0, -1}
  /\ m_file_stat \in Files \cup {0}
  /\ wpc \in {"idle", "ready", "writing", "closed", "crashed"}
  /\ maps \in Nat
  /\ wire \in Seq({"head", "file"} \X Int)
  /\ response \in [head : Heads \cup {0}, file : Files \cup {0}]
  /\ outcome \in {"none", "pending", "sent", "lost"}
  /\ headCuts \in 0..2
  /\ lost \in 0..MaxLost

NoWindows == [i \in 0..1 |-> [at |-> 0, len |-> 0]]
NoResponse == [head |-> 0, file |-> 0]

\* The object before its first connection: large arrays come from the system as zeros.
WriteInit ==
  /\ m_write_idx = 0
  /\ m_iv = NoWindows /\ m_iv_count = 1
  /\ bytes_to_send = 0 /\ bytes_have_send = 0
  /\ m_file_address = 0 /\ m_file_stat = 0 /\ maps = 0
  /\ wpc = "closed"
  /\ wire = <<>> /\ response = NoResponse /\ outcome = "none" /\ headCuts = 0
  /\ lost = 0

\* init(), which leaves m_file_address as it is.  It leaves m_iv, too; nothing looks at it
\* before process_write() has set it, and so the model forgets it here.
ClearedWindows ==
  /\ m_write_idx' = 0 /\ bytes_to_send' = 0 /\ bytes_have_send' = 0
  /\ m_iv' = NoWindows /\ m_iv_count' = 1

\* What is known of the last response is forgotten, too.
NextResponse == wire' = <<>> /\ response' = NoResponse /\ outcome' = "none" /\ headCuts' = 0

\* Init() for a new connection on this object's descriptor.
Opens ==
  /\ wpc = "closed"
  /\ wpc' = "idle"
  /\ ClearedWindows /\ NextResponse
  /\ UNCHANGED <<fileVars, lost>>

\* The client asks again.
AsksAgain ==
  /\ wpc = "idle"
  /\ NextResponse
  /\ UNCHANGED <<windowVars, fileVars, wpc, lost>>

-----------------------------------------------------------------------------
(* process_write() and Process().  The add_ functions leave some bytes in m_write_buf, *)
(* which is far larger than what they write.                                          *)

Begun(h, n) ==
  /\ m_write_idx' = h
  /\ bytes_to_send' = h + n
  /\ UNCHANGED bytes_have_send
  /\ wire' = <<>> /\ headCuts' = 0
  /\ response' = [head |-> h, file |-> n] /\ outcome' = "pending"
  /\ wpc' = "ready"
  /\ UNCHANGED lost

\* An error page: what stat() found out, if it was called, stays in m_file_stat.
RespondPage(h) ==
  /\ wpc = "idle"
  /\ Begun(h, 0)
  /\ m_iv' = [m_iv EXCEPT ![0] = [at |-> 0, len |-> h]] /\ m_iv_count' = 1
  /\ m_file_stat' \in Files \cup {m_file_stat}
  /\ UNCHANGED <<m_file_address, maps>>

\* A file, mapped by do_request().
RespondFile(h, n) ==
  /\ wpc = "idle"
  /\ n > 0
  /\ Begun(h, n)
  /\ m_iv' = [i \in 0..1 |-> [at |-> 0, len |-> IF i = 0 THEN h ELSE n]] /\ m_iv_count' = 2
  /\ m_file_address' = n /\ m_file_stat' = n /\ maps' = maps + 1

\* An empty file cannot be mapped, and its case falls through to default; a missing file
\* is the default case.  Process() closes the connection.
RespondNothing(h) ==
  /\ wpc = "idle"
  /\ m_write_idx' = h
  /\ \/ 0 \in Files /\ m_file_address' = -1 /\ m_file_stat' = 0
     \/ UNCHANGED <<m_file_address, m_file_stat>>
  /\ wpc' = "closed"
  /\ UNCHANGED <<m_iv, m_iv_count, bytes_to_send, bytes_have_send, maps, outVars, lost>>

-----------------------------------------------------------------------------
(* Write().  It is called with something to send only. *)

\* Mutant of Unmapped: the pointer is reset and the mapping stays.
Forgotten == m_file_address' = 0 /\ UNCHANGED <<m_file_stat, maps>>

\* unmap(): munmap() of fewer bytes than were mapped leaves some.
Unmapped ==
  /\ m_file_address' = 0
  /\ maps' = IF m_file_address > 0 /\ m_file_stat >= m_file_address THEN maps - 1 ELSE maps
  /\ UNCHANGED m_file_stat

\* The output of m_file_address at the start of Write() reads the memory there.
PrintsFailedMapping ==
  /\ wpc = "ready" /\ m_file_address = -1
  /\ wpc' = "crashed"
  /\ UNCHANGED <<windowVars, fileVars, outVars, lost>>

InWrite ==
  \/ wpc = "writing"
  \/ wpc = "ready" /\ m_file_address # -1

Offered == m_iv[0].len + (IF m_iv_count = 2 THEN m_iv[1].len ELSE 0)

\* What writev() may take; offered nothing, it takes nothing.
Takes == IF Offered = 0 THEN {0} ELSE 1..Offered

\* The k-th byte offered.
OfferedByte(k) ==
  IF k <= m_iv[0].len THEN <<"head", m_iv[0].at + k - 1>>
                      ELSE <<"file", m_iv[1].at + k - 1 - m_iv[0].len>>

\* Mutants of Advanced: the second window is not moved; the end of the first is not seen.
AdvancedHead(have, left) ==
  IF have >= m_iv[0].len THEN [m_iv EXCEPT ![0].len = 0]
  ELSE [m_iv EXCEPT ![0] = [at |-> have, len |-> m_iv[0].len - have]]

AdvancedAlways(have, left) ==
  [m_iv EXCEPT ![0] = [at |-> have, len |-> m_iv[0].len - have]]

\* The windows after have bytes in all, with left to go.
Advanced(have, left) ==
  IF have >= m_iv[0].len
    THEN [m_iv EXCEPT ![0].len = 0, ![1] = [at |-> have - m_write_idx, len |-> left]]
    ELSE [m_iv EXCEPT ![0] = [at |-> have, len |-> m_iv[0].len - have]]

CutsHead(have) == have < response.head

\* writev() takes t bytes.  When all is sent the connection is kept or closed.
Writev(t, keep) ==
  LET have == bytes_have_send + t
      left == bytes_to_send - t
  IN /\ InWrite
     /\ wire' = wire \o [k \in 1..t |-> OfferedByte(k)]
     /\ headCuts' = IF CutsHead(have) /\ headCuts < 2 THEN headCuts + 1 ELSE headCuts
     /\ UNCHANGED <<response, lost>>
     /\ IF left > 0
          THEN wpc' = "writing" /\ UNCHANGED <<fileVars, outcome>>
          ELSE wpc' = (IF keep THEN "idle" ELSE "closed") /\ Unmapped /\ outcome' = "sent"
     /\ IF left <= 0 /\ keep
          THEN ClearedWindows
          ELSE /\ m_iv' = Advanced(have, left)
               /\ bytes_have_send' = have /\ bytes_to_send' = left
               /\ UNCHANGED <<m_write_idx, m_iv_count>>

\* EAGAIN.  EPOLLOUT says that there is room, so that it is not the first answer.
Stalls ==
  /\ wpc = "writing" /\ Offered > 0
  /\ wpc' = "ready"
  /\ UNCHANGED <<windowVars, fileVars, outVars, lost>>

\* Any other error: the connection is closed by the loop.
Fails ==
  /\ InWrite
  /\ Unmapped
  /\ wpc' = "closed" /\ outcome' = "lost"
  /\ UNCHANGED <<windowVars, wire, response, headCuts, lost>>

-----------------------------------------------------------------------------

FilePending == outcome = "pending" /\ response.file > 0

\* The client hangs up and the loop closes the connection: unmap() is not called.
HangsUp ==
  /\ wpc \in {"idle", "ready"}
  /\ FilePending => lost < MaxLost
  /\ lost' = IF FilePending THEN lost + 1 ELSE lost
  /\ outcome' = IF outcome = "pending" THEN "lost" ELSE outcome
  /\ wpc' = "closed"
  /\ UNCHANGED <<windowVars, fileVars, wire, response, headCuts>>

Sending(keep) == PrintsFailedMapping \/ \E t \in Takes : Writev(t, keep)

WriteNext ==
  \/ Opens \/ AsksAgain \/ HangsUp \/ Stalls \/ Fails
  \/ \E h \in Heads : RespondPage(h) \/ RespondNothing(h) \/ \E n \in Files : RespondFile(h, n)
  \/ \E keep \in BOOLEAN : Sending(keep)

WriteSpec == WriteInit /\ [][WriteNext]_writeVars

-----------------------------------------------------------------------------

ResponseByte(k) ==
  IF k <= response.head THEN <<"head", k - 1>> ELSE <<"file", k - 1 - response.head>>

(* http_connect.cpp:613: writev() sends the buffers in their order.  What the client  *)
(* gets is the header and then the file, byte by byte, wherever the kernel stops; when *)
(* Write() is done nothing is missing.  This holds as long as no more than one         *)
(* writev() stops inside the header.                                                  *)
ResponseInOrder ==
  headCuts < 2 =>
    /\ \A k \in 1..Len(wire) : wire[k] = ResponseByte(k)
    /\ Len(wire) <= response.head + response.file
    /\ outcome = "sent" => Len(wire) = response.head + response.file

(* Every mapping is released when its response ends, however it ends, but for those    *)
(* whose connection the loop closes while the response waits for EPOLLOUT.            *)
MappingsReleased == maps <= lost + (IF FilePending THEN 1 ELSE 0)
=============================================================================
