--------------------------- MODULE HttpConnProofs ---------------------------
(***************************************************************************)
(* What holds of the writer alone and of a connection for every set of     *)
(* requests and every size of the read buffer: the parser stays inside     *)
(* what has been read and comes to the right verdict, and the connection   *)
(* is a use of the writer, so that what is proved of the writer alone      *)
(* holds in it.                                                            *)
(***************************************************************************)
EXTENDS HttpConn, SequenceTheorems, TLAPS

-----------------------------------------------------------------------------
(* The writer alone: every size of header and file, and every way in which the kernel *)
(* takes the bytes.                                                                   *)

Bytes == {"head", "file"} \X Int

InHand == wpc \in {"ready", "writing"}

\* While a response goes out: what is sent and what is left make the whole, and the
\* windows never offer more than what is left.
Balance ==
  InHand =>
    /\ m_write_idx = response.head /\ response.head > 0
    /\ bytes_have_send + bytes_to_send = response.head + response.file
    /\ bytes_to_send > 0
    /\ bytes_have_send = Len(wire)
    /\ m_iv_count = (IF response.file > 0 THEN 2 ELSE 1)
    /\ Offered <= bytes_to_send

\* The three shapes of the windows: as set up, stopped once in the header, in the file.
Untouched == bytes_have_send = 0 /\ m_iv[0] = [at |-> 0, len |-> response.head]
HeadOnce ==
  /\ headCuts = 1 /\ bytes_have_send \in 1..(response.head - 1)
  /\ m_iv[0] = [at |-> bytes_have_send, len |-> response.head - bytes_have_send]
FileWhole == response.file > 0 => m_iv[1] = [at |-> 0, len |-> response.file]
HeadDone ==
  /\ bytes_have_send >= response.head /\ m_iv[0].len = 0
  /\ m_iv[1] = [at |-> bytes_have_send - response.head, len |-> bytes_to_send]
Shapes == InHand /\ headCuts < 2 => ((Untouched \/ HeadOnce) /\ FileWhole) \/ HeadDone

IdleFresh == wpc = "idle" => bytes_have_send = 0
Pending == outcome = "pending" <=> wpc \in {"ready", "writing", "crashed"}

\* The mapping of a response in hand is its own.
Mapped ==
  /\ m_file_address > 0 => maps > 0
  /\ InHand /\ response.file > 0 => m_file_address = response.file /\ m_file_stat = response.file

WriteInv ==
  /\ WriteTypeOK /\ Balance /\ Shapes /\ IdleFresh /\ Pending /\ Mapped
  /\ ResponseInOrder /\ MappingsReleased

\* The type invariant, in numbers.
LEMMA Numbers ==
  ASSUME WriteTypeOK
  PROVE  /\ \A i \in 0..1 : m_iv[i] \in Window /\ m_iv[i].at \in Int /\ m_iv[i].len \in Nat
         /\ response.head \in Nat /\ response.file \in Nat
         /\ response.head \in Heads \cup {0} /\ response.file \in Files \cup {0}
         /\ m_write_idx \in Nat /\ bytes_to_send \in Nat /\ bytes_have_send \in Nat
         /\ m_file_address \in Int /\ m_file_stat \in Nat /\ maps \in Nat
         /\ headCuts \in Nat /\ lost \in Nat
<1>1. m_iv[0] \in Window /\ m_iv[1] \in Window
  BY DEF WriteTypeOK
<1>2. \A i \in 0..1 : m_iv[i] \in Window
  BY DEF WriteTypeOK
<1>3. \A v \in Window : v.at \in Int /\ v.len \in Nat
  BY DEF Window
<1>4. response.head \in Heads \cup {0} /\ response.file \in Files \cup {0}
  BY DEF WriteTypeOK
<1>5. /\ m_write_idx \in Nat /\ m_file_address \in Int /\ m_file_stat \in Nat
      /\ headCuts \in Nat /\ lost \in Nat
  BY WriteAssumption DEF WriteTypeOK
<1>6. response.head \in Nat /\ response.file \in Nat
  <2>1. \A n \in Heads \cup {0} : n \in Nat
    BY WriteAssumption
  <2>2. \A n \in Files \cup {0} : n \in Nat
    BY WriteAssumption
  <2>3. QED
    BY <1>1, <1>4, <2>1, <2>2
<1>7. bytes_to_send \in Nat /\ bytes_have_send \in Nat /\ maps \in Nat
  BY DEF WriteTypeOK
<1>8. \A i \in 0..1 : m_iv[i] \in Window /\ m_iv[i].at \in Int /\ m_iv[i].len \in Nat
  BY <1>2, <1>3
<1>9. QED
  BY <1>4, <1>5, <1>6, <1>7, <1>8

\* What writev() takes continues the response where the last call stopped.
LEMMA NextBytes ==
  ASSUME WriteInv, InHand, headCuts < 2, NEW k \in 1..Offered
  PROVE  OfferedByte(k) = ResponseByte(bytes_have_send + k)
<1>1. ((Untouched \/ HeadOnce) /\ FileWhole) \/ HeadDone
  BY DEF Shapes, WriteInv
<1>2. response.file = 0 => m_iv_count = 1
  BY DEF Balance, InHand, WriteInv
<1>3. /\ m_iv[0].len \in Nat /\ m_iv[1].len \in Nat /\ m_iv[0].at \in Int /\ m_iv[1].at \in Int
      /\ response.head \in Nat /\ response.file \in Nat /\ bytes_have_send \in Nat
  BY Numbers DEF WriteInv
<1>4. k \in Nat /\ k > 0 /\ (response.file = 0 => k <= m_iv[0].len)
  BY <1>2, <1>3 DEF Offered
<1>5. CASE Untouched /\ FileWhole
  BY <1>3, <1>4, <1>5 DEF Untouched, FileWhole, OfferedByte, ResponseByte
<1>6. CASE HeadOnce /\ FileWhole
  BY <1>3, <1>4, <1>6 DEF HeadOnce, FileWhole, OfferedByte, ResponseByte
<1>7. CASE HeadDone
  BY <1>3, <1>4, <1>7 DEF HeadDone, OfferedByte, ResponseByte
<1>8. QED
  BY <1>1, <1>5, <1>6, <1>7

\* The offer of a response in hand is not empty, unless the header was cut twice.
LEMMA Taken ==
  ASSUME WriteInv, InHand, NEW t \in Takes
  PROVE  t \in Nat /\ t <= Offered /\ t <= bytes_to_send /\ Offered \in Nat
<1>1. Offered \in Nat
  BY Numbers DEF WriteInv, Offered
<1>2. Offered <= bytes_to_send
  BY DEF WriteInv, Balance
<1>3. t \in Nat /\ t <= Offered
  BY <1>1 DEF Takes
<1>4. QED
  BY <1>1, <1>2, <1>3, Numbers DEF WriteInv

\* The bytes of one writev().
LEMMA WireGrows ==
  ASSUME WriteInv, InHand, NEW t \in Takes,
         wire' = wire \o [k \in 1..t |-> OfferedByte(k)]
  PROVE  /\ wire' \in Seq(Bytes) /\ Len(wire') = bytes_have_send + t
         /\ headCuts < 2 => \A k \in 1..Len(wire') : wire'[k] = ResponseByte(k)
<1> DEFINE more == [k \in 1..t |-> OfferedByte(k)]
<1>1. /\ t \in Nat /\ t <= Offered /\ Offered \in Nat
      /\ m_iv[0].at \in Int /\ m_iv[1].at \in Int /\ m_iv[0].len \in Nat
  BY Taken, Numbers DEF WriteInv
<1>2. \A k \in 1..t : OfferedByte(k) \in Bytes
  BY <1>1 DEF OfferedByte, Bytes
<1>3. more \in Seq(Bytes) /\ Len(more) = t /\ \A k \in 1..t : more[k] = OfferedByte(k)
  BY <1>1, <1>2
<1>4. wire \in Seq(Bytes) /\ Len(wire) = bytes_have_send /\ bytes_have_send \in Nat
  BY Numbers DEF WriteInv, WriteTypeOK, Balance, Bytes
<1>5. /\ wire' \in Seq(Bytes) /\ Len(wire') = Len(wire) + t
      /\ \A i \in 1..(Len(wire) + t) : wire'[i] = IF i <= Len(wire) THEN wire[i] ELSE more[i - Len(wire)]
  <2> HIDE DEF more
  <2>1. wire' = wire \o more
    BY DEF more
  <2>2. more \in Seq(Bytes) /\ wire \in Seq(Bytes) /\ Len(more) = t
    BY <1>3, <1>4
  <2>3. /\ wire \o more \in Seq(Bytes) /\ Len(wire \o more) = Len(wire) + Len(more)
        /\ \A i \in 1..(Len(wire) + Len(more)) :
             (wire \o more)[i] = IF i <= Len(wire) THEN wire[i] ELSE more[i - Len(wire)]
    BY <2>2, ConcatProperties
  <2>4. QED
    BY <2>1, <2>2, <2>3
<1>6. ASSUME headCuts < 2, NEW i \in 1..(Len(wire) + t) PROVE wire'[i] = ResponseByte(i)
  <2>1. CASE i <= Len(wire)
    <3>1. wire[i] = ResponseByte(i)
      BY <1>4, <1>6, <2>1 DEF WriteInv, ResponseInOrder
    <3>2. QED
      BY <1>5, <2>1, <3>1
  <2>2. CASE i > Len(wire)
    <3> DEFINE k == i - Len(wire)
    <3>1. k \in 1..t /\ k \in 1..Offered /\ bytes_have_send + k = i
      BY <1>1, <1>4, <2>2
    <3>2. wire'[i] = more[k]
      BY <1>1, <1>4, <1>5, <2>2
    <3>3. OfferedByte(k) = ResponseByte(bytes_have_send + k)
      BY <1>6, <3>1, NextBytes
    <3>4. QED
      BY <1>3, <3>1, <3>2, <3>3
  <2>3. QED
    BY <1>1, <1>4, <2>1, <2>2
<1>7. QED
  BY <1>4, <1>5, <1>6

\* The windows after one writev() that leaves something.
LEMMA WindowsMove ==
  ASSUME WriteInv, InHand, NEW t \in Takes,
         m_iv' = Advanced(bytes_have_send + t, bytes_to_send - t)
  PROVE  /\ m_iv' \in [0..1 -> Window]
         /\ IF bytes_have_send + t >= m_iv[0].len
              THEN /\ m_iv'[0].len = 0
                   /\ m_iv'[1] = [at |-> (bytes_have_send + t) - m_write_idx, len |-> bytes_to_send - t]
              ELSE /\ m_iv'[0] = [at |-> bytes_have_send + t, len |-> m_iv[0].len - (bytes_have_send + t)]
                   /\ m_iv'[1] = m_iv[1]
<1>1. /\ m_iv \in [0..1 -> Window] /\ m_iv[0] \in Window /\ m_iv[1] \in Window
      /\ m_iv[0].at \in Int /\ m_iv[0].len \in Nat
      /\ bytes_have_send \in Nat /\ bytes_to_send \in Nat /\ m_write_idx \in Nat
  BY Numbers DEF WriteInv, WriteTypeOK
<1>2. t \in Nat /\ t <= bytes_to_send
  BY Taken
<1> DEFINE have == bytes_have_send + t
           left == bytes_to_send - t
           second == [at |-> have - m_write_idx, len |-> left]
<1>3. have \in Nat /\ left \in Nat /\ second \in Window
  BY <1>1, <1>2 DEF Window
<1>4. CASE have >= m_iv[0].len
  <2>1. m_iv' = [m_iv EXCEPT ![0].len = 0, ![1] = second]
    BY <1>4 DEF Advanced
  <2>2. [m_iv[0] EXCEPT !.len = 0] \in Window /\ [m_iv[0] EXCEPT !.len = 0].len = 0
    BY <1>1 DEF Window
  <2>3. m_iv'[0] = [m_iv[0] EXCEPT !.len = 0] /\ m_iv'[1] = second
    BY <1>1, <2>1
  <2>4. m_iv' \in [0..1 -> Window]
    <3> HIDE DEF second
    <3>1. m_iv' = [i \in 0..1 |-> IF i = 1 THEN second ELSE [m_iv[0] EXCEPT !.len = 0]]
      BY <1>1, <2>1
    <3>2. QED
      BY <1>3, <2>2, <3>1
  <2>5. m_iv'[0].len = 0 /\ m_iv'[1] = second
    BY <2>2, <2>3
  <2>6. QED
    BY <1>1, <1>2, <1>3, <1>4, <2>4, <2>5
<1>5. CASE ~(have >= m_iv[0].len)
  <2> DEFINE first == [at |-> have, len |-> m_iv[0].len - have]
  <2>1. m_iv' = [m_iv EXCEPT ![0] = first]
    BY <1>5 DEF Advanced
  <2>2. first \in Window
    BY <1>1, <1>3, <1>5 DEF Window
  <2> HIDE DEF first
  <2>3. m_iv' \in [0..1 -> Window] /\ m_iv'[0] = first /\ m_iv'[1] = m_iv[1]
    BY <1>1, <2>1, <2>2
  <2>4. QED
    BY <1>5, <2>3 DEF first
<1>6. QED
  BY <1>4, <1>5

\* unmap() at the end of a response leaves no mapping of it.
LEMMA Unmaps ==
  ASSUME WriteInv, InHand, Unmapped
  PROVE  m_file_address' = 0 /\ maps' \in Nat /\ maps' <= lost /\ m_file_stat' = m_file_stat
<1>1. /\ m_file_address \in Int /\ m_file_stat \in Nat /\ maps \in Nat /\ lost \in Nat
      /\ response.file \in Nat
  BY Numbers DEF WriteInv
<1>2. m_file_address > 0 => maps > 0
  BY DEF WriteInv, Mapped
<1>3. maps <= lost + (IF FilePending THEN 1 ELSE 0)
  BY DEF WriteInv, MappingsReleased
<1>4. FilePending => m_file_address = response.file /\ m_file_stat = response.file /\ response.file > 0
  BY DEF WriteInv, Mapped, FilePending
<1>5. QED
  BY <1>1, <1>2, <1>3, <1>4 DEF Unmapped

\* What a call of writev() does, whether or not it is the last.
LEMMA WritevFacts ==
  ASSUME WriteInv, NEW t \in Takes, NEW keep \in BOOLEAN, Writev(t, keep)
  PROVE  /\ InHand /\ outcome = "pending"
         /\ t \in Nat /\ t <= bytes_to_send /\ t <= Offered
         /\ wire' \in Seq(Bytes) /\ Len(wire') = bytes_have_send + t
         /\ headCuts < 2 => \A k \in 1..Len(wire') : wire'[k] = ResponseByte(k)
         /\ response' = response /\ lost' = lost
         /\ headCuts' \in 0..2
         /\ headCuts' < 2 => headCuts < 2
         /\ headCuts' < 2 /\ CutsHead(bytes_have_send + t) => headCuts = 0 /\ headCuts' = 1
<1>1. InHand
  BY DEF Writev, InWrite, InHand
<1>2. outcome = "pending"
  BY <1>1 DEF WriteInv, Pending, InHand
<1>3. t \in Nat /\ t <= bytes_to_send /\ t <= Offered
  BY <1>1, Taken
<1>4. wire' = wire \o [k \in 1..t |-> OfferedByte(k)]
  BY DEF Writev
<1>5. /\ wire' \in Seq(Bytes) /\ Len(wire') = bytes_have_send + t
      /\ headCuts < 2 => \A k \in 1..Len(wire') : wire'[k] = ResponseByte(k)
  BY <1>1, <1>4, WireGrows
<1>6. response' = response /\ lost' = lost
  BY DEF Writev
<1>7. headCuts' = IF CutsHead(bytes_have_send + t) /\ headCuts < 2 THEN headCuts + 1 ELSE headCuts
  BY DEF Writev
<1>8. headCuts \in 0..2
  BY DEF WriteInv, WriteTypeOK
<1>9. /\ headCuts' \in 0..2
      /\ headCuts' < 2 => headCuts < 2
      /\ headCuts' < 2 /\ CutsHead(bytes_have_send + t) => headCuts = 0 /\ headCuts' = 1
  <2> DEFINE cuts == CutsHead(bytes_have_send + t)
  <2> HIDE DEF cuts
  <2>1. headCuts' = IF cuts /\ headCuts < 2 THEN headCuts + 1 ELSE headCuts
    BY <1>7 DEF cuts
  <2>2. /\ headCuts' \in 0..2
        /\ headCuts' < 2 => headCuts < 2
        /\ headCuts' < 2 /\ cuts => headCuts = 0 /\ headCuts' = 1
    BY <1>8, <2>1
  <2>3. QED
    BY <2>2 DEF cuts
<1>10. QED
  BY <1>1, <1>2, <1>3, <1>5, <1>6, <1>9

\* A writev() that leaves something.
LEMMA WritevGoesOn ==
  ASSUME WriteInv, NEW t \in Takes, NEW keep \in BOOLEAN, Writev(t, keep), bytes_to_send - t > 0
  PROVE  WriteInv'
<1> DEFINE have == bytes_have_send + t
           left == bytes_to_send - t
<1>1. /\ InHand /\ outcome = "pending"
      /\ t \in Nat /\ t <= bytes_to_send /\ t <= Offered
      /\ wire' \in Seq(Bytes) /\ Len(wire') = have
      /\ headCuts < 2 => \A k \in 1..Len(wire') : wire'[k] = ResponseByte(k)
      /\ response' = response /\ lost' = lost
      /\ headCuts' \in 0..2
      /\ headCuts' < 2 => headCuts < 2
      /\ headCuts' < 2 /\ CutsHead(have) => headCuts = 0 /\ headCuts' = 1
  BY WritevFacts
<1>2. /\ \A i \in 0..1 : m_iv[i].at \in Int /\ m_iv[i].len \in Nat
      /\ response.head \in Nat /\ response.file \in Nat
      /\ bytes_to_send \in Nat /\ bytes_have_send \in Nat /\ m_write_idx \in Nat
  BY Numbers DEF WriteInv
<1>3. /\ m_write_idx = response.head /\ response.head > 0
      /\ bytes_have_send + bytes_to_send = response.head + response.file
      /\ m_iv_count = (IF response.file > 0 THEN 2 ELSE 1)
      /\ Offered <= bytes_to_send
  BY <1>1 DEF WriteInv, Balance
<1>4. /\ wpc' = "writing" /\ UNCHANGED <<fileVars, outcome, m_write_idx, m_iv_count>>
      /\ m_iv' = Advanced(have, left) /\ bytes_have_send' = have /\ bytes_to_send' = left
  <2>1. left > 0 /\ ~(left <= 0)
    BY <1>1, <1>2
  <2>2. QED
    BY <2>1 DEF Writev
<1>5. /\ m_iv' \in [0..1 -> Window]
      /\ IF have >= m_iv[0].len
           THEN /\ m_iv'[0].len = 0
                /\ m_iv'[1] = [at |-> have - m_write_idx, len |-> left]
           ELSE /\ m_iv'[0] = [at |-> have, len |-> m_iv[0].len - have]
                /\ m_iv'[1] = m_iv[1]
  BY <1>1, <1>4, WindowsMove
<1>6. WriteTypeOK'
  <2>1. bytes_have_send' \in Nat /\ bytes_to_send' \in Nat
    BY <1>1, <1>2, <1>4
  <2>2. QED
    BY <1>1, <1>4, <1>5, <2>1 DEF WriteInv, WriteTypeOK, fileVars, Bytes
<1>7. Offered' <= bytes_to_send'
  <2>1. CASE have >= m_iv[0].len
    BY <1>1, <1>2, <1>4, <1>5, <2>1 DEF Offered
  <2>2. CASE ~(have >= m_iv[0].len)
    <3>1. m_iv'[0].len = m_iv[0].len - have /\ m_iv'[1].len = m_iv[1].len
      BY <1>5, <2>2
    <3> DEFINE second == IF m_iv_count = 2 THEN m_iv[1].len ELSE 0
    <3>2. second \in Nat
      BY <1>2
    <3>3. Offered = m_iv[0].len + second
      BY DEF Offered
    <3>4. Offered' = m_iv[0].len - have + second
      BY <1>4, <3>1 DEF Offered
    <3> HIDE DEF second
    <3>5. QED
      BY <1>1, <1>2, <1>3, <1>4, <3>2, <3>3, <3>4
  <2>3. QED
    BY <2>1, <2>2
<1>8. Balance'
  <2>1. have + left = bytes_have_send + bytes_to_send
    BY <1>1, <1>2
  <2>2. QED
    BY <1>1, <1>3, <1>4, <1>7, <2>1 DEF Balance
<1>9. Shapes'
  <2> SUFFICES ASSUME headCuts' < 2
               PROVE  ((Untouched' \/ HeadOnce') /\ FileWhole') \/ HeadDone'
    BY DEF Shapes
  <2>1. headCuts < 2 /\ (have < response.head => headCuts = 0 /\ headCuts' = 1)
    BY <1>1 DEF CutsHead
  <2>2. ((Untouched \/ HeadOnce) /\ FileWhole) \/ HeadDone
    BY <1>1, <2>1 DEF WriteInv, Shapes
  <2>3. ASSUME have >= response.head, have >= m_iv[0].len PROVE HeadDone'
    BY <1>1, <1>3, <1>4, <1>5, <2>3 DEF HeadDone
  <2>4. CASE Untouched /\ FileWhole
    <3>1. m_iv[0].len = response.head /\ bytes_have_send = 0 /\ have = t
      BY <1>1, <1>2, <2>4 DEF Untouched
    <3>2. t > 0
      <4>1. response.head \in Nat /\ (m_iv_count = 2 => m_iv[1].len \in Nat)
        BY <1>2
      <4>2. Offered \in Nat /\ Offered # 0
        BY <1>3, <3>1, <4>1 DEF Offered
      <4>3. t \in 1..Offered
        BY <1>1, <4>2 DEF Takes
      <4>4. QED
        BY <4>2, <4>3
    <3>3. CASE have < response.head
      <4>1. ~(have >= m_iv[0].len)
        BY <1>1, <1>2, <3>1, <3>3
      <4>2. m_iv'[0] = [at |-> have, len |-> response.head - have] /\ m_iv'[1] = m_iv[1]
        BY <1>5, <3>1, <4>1
      <4>3. HeadOnce' /\ FileWhole'
        BY <1>1, <1>2, <1>4, <2>1, <2>4, <3>1, <3>2, <3>3, <4>2 DEF HeadOnce, FileWhole
      <4>4. QED
        BY <4>3
    <3>4. CASE have >= response.head
      BY <2>3, <3>1, <3>4
    <3>5. QED
      BY <1>1, <1>2, <3>1, <3>3, <3>4
  <2>5. CASE HeadOnce /\ FileWhole
    <3>1. headCuts = 1 /\ bytes_have_send \in 1..(response.head - 1)
          /\ m_iv[0].len = response.head - bytes_have_send
      BY <2>5 DEF HeadOnce
    <3>2. have >= response.head /\ have >= m_iv[0].len
      BY <1>1, <1>2, <2>1, <3>1
    <3>3. QED
      BY <2>3, <3>2
  <2>6. CASE HeadDone
    <3>1. bytes_have_send >= response.head /\ m_iv[0].len = 0
      BY <2>6 DEF HeadDone
    <3>2. have >= response.head /\ have >= m_iv[0].len
      BY <1>1, <1>2, <3>1
    <3>3. QED
      BY <2>3, <3>2
  <2>7. QED
    BY <2>2, <2>4, <2>5, <2>6
<1>10. IdleFresh' /\ Pending'
  BY <1>1, <1>4 DEF IdleFresh, Pending
<1>11. Mapped' /\ MappingsReleased'
  BY <1>1, <1>4 DEF WriteInv, Mapped, MappingsReleased, FilePending, fileVars, InHand
<1>12. ResponseInOrder'
  <2> SUFFICES ASSUME headCuts' < 2
               PROVE  /\ \A k \in 1..Len(wire') : wire'[k] = ResponseByte(k)'
                      /\ Len(wire') <= response'.head + response'.file
                      /\ outcome' # "sent"
    BY DEF ResponseInOrder
  <2>1. \A k \in 1..Len(wire') : wire'[k] = ResponseByte(k)'
    BY <1>1 DEF ResponseByte
  <2>2. have <= response.head + response.file
    BY <1>1, <1>2, <1>3
  <2>3. QED
    BY <1>1, <1>4, <2>1, <2>2
<1>13. QED
  BY <1>6, <1>8, <1>9, <1>10, <1>11, <1>12 DEF WriteInv

\* The last writev() of a response.
LEMMA WritevEnds ==
  ASSUME WriteInv, NEW t \in Takes, NEW keep \in BOOLEAN, Writev(t, keep), ~(bytes_to_send - t > 0)
  PROVE  WriteInv'
<1> DEFINE have == bytes_have_send + t
           left == bytes_to_send - t
<1>1. /\ InHand
      /\ t \in Nat /\ t <= bytes_to_send
      /\ wire' \in Seq(Bytes) /\ Len(wire') = have
      /\ headCuts < 2 => \A k \in 1..Len(wire') : wire'[k] = ResponseByte(k)
      /\ response' = response /\ lost' = lost
      /\ headCuts' \in 0..2
      /\ headCuts' < 2 => headCuts < 2
  BY WritevFacts
<1>2. /\ response.head \in Nat /\ response.file \in Nat
      /\ bytes_to_send \in Nat /\ bytes_have_send \in Nat
      /\ bytes_have_send + bytes_to_send = response.head + response.file
  BY <1>1, Numbers DEF WriteInv, Balance
<1>3. left = 0 /\ have = response.head + response.file
  BY <1>1, <1>2
<1>4. /\ wpc' = (IF keep THEN "idle" ELSE "closed") /\ Unmapped /\ outcome' = "sent"
  BY DEF Writev
<1>5. /\ keep => ClearedWindows
      /\ ~keep => /\ m_iv' = Advanced(have, left)
                  /\ bytes_have_send' = have /\ bytes_to_send' = left
                  /\ UNCHANGED <<m_write_idx, m_iv_count>>
  BY <1>3 DEF Writev
<1>6. m_file_address' = 0 /\ maps' \in Nat /\ maps' <= lost /\ m_file_stat' = m_file_stat
  BY <1>1, <1>4, Unmaps
<1>7. WriteTypeOK'
  <2>1. m_iv' \in [0..1 -> Window]
    <3>1. CASE keep
      BY <1>5, <3>1 DEF ClearedWindows, NoWindows, Window
    <3>2. CASE ~keep
      BY <1>1, <1>5, <3>2, WindowsMove
    <3>3. QED
      BY <3>1, <3>2
  <2>2. /\ m_write_idx' \in Heads \cup {0} /\ m_iv_count' \in 1..2
        /\ bytes_have_send' \in Nat /\ bytes_to_send' \in Nat
    BY <1>1, <1>2, <1>3, <1>5 DEF WriteInv, WriteTypeOK, ClearedWindows
  <2>3. wpc' \in {"idle", "closed"}
    BY <1>4
  <2>4. QED
    BY <1>1, <1>4, <1>6, <2>1, <2>2, <2>3 DEF WriteInv, WriteTypeOK, Bytes
<1>8. wpc' \in {"idle", "closed"} /\ (wpc' = "idle" => keep)
  BY <1>4
<1>9. Balance' /\ Shapes'
  BY <1>8 DEF Balance, Shapes, InHand
<1>10. IdleFresh'
  BY <1>5, <1>8 DEF IdleFresh, ClearedWindows
<1>11. Pending' /\ Mapped'
  BY <1>4, <1>6, <1>8 DEF Pending, Mapped, InHand
<1>12. MappingsReleased'
  BY <1>1, <1>4, <1>6, Numbers DEF WriteInv, MappingsReleased, FilePending
<1>13. ResponseInOrder'
  <2> SUFFICES ASSUME headCuts' < 2
               PROVE  /\ \A k \in 1..Len(wire') : wire'[k] = ResponseByte(k)'
                      /\ Len(wire') <= response'.head + response'.file
                      /\ Len(wire') = response'.head + response'.file
    BY DEF ResponseInOrder
  <2>1. \A k \in 1..Len(wire') : wire'[k] = ResponseByte(k)'
    BY <1>1 DEF ResponseByte
  <2>2. QED
    BY <1>1, <1>2, <1>3, <2>1
<1>14. QED
  BY <1>7, <1>9, <1>10, <1>11, <1>12, <1>13 DEF WriteInv

LEMMA Begins ==
  ASSUME WriteInv, NEW h \in Heads, NEW n \in Files \cup {0}, wpc = "idle", Begun(h, n),
         m_iv' \in [0..1 -> Window], m_iv'[0] = [at |-> 0, len |-> h],
         n > 0 => m_iv'[1] = [at |-> 0, len |-> n] /\ m_file_address' = n /\ m_file_stat' = n,
         m_iv_count' = (IF n > 0 THEN 2 ELSE 1),
         m_file_address' \in Files \cup {0, -1}, m_file_stat' \in Files \cup {0},
         maps' = maps + (IF n > 0 THEN 1 ELSE 0), n = 0 => m_file_address' = m_file_address
  PROVE  WriteInv'
<1>1. h \in Nat /\ h > 0 /\ n \in Nat
  BY WriteAssumption
<1>2. bytes_have_send = 0 /\ maps \in Nat /\ lost \in Nat
  BY Numbers DEF WriteInv, IdleFresh
<1>3. /\ m_write_idx' = h /\ bytes_to_send' = h + n /\ bytes_have_send' = 0
      /\ wire' = <<>> /\ headCuts' = 0
      /\ response' = [head |-> h, file |-> n] /\ outcome' = "pending"
      /\ wpc' = "ready" /\ lost' = lost
  BY <1>2 DEF Begun
<1>4. response'.head = h /\ response'.file = n
  BY <1>3
<1>5. WriteTypeOK'
  <2>1. /\ m_write_idx' \in Heads \cup {0} /\ bytes_to_send' \in Nat /\ bytes_have_send' \in Nat
        /\ m_iv_count' \in 1..2 /\ maps' \in Nat /\ headCuts' \in 0..2
    BY <1>1, <1>2, <1>3
  <2>2. wire' \in Seq({"head", "file"} \X Int) /\ lost' \in 0..MaxLost
        /\ response' \in [head : Heads \cup {0}, file : Files \cup {0}]
        /\ outcome' \in {"none", "pending", "sent", "lost"}
        /\ wpc' \in {"idle", "ready", "writing", "closed", "crashed"}
    BY <1>3 DEF WriteInv, WriteTypeOK
  <2>3. QED
    BY <2>1, <2>2 DEF WriteTypeOK
<1>6. Balance'
  <2>1. Offered' = h + (IF n > 0 THEN n ELSE 0)
    BY <1>1 DEF Offered
  <2>2. Len(wire') = 0
    BY <1>3
  <2>3. QED
    BY <1>1, <1>3, <1>4, <2>1, <2>2 DEF Balance
<1>7. Shapes'
  BY <1>3, <1>4 DEF Shapes, Untouched, FileWhole
<1>8. IdleFresh' /\ Pending'
  BY <1>3 DEF IdleFresh, Pending
<1>9. Mapped'
  BY <1>1, <1>2, <1>4 DEF WriteInv, Mapped
<1>10. MappingsReleased'
  <2>1. ~FilePending /\ maps <= lost
    BY <1>2 DEF WriteInv, Pending, MappingsReleased, FilePending
  <2>2. FilePending' <=> n > 0
    BY <1>3, <1>4 DEF FilePending
  <2>3. QED
    BY <1>2, <1>3, <2>1, <2>2 DEF MappingsReleased
<1>11. ResponseInOrder'
  BY <1>1, <1>3, <1>4 DEF ResponseInOrder
<1>12. QED
  BY <1>5, <1>6, <1>7, <1>8, <1>9, <1>10, <1>11 DEF WriteInv

LEMMA Responds ==
  ASSUME WriteInv, NEW h \in Heads,
         RespondPage(h) \/ RespondNothing(h) \/ \E n \in Files : RespondFile(h, n)
  PROVE  WriteInv'
<1>1. CASE RespondPage(h)
  <2>1. m_iv' \in [0..1 -> Window] /\ m_iv'[0] = [at |-> 0, len |-> h]
    <3>1. [at |-> 0, len |-> h] \in Window
      BY WriteAssumption DEF Window
    <3>2. QED
      BY <1>1, <3>1 DEF RespondPage, WriteInv, WriteTypeOK
  <2>2. m_file_address' = m_file_address /\ maps' = maps + 0
    BY <1>1, Numbers DEF RespondPage, WriteInv
  <2>3. QED
    BY <1>1, <2>1, <2>2, Begins DEF RespondPage, WriteInv, WriteTypeOK
<1>2. ASSUME NEW n \in Files, RespondFile(h, n)
      PROVE  WriteInv'
  <2>1. /\ m_iv' \in [0..1 -> Window]
        /\ m_iv'[0] = [at |-> 0, len |-> h] /\ m_iv'[1] = [at |-> 0, len |-> n]
    BY <1>2, WriteAssumption DEF RespondFile, Window
  <2>2. n > 0 /\ n # 0 /\ n \in Nat
    BY <1>2, WriteAssumption DEF RespondFile
  <2>3. QED
    BY <1>2, <2>1, <2>2, Begins DEF RespondFile
<1>3. CASE RespondNothing(h)
  <2>1. /\ wpc = "idle" /\ wpc' = "closed" /\ m_write_idx' = h
        /\ UNCHANGED <<m_iv, m_iv_count, bytes_to_send, bytes_have_send, maps, wire, response,
                       outcome, headCuts, lost>>
        /\ m_file_address' \in {-1, m_file_address} /\ m_file_stat' \in {0, m_file_stat}
    BY <1>3 DEF RespondNothing, outVars
  <2>2. WriteTypeOK'
    BY <2>1 DEF WriteInv, WriteTypeOK
  <2>3. Balance' /\ Shapes' /\ IdleFresh' /\ Pending' /\ Mapped'
    BY <2>1, Numbers DEF WriteInv, Balance, Shapes, InHand, IdleFresh, Pending, Mapped
  <2>4. ResponseInOrder' /\ MappingsReleased'
    BY <2>1 DEF WriteInv, ResponseInOrder, ResponseByte, MappingsReleased, FilePending
  <2>5. QED
    BY <2>2, <2>3, <2>4 DEF WriteInv
<1>4. QED
  BY <1>1, <1>2, <1>3

\* Between two responses.
LEMMA Fresh ==
  ASSUME WriteInv, wpc \in {"idle", "closed"}, wpc' = "idle", NextResponse,
         ClearedWindows \/ (wpc = "idle" /\ UNCHANGED windowVars), UNCHANGED <<fileVars, lost>>
  PROVE  WriteInv'
<1>1. /\ m_write_idx' \in Heads \cup {0} /\ m_iv' \in [0..1 -> Window] /\ m_iv_count' \in 1..2
      /\ bytes_to_send' \in Nat /\ bytes_have_send' \in Nat /\ bytes_have_send' = 0
  BY DEF WriteInv, WriteTypeOK, IdleFresh, ClearedWindows, NoWindows, Window, windowVars
<1>2. /\ wire' = <<>> /\ response' = NoResponse /\ outcome' = "none" /\ headCuts' = 0
      /\ UNCHANGED <<m_file_address, m_file_stat, maps, lost>>
  BY DEF NextResponse, fileVars
<1>3. WriteTypeOK'
  BY <1>1, <1>2 DEF WriteInv, WriteTypeOK, NoResponse
<1>4. Balance' /\ Shapes' /\ IdleFresh' /\ Pending' /\ Mapped'
  BY <1>1, <1>2 DEF WriteInv, Balance, Shapes, InHand, IdleFresh, Pending, Mapped
<1>5. ResponseInOrder'
  BY <1>2 DEF ResponseInOrder, NoResponse
<1>6. MappingsReleased'
  BY <1>2, Numbers DEF WriteInv, Pending, MappingsReleased, FilePending
<1>7. QED
  BY <1>3, <1>4, <1>5, <1>6 DEF WriteInv

LEMMA Breaks ==
  ASSUME WriteInv, HangsUp \/ Stalls \/ Fails \/ PrintsFailedMapping
  PROVE  WriteInv'
<1>1. CASE HangsUp
  <2>1. /\ wpc' = "closed" /\ wpc \in {"idle", "ready"}
        /\ UNCHANGED <<windowVars, fileVars, wire, response, headCuts>>
        /\ outcome' = (IF outcome = "pending" THEN "lost" ELSE outcome)
        /\ lost' = (IF FilePending THEN lost + 1 ELSE lost) /\ lost' \in 0..MaxLost
    BY <1>1, WriteAssumption DEF HangsUp, WriteInv, WriteTypeOK
  <2>2. WriteTypeOK'
    BY <2>1 DEF WriteInv, WriteTypeOK, windowVars, fileVars
  <2>3. Balance' /\ Shapes' /\ IdleFresh' /\ Pending' /\ Mapped'
    BY <2>1 DEF WriteInv, Balance, Shapes, InHand, IdleFresh, Pending, Mapped, fileVars
  <2>4. MappingsReleased'
    BY <2>1, Numbers DEF WriteInv, MappingsReleased, FilePending, fileVars
  <2>5. ResponseInOrder'
    BY <2>1 DEF WriteInv, ResponseInOrder, ResponseByte
  <2>6. QED
    BY <2>2, <2>3, <2>4, <2>5 DEF WriteInv
<1>2. CASE Stalls
  <2>1. wpc = "writing" /\ wpc' = "ready" /\ UNCHANGED <<windowVars, fileVars, outVars, lost>>
    BY <1>2 DEF Stalls
  <2>2. WriteTypeOK' /\ Balance'
    BY <2>1 DEF WriteInv, WriteTypeOK, Balance, InHand, Offered, windowVars, fileVars, outVars
  <2>3. Shapes'
    BY <2>1 DEF WriteInv, Shapes, InHand, Untouched, HeadOnce, FileWhole, HeadDone, windowVars, outVars
  <2>4. IdleFresh' /\ Pending' /\ Mapped'
    BY <2>1 DEF WriteInv, InHand, IdleFresh, Pending, Mapped, fileVars, outVars
  <2>5. ResponseInOrder' /\ MappingsReleased'
    BY <2>1 DEF WriteInv, ResponseInOrder, ResponseByte, MappingsReleased, FilePending, fileVars, outVars
  <2>6. QED
    BY <2>2, <2>3, <2>4, <2>5 DEF WriteInv
<1>3. CASE Fails
  <2>1. /\ InHand /\ Unmapped /\ wpc' = "closed" /\ outcome' = "lost"
        /\ UNCHANGED <<windowVars, wire, response, headCuts, lost>>
    BY <1>3 DEF Fails, InWrite, InHand
  <2>2. m_file_address' = 0 /\ maps' \in Nat /\ maps' <= lost /\ m_file_stat' = m_file_stat
    BY <2>1, Unmaps
  <2>3. WriteTypeOK'
    BY <2>1, <2>2 DEF WriteInv, WriteTypeOK, windowVars
  <2>4. Balance' /\ Shapes' /\ IdleFresh' /\ Pending' /\ Mapped'
    BY <2>1, <2>2 DEF WriteInv, Balance, Shapes, InHand, IdleFresh, Pending, Mapped
  <2>5. MappingsReleased'
    BY <2>1, <2>2, Numbers DEF WriteInv, MappingsReleased, FilePending
  <2>6. ResponseInOrder'
    BY <2>1 DEF WriteInv, ResponseInOrder, ResponseByte
  <2>7. QED
    BY <2>3, <2>4, <2>5, <2>6 DEF WriteInv
<1>4. CASE PrintsFailedMapping
  <2>1. wpc = "ready" /\ wpc' = "crashed" /\ UNCHANGED <<windowVars, fileVars, outVars, lost>>
    BY <1>4 DEF PrintsFailedMapping
  <2>2. WriteTypeOK' /\ Balance' /\ Shapes'
    BY <2>1 DEF WriteInv, WriteTypeOK, Balance, Shapes, InHand, windowVars, fileVars, outVars
  <2>3. IdleFresh' /\ Pending' /\ Mapped'
    BY <2>1 DEF WriteInv, InHand, IdleFresh, Pending, Mapped, fileVars, outVars
  <2>4. ResponseInOrder' /\ MappingsReleased'
    BY <2>1 DEF WriteInv, ResponseInOrder, ResponseByte, MappingsReleased, FilePending, fileVars, outVars
  <2>5. QED
    BY <2>2, <2>3, <2>4 DEF WriteInv
<1>5. QED
  BY <1>1, <1>2, <1>3, <1>4

LEMMA WriteStep == ASSUME WriteInv, [WriteNext]_writeVars PROVE WriteInv'
<1>1. CASE Opens
  <2>1. /\ wpc \in {"idle", "closed"} /\ wpc' = "idle" /\ NextResponse /\ ClearedWindows
        /\ UNCHANGED <<fileVars, lost>>
    BY <1>1 DEF Opens
  <2>2. QED
    BY <2>1, Fresh
<1>2. CASE AsksAgain
  BY <1>2, Fresh DEF AsksAgain
<1>3. ASSUME NEW keep \in BOOLEAN, NEW t \in Takes, Writev(t, keep)
      PROVE  WriteInv'
  BY <1>3, WritevGoesOn, WritevEnds
<1>4. CASE UNCHANGED writeVars
  BY <1>4 DEF WriteInv, WriteTypeOK, Balance, Shapes, InHand, Untouched, HeadOnce, FileWhole, HeadDone,
              IdleFresh, Pending, Mapped, ResponseInOrder, ResponseByte, MappingsReleased, FilePending,
              Offered, writeVars, windowVars, fileVars, outVars
<1>5. QED
  BY <1>1, <1>2, <1>3, <1>4, Responds, Breaks DEF WriteNext, Sending

LEMMA WriteStarts == WriteInit => WriteInv
<1> SUFFICES ASSUME WriteInit PROVE WriteInv
  OBVIOUS
<1>1. WriteTypeOK
  BY WriteAssumption DEF WriteInit, WriteTypeOK, NoWindows, NoResponse, Window
<1>2. Balance /\ Shapes /\ IdleFresh /\ Pending /\ Mapped
  BY DEF WriteInit, Balance, Shapes, InHand, IdleFresh, Pending, Mapped
<1>3. ResponseInOrder /\ MappingsReleased
  BY DEF WriteInit, ResponseInOrder, MappingsReleased, FilePending, NoResponse
<1>4. QED
  BY <1>1, <1>2, <1>3 DEF WriteInv

LEMMA WriteInvariant == WriteSpec => []WriteInv
BY WriteStarts, WriteStep, PTL DEF WriteSpec

(* http_connect.cpp:601: the windows, counts and mappings of the writer keep their    *)
(* types for every size of header and file, and every part that writev() may take.    *)
THEOREM WriteTyping == WriteSpec => []WriteTypeOK
<1>1. WriteInv => WriteTypeOK
  BY DEF WriteInv
<1>2. QED
  BY <1>1, WriteInvariant, PTL

(* http_connect.cpp:627: as long as no second writev() stops inside the header, the   *)
(* client gets header and file byte by byte, and all of them when Write() is done.    *)
THEOREM ResponseGoesInOrder == WriteSpec => []ResponseInOrder
<1>1. WriteInv => ResponseInOrder
  BY DEF WriteInv
<1>2. QED
  BY <1>1, WriteInvariant, PTL

(* http_connect.cpp:660: unmap() releases every mapping, but for those of responses   *)
(* whose client has hung up.                                                          *)
THEOREM MappingsAreReleased == WriteSpec => []MappingsReleased
<1>1. WriteInv => MappingsReleased
  BY DEF WriteInv
<1>2. QED
  BY <1>1, WriteInvariant, PTL

-----------------------------------------------------------------------------
(* The parser, and the connection of the two. *)

\* A symbol is a name and a number.
Tagged ==
  {"GET", "POST", "BAD", "NOPATH", "CR", "LF", "NUL",
   "Connection: keep-alive", "Host", "Content-length", "body"} \X Nat

\* The client has sent no more than its request.
SentOK == sent <= (IF request = None THEN 0 ELSE Len(Text(request)))

ParseInv == ParseTypeOK /\ SentOK

LEMMA HeaderTagged ==
  ASSUME NEW hs \in Seq(Tagged)
  PROVE  HeaderText(hs) \in Seq(Tagged)
<1>1. \A k \in 1..(3 * Len(hs)) : k % 3 = 1 => (k + 2) \div 3 \in 1..Len(hs)
  OBVIOUS
<1>2. CR \in Tagged /\ LF \in Tagged
  BY DEF CR, LF, Tagged
<1>3. \A i \in 1..Len(hs) : hs[i] \in Tagged
  OBVIOUS
<1> DEFINE e(k) == IF k % 3 = 1 THEN hs[(k + 2) \div 3] ELSE IF k % 3 = 2 THEN CR ELSE LF
<1>4. \A k \in 1..(3 * Len(hs)) : e(k) \in Tagged
  BY <1>1, <1>2, <1>3
<1>5. 3 * Len(hs) \in Nat
  OBVIOUS
<1> HIDE DEF e
<1>6. [k \in 1..(3 * Len(hs)) |-> e(k)] \in Seq(Tagged)
  BY <1>4, <1>5
<1>7. QED
  BY <1>6 DEF HeaderText, e

LEMMA TextTagged ==
  ASSUME NEW r \in Requests
  PROVE  Text(r) \in Seq(Tagged)
<1>1. /\ r.method \in {"GET", "POST", "BAD", "NOPATH"} /\ r.body \in Nat
      /\ r.headers \in Seq({KeepAlive, Other, ContentLength(r.body)})
  BY ParseAssumption DEF IsRequest
<1>2. {KeepAlive, Other, ContentLength(r.body)} \subseteq Tagged
  <2>1. KeepAlive \in Tagged /\ Other \in Tagged
    BY DEF KeepAlive, Other, Tagged
  <2>2. ContentLength(r.body) \in Tagged
    BY <1>1 DEF ContentLength, Tagged
  <2>3. QED
    BY <2>1, <2>2
<1>3. r.headers \in Seq(Tagged)
  BY <1>1, <1>2
<1>4. HeaderText(r.headers) \in Seq(Tagged)
  BY <1>3, HeaderTagged
<1>5. <<r.method, 0>> \in Tagged /\ CR \in Tagged /\ LF \in Tagged
  BY <1>1 DEF CR, LF, Tagged
<1>6. <<<<r.method, 0>>>> \in Seq(Tagged) /\ <<LF>> \in Seq(Tagged) /\ <<CR, LF>> \in Seq(Tagged)
  BY <1>5
<1>7. (IF r.eol = "LF" THEN <<LF>> ELSE <<CR, LF>>) \in Seq(Tagged)
  BY <1>6
<1>8. HeadOf(r) \in Seq(Tagged)
  BY <1>4, <1>6, <1>7, ConcatProperties DEF HeadOf
<1>9. Body(r) \in Seq(Tagged)
  <2>1. \A i \in Nat : <<"body", i>> \in Tagged
    BY DEF Tagged
  <2>2. \A i \in 1..r.body : i \in Nat
    BY <1>1
  <2>3. QED
    BY <1>1, <2>1, <2>2 DEF Body
<1>10. QED
  BY <1>8, <1>9, ConcatProperties DEF Text

LEMMA SeqOf ==
  ASSUME NEW A, NEW B, NEW s \in Seq(A), \A i \in 1..Len(s) : s[i] \in B
  PROVE  s \in Seq(B)
<1>1. SubSeq(s, 1, Len(s)) \in Seq(B)
  BY SubSeqProperties
<1>2. QED
  BY <1>1, SubSeqFull

LEMMA SymbolsAre ==
  /\ NUL \in Symbols
  /\ \A r \in Requests : SetOf(Text(r)) \subseteq Symbols
  /\ \A s \in Symbols : s = NUL \/ \E r \in Requests : s \in SetOf(Text(r))
<1> DEFINE sets == {SetOf(Text(r)) : r \in Requests}
<1>1. Symbols = {NUL} \cup UNION sets
  BY DEF Symbols
<1>2. \A r \in Requests : SetOf(Text(r)) \in sets
  OBVIOUS
<1>3. \A A \in sets : \E r \in Requests : A = SetOf(Text(r))
  OBVIOUS
<1> HIDE DEF sets
<1>4. \A s : s \in Symbols <=> s = NUL \/ \E A \in sets : s \in A
  BY <1>1
<1>5. QED
  BY <1>2, <1>3, <1>4

LEMMA SymbolsTagged ==
  /\ \A s \in Symbols : s[2] \in Nat
  /\ NUL \in Symbols
  /\ \A r \in Requests : Text(r) \in Seq(Symbols)
<1>1. \A r \in Requests : \A s \in SetOf(Text(r)) : s \in Tagged
  BY TextTagged DEF SetOf
<1>2. \A s \in Symbols : s \in Tagged
  <2>1. NUL \in Tagged
    BY DEF NUL, Tagged
  <2>2. QED
    BY <1>1, <2>1, SymbolsAre
<1>3. \A s \in Tagged : s[2] \in Nat
  BY DEF Tagged
<1>4. ASSUME NEW r \in Requests PROVE Text(r) \in Seq(Symbols)
  <2>1. Text(r) \in Seq(Tagged)
    BY TextTagged
  <2>2. \A i \in 1..Len(Text(r)) : Text(r)[i] \in SetOf(Text(r))
    BY DEF SetOf
  <2>3. \A i \in 1..Len(Text(r)) : Text(r)[i] \in Symbols
    BY <2>2, SymbolsAre
  <2>4. QED
    BY <2>1, <2>3, SeqOf
<1>5. QED
  BY <1>2, <1>3, <1>4, SymbolsAre

\* The parser's state in numbers and sequences.
LEMMA Places ==
  ASSUME ParseInv
  PROVE  /\ m_read_buf \in Seq(Symbols) /\ m_read_idx \in Nat /\ m_read_idx <= READ_BUFF_SIZE
         /\ m_check_idx \in Nat /\ m_check_idx <= m_read_idx
         /\ m_start_line \in Nat /\ m_start_line <= m_check_idx
         /\ m_content_len \in Nat /\ sent \in Nat /\ READ_BUFF_SIZE \in Nat
<1>1. m_read_buf \in Seq(Symbols) /\ Len(m_read_buf) \in Nat
  BY DEF ParseInv, ParseTypeOK
<1>2. QED
  BY <1>1, ParseAssumption DEF ParseInv, ParseTypeOK, m_read_idx

LEMMA ClearedTypes ==
  ASSUME ParseInv, Cleared, NoRequestYet, pc' = "read", UNCHANGED line_status
  PROVE  ParseInv'
<1>1. m_read_buf' \in Seq(Symbols) /\ Len(m_read_buf') = 0
  BY DEF Cleared
<1>2. ParseTypeOK'
  <2>1. m_read_idx' = 0 /\ 0 <= READ_BUFF_SIZE
    BY <1>1, ParseAssumption DEF m_read_idx
  <2>2. /\ m_check_idx' \in 0..m_read_idx' /\ m_start_line' \in 0..m_check_idx'
        /\ m_content_len' \in Nat /\ sent' \in Nat
    BY <2>1 DEF Cleared, NoRequestYet
  <2>3. /\ m_check_state' = "REQUESTLINE" /\ m_link' = FALSE /\ cgi' = 0 /\ m_string' = m_string
        /\ request' = None /\ bodyCut' = FALSE /\ verdict' = "NO_REQUEST"
    BY DEF Cleared, NoRequestYet
  <2>4. QED
    BY <1>1, <2>1, <2>2, <2>3 DEF ParseInv, ParseTypeOK
<1>3. SentOK'
  BY DEF NoRequestYet, SentOK
<1>4. QED
  BY <1>2, <1>3 DEF ParseInv

LEMMA ClosesTypes == ASSUME ParseInv, ParserCloses PROVE ParseInv'
BY DEF ParseInv, ParseTypeOK, SentOK, ParserCloses, clientVars, placeVars, requestVars, m_read_idx

LEMMA ClientTypes ==
  ASSUME ParseInv, (\E r \in Requests : Asks(r)) \/ \E n \in 1..READ_BUFF_SIZE : Sends(n)
  PROVE  ParseInv'
<1>1. \A r \in Requests : Len(Text(r)) \in Nat
  BY SymbolsTagged
<1>2. ASSUME NEW r \in Requests, Asks(r) PROVE ParseInv'
  <2>1. /\ request' = r /\ request = None
        /\ UNCHANGED <<sent, m_read_buf, placeVars, requestVars, line_status, pc, verdict, bodyCut>>
    BY <1>2 DEF Asks
  <2>2. ParseTypeOK'
    BY <2>1 DEF ParseInv, ParseTypeOK, placeVars, requestVars, m_read_idx
  <2>3. SentOK'
    BY <1>1, <2>1, ParseAssumption DEF ParseInv, ParseTypeOK, SentOK
  <2>4. QED
    BY <2>2, <2>3 DEF ParseInv
<1>3. ASSUME NEW n \in 1..READ_BUFF_SIZE, Sends(n) PROVE ParseInv'
  <2>1. /\ request # None /\ sent + n <= Len(Text(request)) /\ sent' = sent + n
        /\ UNCHANGED <<request, m_read_buf, placeVars, requestVars, line_status, pc, verdict, bodyCut>>
    BY <1>3 DEF Sends
  <2>2. sent' \in Nat
    BY <2>1, ParseAssumption DEF ParseInv, ParseTypeOK
  <2>3. ParseTypeOK'
    BY <2>1, <2>2 DEF ParseInv, ParseTypeOK, placeVars, requestVars, m_read_idx
  <2>4. SentOK'
    BY <2>1 DEF SentOK
  <2>5. QED
    BY <2>3, <2>4 DEF ParseInv
<1>4. QED
  BY <1>2, <1>3

LEMMA ReadTypes == ASSUME ParseInv, ReadAll PROVE ParseInv'
<1>1. /\ request # None /\ sent > m_read_idx /\ sent <= READ_BUFF_SIZE
      /\ m_read_buf' = m_read_buf \o Arrived
      /\ bodyCut' = (bodyCut \/ SplitsBody(sent))
      /\ pc' = "parse" /\ line_status' = "OK"
      /\ UNCHANGED <<clientVars, placeVars, requestVars, verdict>>
  BY DEF ReadAll
<1>2. request \in Requests /\ Text(request) \in Seq(Symbols) /\ Len(Text(request)) \in Nat
  BY <1>1, SymbolsTagged DEF ParseInv, ParseTypeOK
<1>3. sent <= Len(Text(request))
  BY <1>1 DEF ParseInv, SentOK
<1>4. Arrived \in Seq(Symbols) /\ Len(Arrived) = sent - m_read_idx
  <2>1. m_read_idx + 1 \in Int /\ sent \in Int /\ m_read_idx + 1 <= sent
    BY <1>1, Places
  <2>2. \A i \in (m_read_idx + 1)..sent : i \in 1..Len(Text(request))
    BY <1>2, <1>3, Places
  <2>3. \A i \in (m_read_idx + 1)..sent : Text(request)[i] \in Symbols
    BY <1>2, <2>2
  <2>4. /\ SubSeq(Text(request), m_read_idx + 1, sent) \in Seq(Symbols)
        /\ Len(SubSeq(Text(request), m_read_idx + 1, sent)) = (sent - (m_read_idx + 1)) + 1
    BY <2>1, <2>3, SubSeqProperties
  <2>5. QED
    BY <2>1, <2>4, Places DEF Arrived
<1>5. m_read_buf' \in Seq(Symbols) /\ Len(m_read_buf') = sent
  <2>1. m_read_buf' \in Seq(Symbols) /\ Len(m_read_buf') = Len(m_read_buf) + Len(Arrived)
    BY <1>1, <1>4, Places, ConcatProperties
  <2>2. QED
    BY <1>4, <2>1, Places DEF m_read_idx
<1>6. m_check_idx' \in 0..m_read_idx' /\ m_start_line' \in 0..m_check_idx'
  BY <1>1, <1>5, Places DEF m_read_idx, placeVars
<1>7. bodyCut' \in BOOLEAN
  BY <1>1 DEF SplitsBody
<1>8. ParseTypeOK'
  BY <1>1, <1>5, <1>6, <1>7 DEF ParseInv, ParseTypeOK, clientVars, placeVars, requestVars, m_read_idx
<1>9. SentOK'
  BY <1>1 DEF ParseInv, SentOK, clientVars
<1>10. QED
  BY <1>8, <1>9 DEF ParseInv

\* A line that ends leaves the place inside the buffer.
LEMMA LineTypes ==
  ASSUME ParseInv, NEW text, LineOk(text)
  PROVE  /\ m_read_buf' \in Seq(Symbols) /\ Len(m_read_buf') = m_read_idx
         /\ m_check_idx' \in 0..m_read_idx /\ m_start_line' = m_check_idx'
<1>1. PICK i \in CrPlaces :
        /\ m_read_buf' = [m_read_buf EXCEPT ![i + 1] = NUL, ![i + 2] = NUL]
        /\ m_check_idx' = i + 2 /\ m_start_line' = i + 2
  BY DEF LineOk
<1>2. i \in Nat /\ i <= m_read_idx - 2
  BY Places DEF CrPlaces
<1>3. i + 1 \in 1..Len(m_read_buf) /\ i + 2 \in 1..Len(m_read_buf)
  BY <1>2, Places DEF m_read_idx
<1> DEFINE half == [m_read_buf EXCEPT ![i + 1] = NUL]
<1>4. half \in Seq(Symbols) /\ Len(half) = Len(m_read_buf)
  BY <1>3, Places, SymbolsTagged, ExceptSeq
<1>5. m_read_buf' = [half EXCEPT ![i + 2] = NUL]
  BY <1>1
<1> HIDE DEF half
<1>6. m_read_buf' \in Seq(Symbols) /\ Len(m_read_buf') = Len(m_read_buf)
  BY <1>3, <1>4, <1>5, SymbolsTagged, ExceptSeq
<1>7. QED
  BY <1>1, <1>2, <1>6, Places DEF m_read_idx

\* The store at the end of a body stays in the buffer or changes nothing.
LEMMA TerminatedTypes ==
  ASSUME ParseInv, NEW p \in Nat
  PROVE  Terminated(p) \in Seq(Symbols) /\ Len(Terminated(p)) = Len(m_read_buf)
<1>1. CASE p < m_read_idx
  <2>1. p + 1 \in 1..Len(m_read_buf)
    BY <1>1, Places DEF m_read_idx
  <2>2. QED
    BY <1>1, <2>1, Places, SymbolsTagged, ExceptSeq DEF Terminated
<1>2. CASE ~(p < m_read_idx)
  BY <1>2, Places DEF Terminated
<1>3. QED
  BY <1>1, <1>2

LEMMA StepTypes == ASSUME ParseInv, ParseStep PROVE ParseInv'
<1>1. ASSUME NEW idx \in 0..m_read_idx, NeedsMore(idx), m_start_line <= idx
      PROVE  ParseInv'
  BY <1>1, Places DEF ParseInv, ParseTypeOK, SentOK, NeedsMore, clientVars, requestVars, m_read_idx
<1>2. CASE LineOpen
  <2>1. PICK idx \in m_check_idx..m_read_idx : NeedsMore(idx)
    BY <1>2 DEF LineOpen
  <2>2. QED
    BY <1>1, <2>1, Places
<1>3. CASE LineBad
  <2>1. PICK idx \in m_check_idx..(m_read_idx - 1) : NeedsMore(idx)
    BY <1>3 DEF LineBad
  <2>2. QED
    BY <1>1, <2>1, Places
<1>4. ASSUME NEW text, LineOk(text), UNCHANGED <<clientVars, line_status, bodyCut>>,
             m_check_state' \in {"REQUESTLINE", "HEADER", "CONTENT"},
             m_content_len' \in Nat, m_link' \in BOOLEAN, cgi' \in {0, 1}, m_string' = m_string,
             pc' \in {"parse", "answer", "crashed"}, verdict' \in {"NO_REQUEST", "GET_REQUEST", "BAD_REQUEST"}
      PROVE  ParseInv'
  <2>1. /\ m_read_buf' \in Seq(Symbols) /\ Len(m_read_buf') = m_read_idx
        /\ m_check_idx' \in 0..m_read_idx /\ m_start_line' = m_check_idx'
    BY <1>4, LineTypes
  <2>2. m_start_line' \in 0..m_check_idx' /\ m_read_idx' = m_read_idx /\ m_read_idx <= READ_BUFF_SIZE
    BY <2>1, Places DEF m_read_idx
  <2>3. ParseTypeOK'
    BY <1>4, <2>1, <2>2 DEF ParseInv, ParseTypeOK, clientVars
  <2>4. SentOK'
    BY <1>4 DEF ParseInv, SentOK, clientVars
  <2>5. QED
    BY <2>3, <2>4 DEF ParseInv
<1>5. ASSUME NEW text \in Symbols, RequestLine(text) PROVE ParseInv'
  <2>1. LineOk(text) /\ UNCHANGED <<clientVars, m_content_len, m_link, m_string, line_status, bodyCut>>
    BY <1>5 DEF RequestLine
  <2>2. pc = "parse"
    BY <2>1 DEF LineOk, CallsParseLine
  <2>3. /\ cgi' \in {0, 1} /\ m_check_state' \in {"REQUESTLINE", "HEADER", "CONTENT"}
        /\ pc' \in {"parse", "answer", "crashed"} /\ verdict' \in {"NO_REQUEST", "GET_REQUEST", "BAD_REQUEST"}
    BY <1>5, <2>2 DEF RequestLine, Decides, ParseInv, ParseTypeOK
  <2>4. QED
    BY <1>4, <2>1, <2>3 DEF ParseInv, ParseTypeOK
<1>6. ASSUME NEW text \in Symbols, Header(text) PROVE ParseInv'
  <2>1. /\ LineOk(text) /\ m_link' = (m_link \/ text = KeepAlive)
        /\ m_content_len' = (IF text[1] = "Content-length" THEN text[2] ELSE m_content_len)
        /\ UNCHANGED <<clientVars, m_check_state, cgi, m_string, line_status, pc, verdict, bodyCut>>
    BY <1>6 DEF Header
  <2>2. pc = "parse"
    BY <2>1 DEF LineOk, CallsParseLine
  <2>3. m_content_len' \in Nat
    BY <2>1, SymbolsTagged, Places
  <2>4. m_link' \in BOOLEAN
    BY <2>1
  <2>5. QED
    BY <1>4, <2>1, <2>2, <2>3, <2>4 DEF ParseInv, ParseTypeOK
<1>7. CASE EmptyLine
  <2>1. LineOk(NUL) /\ UNCHANGED <<clientVars, requestVars, line_status, bodyCut>>
    BY <1>7 DEF EmptyLine
  <2>2. pc = "parse"
    BY <2>1 DEF LineOk, CallsParseLine
  <2>3. /\ m_check_state' \in {"REQUESTLINE", "HEADER", "CONTENT"}
        /\ pc' \in {"parse", "answer", "crashed"} /\ verdict' \in {"NO_REQUEST", "GET_REQUEST", "BAD_REQUEST"}
    BY <1>7, <2>2 DEF EmptyLine, Decides, ParseInv, ParseTypeOK
  <2>4. QED
    BY <1>4, <2>1, <2>3 DEF ParseInv, ParseTypeOK, requestVars
<1>8. CASE Content
  <2>1. /\ pc = "parse" /\ m_start_line' = m_check_idx
        /\ UNCHANGED <<clientVars, m_check_idx, m_check_state, m_content_len, m_link, cgi, bodyCut>>
        /\ m_read_buf' = m_read_buf \/ m_read_buf' = Terminated(m_start_line + m_content_len)
    BY <1>8 DEF Content
  <2>1a. m_read_buf' \in Seq(Symbols) /\ Len(m_read_buf') = Len(m_read_buf)
    BY <2>1, Places, TerminatedTypes
  <2>2. m_string' \in Seq(Symbols) \cup {None}
    <3>1. CASE BodyComplete /\ m_string' = SubSeq(m_read_buf, m_start_line + 1, m_start_line + m_content_len)
      <4>1. m_read_idx >= m_content_len + m_check_idx
        BY <3>1 DEF BodyComplete
      <4>2. \A j \in (m_start_line + 1)..(m_start_line + m_content_len) : j \in 1..Len(m_read_buf)
        BY <4>1, Places DEF m_read_idx
      <4>3. \A j \in (m_start_line + 1)..(m_start_line + m_content_len) : m_read_buf[j] \in Symbols
        BY <4>2, Places
      <4>4. m_start_line + 1 \in Int /\ m_start_line + m_content_len \in Int
        BY Places
      <4>5. m_string' \in Seq(Symbols)
        BY <3>1, <4>3, <4>4, SubSeqProperties
      <4>6. QED
        BY <4>5
    <3>2. CASE m_string' = m_string
      BY <3>2 DEF ParseInv, ParseTypeOK
    <3>3. QED
      BY <1>8, <3>1, <3>2 DEF Content
  <2>3. /\ line_status' \in {"OK", "OPEN"} /\ pc' \in {"parse", "answer", "crashed"}
        /\ verdict' \in {"NO_REQUEST", "GET_REQUEST", "BAD_REQUEST"}
    BY <1>8, <2>1 DEF Content, Decides, ParseInv, ParseTypeOK
  <2>4. m_read_idx' = m_read_idx /\ m_start_line' \in 0..m_check_idx'
    BY <2>1, <2>1a, Places DEF m_read_idx
  <2>5. ParseTypeOK'
    BY <2>1, <2>1a, <2>2, <2>3, <2>4 DEF ParseInv, ParseTypeOK, clientVars
  <2>6. SentOK'
    BY <2>1 DEF ParseInv, SentOK, clientVars
  <2>7. QED
    BY <2>5, <2>6 DEF ParseInv
<1>9. QED
  BY <1>2, <1>3, <1>5, <1>6, <1>7, <1>8 DEF ParseStep

-----------------------------------------------------------------------------

\* The writer waits while the parser reads.
ParserFirst == pc \in {"read", "parse"} => wpc = "idle"

ConnInv == ParseInv /\ WriteInv /\ ParserFirst

\* Where a step of the parser leads.
LEMMA StepPlaces == ASSUME ParseStep PROVE pc = "parse" /\ pc' \in {"read", "parse", "answer", "crashed"}
BY DEF ParseStep, LineOpen, LineBad, EmptyLine, Content, RequestLine, Header, LineOk, CallsParseLine,
       NeedsMore, Decides

\* A connection that the parser closes: the writer had nothing to send.
LEMMA WriterClosesIdle ==
  ASSUME WriteInv, wpc = "idle", WriterCloses
  PROVE  HangsUp
BY DEF WriteInv, Pending, WriterCloses, HangsUp, FilePending, windowVars, fileVars, outVars

\* Every step of the connection is one of the writer or leaves it alone.
LEMMA ConnIsWriter == ASSUME ConnInv, [Next]_connVars PROVE [WriteNext]_writeVars
<1>1. CASE Open
  BY <1>1 DEF Open, WriteNext
<1>2. CASE Client
  BY <1>2 DEF Client, WriteNext
<1>3. CASE Read
  <2>1. CASE UNCHANGED writeVars
    BY <2>1
  <2>2. CASE ReadFails /\ WriterCloses
    <3>1. wpc = "idle"
      BY <2>2 DEF ReadFails, ConnInv, ParserFirst
    <3>2. HangsUp
      BY <2>2, <3>1, WriterClosesIdle DEF ConnInv
    <3>3. QED
      BY <3>2 DEF WriteNext
  <2>3. QED
    BY <1>3, <2>1, <2>2 DEF Read
<1>4. CASE Parse
  BY <1>4 DEF Parse
<1>5. CASE Respond
  BY <1>5 DEF Respond, WriteNext
<1>6. CASE Send
  <2>1. m_link \in BOOLEAN
    BY DEF ConnInv, ParseInv, ParseTypeOK
  <2>2. ASSUME NEW t \in Takes, Writev(t, m_link) PROVE WriteNext
    BY <2>1, <2>2 DEF WriteNext, Sending
  <2>3. CASE Stalls \/ PrintsFailedMapping \/ Fails
    BY <2>3 DEF WriteNext, Sending
  <2>4. QED
    BY <1>6, <2>2, <2>3 DEF Send
<1>7. CASE HangUp
  BY <1>7 DEF HangUp, WriteNext
<1>8. CASE UNCHANGED connVars
  BY <1>8 DEF connVars
<1>9. QED
  BY <1>1, <1>2, <1>3, <1>4, <1>5, <1>6, <1>7, <1>8 DEF Next

LEMMA ConnStep == ASSUME ConnInv, [Next]_connVars PROVE ConnInv'
<1>1. WriteInv'
  BY ConnIsWriter, WriteStep DEF ConnInv
<1> USE DEF ConnInv
<1>2. ASSUME UNCHANGED parseVars PROVE ParseInv' /\ pc' = pc
  BY <1>2 DEF ParseInv, ParseTypeOK, SentOK, parseVars, clientVars, placeVars, requestVars, m_read_idx
<1>3. CASE Open
  BY <1>1, <1>3, ClearedTypes DEF Open, ParserOpens, ParserFirst, Opens
<1>4. CASE Client
  <2>1. ParseInv' /\ pc' = pc /\ wpc' = wpc
    BY <1>4, ClientTypes DEF Client, Asks, Sends, AsksAgain, writeVars
  <2>2. QED
    BY <1>1, <2>1 DEF ParserFirst
<1>5. CASE Read
  <2>1. CASE ReadAll /\ UNCHANGED writeVars
    BY <1>1, <2>1, ReadTypes DEF ReadAll, ParserFirst, writeVars
  <2>2. CASE ReadFails
    BY <1>1, <2>2, ClosesTypes DEF ReadFails, ParserCloses, ParserFirst
  <2>3. QED
    BY <1>5, <2>1, <2>2 DEF Read
<1>6. CASE Parse
  BY <1>1, <1>6, StepTypes, StepPlaces DEF Parse, ParserFirst, writeVars
<1>7. CASE Respond
  <2>1. pc = "answer" /\ (UNCHANGED parseVars \/ ParserCloses)
    BY <1>7 DEF Respond
  <2>2. ParseInv' /\ pc' \in {"answer", "closed"}
    BY <1>2, <2>1, ClosesTypes DEF ParserCloses
  <2>3. QED
    BY <1>1, <2>2 DEF ParserFirst
<1>8. CASE Send
  <2>1. ASSUME Replied, wpc' = "idle" PROVE ParseInv' /\ ParserFirst'
    BY <2>1, ClearedTypes DEF Replied, ParserFirst
  <2>2. ASSUME ParserCloses PROVE ParseInv' /\ ParserFirst'
    BY <2>2, ClosesTypes DEF ParserCloses, ParserFirst
  <2>3. ASSUME UNCHANGED parseVars, wpc # "idle" PROVE ParseInv' /\ ParserFirst'
    BY <1>2, <2>3 DEF ParserFirst
  <2>4. wpc # "idle"
    BY <1>8 DEF Send, Writev, InWrite, Stalls, PrintsFailedMapping, Fails
  <2>5. \/ Replied /\ wpc' = "idle"
        \/ ParserCloses
        \/ UNCHANGED parseVars
    BY <1>8 DEF Send
  <2>6. QED
    BY <1>1, <2>1, <2>2, <2>3, <2>4, <2>5
<1>9. CASE HangUp
  BY <1>1, <1>9, ClosesTypes DEF HangUp, ParserCloses, ParserFirst
<1>10. CASE UNCHANGED connVars
  BY <1>1, <1>2, <1>10 DEF connVars, ParserFirst, writeVars
<1>11. QED
  BY <1>3, <1>4, <1>5, <1>6, <1>7, <1>8, <1>9, <1>10 DEF Next

LEMMA ConnStarts == Init => ConnInv
<1> SUFFICES ASSUME Init PROVE ConnInv
  OBVIOUS
<1>1. WriteInv /\ pc = "closed"
  BY WriteStarts DEF Init, ParseInit
<1>2. Len(m_read_buf) = 0 /\ m_read_buf \in Seq(Symbols)
  BY DEF Init, ParseInit
<1>3. ParseTypeOK
  <2>1. m_read_idx = 0 /\ 0 <= READ_BUFF_SIZE
    BY <1>2, ParseAssumption DEF m_read_idx
  <2>2. m_check_idx \in 0..m_read_idx /\ m_start_line \in 0..m_check_idx
    BY <2>1 DEF Init, ParseInit
  <2>3. QED
    BY <1>2, <2>1, <2>2 DEF Init, ParseInit, ParseTypeOK
<1>4. SentOK
  BY DEF Init, ParseInit, SentOK
<1>5. QED
  BY <1>1, <1>3, <1>4 DEF ConnInv, ParseInv, ParserFirst

LEMMA ConnInvariant == Spec => []ConnInv
BY ConnStarts, ConnStep, PTL DEF Spec

(* http_connect.cpp:118, http_connect.cpp:270: Read_once() and the lines taken out of *)
(* the buffer stay inside what has been read, which stays inside the buffer, for any   *)
(* requests, cut into any pieces, on any number of connections one after another.     *)
THEOREM ConnectionTyping == Spec => []ParseTypeOK
<1>1. ConnInv => ParseTypeOK
  BY DEF ConnInv, ParseInv
<1>2. QED
  BY <1>1, ConnInvariant, PTL

(* http_connect.cpp:133: a connection uses its writer as HttpWrite says, whatever the *)
(* parser does.                                                                      *)
THEOREM ConnectionWrites == Spec => WriteSpec
<1>1. Init => WriteInit
  BY DEF Init
<1>2. ConnInv /\ [Next]_connVars => [WriteNext]_writeVars
  BY ConnIsWriter
<1>3. QED
  BY <1>1, <1>2, ConnInvariant, PTL DEF Spec, WriteSpec

(* http_connect.cpp:613: the client of a connection gets its responses byte by byte   *)
(* and in order, up to a second stop inside a header.                                 *)
THEOREM ConnectionResponds == Spec => []ResponseInOrder
BY ConnectionWrites, ResponseGoesInOrder, PTL

(* http_connect.cpp:660: of the mappings a connection has made, those are left whose  *)
(* response a hang-up has cut off.                                                   *)
THEOREM ConnectionUnmaps == Spec => []MappingsReleased
BY ConnectionWrites, MappingsAreReleased, PTL

-----------------------------------------------------------------------------
(* The parser's verdict, for every set of requests, every way in which their bytes     *)
(* arrive and every size of the read buffer: what the parser knows of the request it   *)
(* is in the middle of.                                                                *)

Count(r) == Len(r.headers)

\* What is behind the line the parser is at is as the client sent it, and the byte before it
\* is no CR that an LF could be taken for the end of.
Unparsed ==
  /\ m_read_idx <= sent
  /\ \A j \in (m_start_line + 1)..m_read_idx : m_read_buf[j] = Text(request)[j]
  /\ m_start_line > 0 => m_read_buf[m_start_line] \notin {CR, LF}

\* The first k headers have been read, and nothing, or the next line up to its CR, has been
\* looked at since.
AtHeader(k) ==
  /\ m_start_line = 3 * k + 3
  /\ m_check_idx \in {m_start_line, m_start_line + 1}
  /\ k = Count(request) => m_check_idx = m_start_line
  /\ m_link <=> \E j \in 1..k : request.headers[j] = KeepAlive
  /\ m_content_len = IF \E j \in 1..k : request.headers[j] = ContentLength(request.body)
                       THEN request.body ELSE 0

\* parse_request_line() has not been called.
AtStart ==
  /\ m_check_state = "REQUESTLINE"
  /\ m_start_line = 0 /\ m_check_idx \in {0, 1}
  /\ m_content_len = 0 /\ ~m_link /\ cgi = 0

MethodRead == ~Malformed(request) /\ cgi = (IF request.method = "POST" THEN 1 ELSE 0)

InHeaders ==
  /\ m_check_state = "HEADER" /\ MethodRead
  /\ \E k \in 0..Count(request) : AtHeader(k)

\* The head is read; m_check_idx moves on when the body was not complete at the first look.
InBody ==
  LET head == 3 * Count(request) + 5 IN
  /\ m_check_state = "CONTENT" /\ MethodRead
  /\ request.body > 0 /\ m_content_len = request.body
  /\ m_link <=> KeepAlive \in SetOf(request.headers)
  /\ m_start_line >= head

Progress ==
  CASE request.eol = "LF" -> AtStart
    [] OTHER -> AtStart \/ InHeaders \/ InBody

VerdictInv ==
  /\ pc # "closed" /\ request = None =>
       pc = "read" /\ m_read_idx = 0 /\ sent = 0 /\ AtStart
  /\ pc \in {"read", "parse"} /\ request # None => Unparsed /\ Progress
  /\ VerdictRight

\* The symbols that the parser tells apart.
LEMMA Distinct ==
  /\ CR # LF /\ NUL \notin {CR, LF}
  /\ \A m \in {"GET", "POST", "BAD", "NOPATH"} : <<m, 0>> \notin {CR, LF, NUL}
  /\ \A n \in Nat : \A h \in {KeepAlive, Other, ContentLength(n)} : h \notin {CR, LF, NUL}
  /\ \A n \in Nat : <<"body", n>> \notin {CR, LF, NUL}
  /\ \A n \in Nat : KeepAlive # ContentLength(n) /\ Other # ContentLength(n)
  /\ KeepAlive[1] # "Content-length" /\ Other[1] # "Content-length"
  /\ \A n \in Nat : ContentLength(n)[1] = "Content-length" /\ ContentLength(n)[2] = n
BY DEF CR, LF, NUL, KeepAlive, Other, ContentLength

LEMMA Concats ==
  ASSUME NEW S, NEW s \in Seq(S), NEW t \in Seq(S), NEW u, u = s \o t
  PROVE  /\ u \in Seq(S) /\ Len(u) = Len(s) + Len(t)
         /\ \A i \in 1..Len(s) : u[i] = s[i]
         /\ \A i \in 1..Len(t) : u[Len(s) + i] = t[i]
<1>1. Len(s) \in Nat /\ Len(t) \in Nat
  OBVIOUS
<1>2. u \in Seq(S) /\ Len(u) = Len(s) + Len(t)
  BY ConcatProperties
<1>3. \A i \in 1..Len(s) : u[i] = s[i]
  BY ConcatProperties
<1>4. ASSUME NEW i \in 1..Len(t) PROVE u[Len(s) + i] = t[i]
  <2>1. Len(s) + i \in 1..(Len(s) + Len(t)) /\ Len(s) + i > Len(s) /\ Len(s) + i - Len(s) = i
    BY <1>1
  <2>2. QED
    BY <2>1, ConcatProperties
<1>5. QED
  BY <1>2, <1>3, <1>4

\* What stands where in a request's text.
LEMMA TextAt ==
  ASSUME NEW r \in Requests
  PROVE  /\ Count(r) \in Nat /\ r.body \in Nat /\ Len(Text(r)) \in Nat
         /\ \A k \in 1..Count(r) : r.headers[k] \in {KeepAlive, Other, ContentLength(r.body)}
         /\ r.method \in {"GET", "POST", "BAD", "NOPATH"} /\ Text(r)[1] = <<r.method, 0>>
         /\ r.eol = "LF" => Text(r)[2] = LF
         /\ r.eol # "LF" =>
              /\ Len(Text(r)) = 3 * Count(r) + 5 + r.body
              /\ Text(r)[2] = CR /\ Text(r)[3] = LF
              /\ \A k \in 1..Count(r) : /\ Text(r)[3 * k + 1] = r.headers[k]
                                        /\ Text(r)[3 * k + 2] = CR /\ Text(r)[3 * k + 3] = LF
              /\ Text(r)[3 * Count(r) + 4] = CR /\ Text(r)[3 * Count(r) + 5] = LF
              /\ \A i \in 1..r.body : Text(r)[3 * Count(r) + 5 + i] = <<"body", i>>
<1> DEFINE n == Count(r)
           any == Tagged
           A == <<<<r.method, 0>>>>
           E == IF r.eol = "LF" THEN <<LF>> ELSE <<CR, LF>>
           HT == HeaderText(r.headers)
           Z == <<CR, LF>>
           B == Body(r)
<1>1. /\ r.method \in {"GET", "POST", "BAD", "NOPATH"} /\ r.body \in Nat /\ r.eol \in {"CRLF", "LF"}
      /\ r.headers \in Seq({KeepAlive, Other, ContentLength(r.body)})
  BY ParseAssumption DEF IsRequest
<1>2. n \in Nat /\ \A k \in 1..n : r.headers[k] \in {KeepAlive, Other, ContentLength(r.body)}
  BY <1>1 DEF Count
<1>0. CR \in Tagged /\ LF \in Tagged /\ <<r.method, 0>> \in Tagged
  BY <1>1 DEF Tagged, CR, LF
<1>3. A \in Seq(Tagged) /\ Len(A) = 1 /\ A[1] = <<r.method, 0>>
  BY <1>0
<1>4. E \in Seq(Tagged) /\ (r.eol = "LF" => Len(E) = 1 /\ E[1] = LF)
        /\ (r.eol # "LF" => Len(E) = 2 /\ E[1] = CR /\ E[2] = LF)
  BY <1>0
<1>5. HT \in Seq(Tagged) /\ Len(HT) = 3 * n
  <2>1. r.headers \in Seq(Tagged)
    <3>1. KeepAlive \in Tagged /\ Other \in Tagged
      BY DEF KeepAlive, Other, Tagged
    <3>2. ContentLength(r.body) \in Tagged
      BY <1>1 DEF ContentLength, Tagged
    <3>3. QED
      BY <1>1, <3>1, <3>2
  <2>2. HT \in Seq(Tagged)
    BY <2>1, HeaderTagged
  <2>3. DOMAIN HT = 1..(3 * n) /\ 3 * n \in Nat
    BY <1>2 DEF HeaderText, Count
  <2>4. QED
    BY <2>2, <2>3
<1>6. \A k \in 1..n : HT[3 * k - 2] = r.headers[k] /\ HT[3 * k - 1] = CR /\ HT[3 * k] = LF
  <2> SUFFICES ASSUME NEW k \in 1..n
               PROVE  HT[3 * k - 2] = r.headers[k] /\ HT[3 * k - 1] = CR /\ HT[3 * k] = LF
    OBVIOUS
  <2>1. /\ 3 * k - 2 \in 1..(3 * n) /\ 3 * k - 1 \in 1..(3 * n) /\ 3 * k \in 1..(3 * n)
        /\ (3 * k - 2) % 3 = 1 /\ (3 * k - 1) % 3 = 2 /\ (3 * k) % 3 = 0
        /\ ((3 * k - 2) + 2) \div 3 = k
    BY <1>2
  <2>2. QED
    BY <2>1 DEF HeaderText, Count
<1>7. Z \in Seq(Tagged) /\ Len(Z) = 2 /\ Z[1] = CR /\ Z[2] = LF
  BY <1>0
<1>8. B \in Seq(Tagged) /\ Len(B) = r.body /\ \A i \in 1..r.body : B[i] = <<"body", i>>
  <2>1. \A i \in Nat : <<"body", i>> \in Tagged
    BY DEF Tagged
  <2>3. \A i \in 1..r.body : i \in Nat
    BY <1>1
  <2>2. QED
    BY <1>1, <2>1, <2>3 DEF Body
<1>9. Text(r) = ((A \o E) \o HT \o Z) \o B
  BY DEF Text, HeadOf
<1> HIDE DEF A, E, HT, Z, B, n
<1> DEFINE AE == A \o E
           AEH == AE \o HT
           H == AEH \o Z
<1>10. AE = A \o E /\ AEH = AE \o HT /\ H = AEH \o Z /\ Text(r) = H \o B
  BY <1>9
<1> HIDE DEF AE, AEH, H
<1>11. /\ AE \in Seq(Tagged) /\ Len(AE) = 1 + Len(E)
       /\ AE[1] = A[1] /\ \A i \in 1..Len(E) : AE[1 + i] = E[i]
  <2>1. A \in Seq(Tagged) /\ E \in Seq(Tagged) /\ AE = A \o E
    BY <1>3, <1>4, <1>10
  <2>2. /\ AE \in Seq(Tagged) /\ Len(AE) = Len(A) + Len(E)
        /\ \A i \in 1..Len(A) : AE[i] = A[i]
        /\ \A i \in 1..Len(E) : AE[Len(A) + i] = E[i]
    BY <2>1, Concats
  <2>3. QED
    BY <2>2, <1>3
<1>12. /\ AEH \in Seq(Tagged) /\ Len(AEH) = Len(AE) + Len(HT)
       /\ \A i \in 1..Len(AE) : AEH[i] = AE[i]
       /\ \A i \in 1..Len(HT) : AEH[Len(AE) + i] = HT[i]
  <2>1. AE \in Seq(Tagged) /\ HT \in Seq(Tagged) /\ AEH = AE \o HT
    BY <1>5, <1>10, <1>11
  <2>2. /\ AEH \in Seq(Tagged) /\ Len(AEH) = Len(AE) + Len(HT)
        /\ \A i \in 1..Len(AE) : AEH[i] = AE[i]
        /\ \A i \in 1..Len(HT) : AEH[Len(AE) + i] = HT[i]
    BY <2>1, Concats
  <2>3. QED
    BY <2>2
<1>13. /\ H \in Seq(Tagged) /\ Len(H) = Len(AEH) + Len(Z)
       /\ \A i \in 1..Len(AEH) : H[i] = AEH[i]
       /\ \A i \in 1..Len(Z) : H[Len(AEH) + i] = Z[i]
  <2>1. AEH \in Seq(Tagged) /\ Z \in Seq(Tagged) /\ H = AEH \o Z
    BY <1>7, <1>10, <1>12
  <2>2. /\ H \in Seq(Tagged) /\ Len(H) = Len(AEH) + Len(Z)
        /\ \A i \in 1..Len(AEH) : H[i] = AEH[i]
        /\ \A i \in 1..Len(Z) : H[Len(AEH) + i] = Z[i]
    BY <2>1, Concats
  <2>3. QED
    BY <2>2
<1>14. /\ Text(r) \in Seq(Tagged) /\ Len(Text(r)) = Len(H) + Len(B)
       /\ \A i \in 1..Len(H) : Text(r)[i] = H[i]
       /\ \A i \in 1..Len(B) : Text(r)[Len(H) + i] = B[i]
  <2>1. H \in Seq(Tagged) /\ B \in Seq(Tagged) /\ Text(r) = H \o B
    BY <1>8, <1>10, <1>13
  <2>2. /\ Text(r) \in Seq(Tagged) /\ Len(Text(r)) = Len(H) + Len(B)
        /\ \A i \in 1..Len(H) : Text(r)[i] = H[i]
        /\ \A i \in 1..Len(B) : Text(r)[Len(H) + i] = B[i]
    BY <2>1, Concats
  <2>3. QED
    BY <2>2
<1>15. /\ Len(AE) \in Nat /\ Len(AEH) = Len(AE) + 3 * n /\ Len(H) = Len(AE) + 3 * n + 2
       /\ Len(Text(r)) \in Nat
  BY <1>5, <1>7, <1>11, <1>12, <1>13, <1>14
<1>16. ASSUME NEW i \in 1..Len(AE) PROVE Text(r)[i] = AE[i]
  <2>1. i \in 1..Len(AEH) /\ i \in 1..Len(H)
    BY <1>2, <1>15
  <2>2. QED
    BY <1>12, <1>13, <1>14, <2>1
<1>17. ASSUME NEW i \in 1..Len(HT) PROVE Text(r)[Len(AE) + i] = HT[i]
  <2>1. Len(AE) + i \in 1..Len(AEH) /\ Len(AE) + i \in 1..Len(H)
    BY <1>2, <1>5, <1>15
  <2>2. QED
    BY <1>12, <1>13, <1>14, <2>1
<1>18. Text(r)[Len(AE) + 3 * n + 1] = CR /\ Text(r)[Len(AE) + 3 * n + 2] = LF
  <2>1. 1 \in 1..Len(Z) /\ 2 \in 1..Len(Z)
    BY <1>7
  <2>2. Len(AEH) + 1 \in 1..Len(H) /\ Len(AEH) + 2 \in 1..Len(H)
    BY <1>2, <1>15
  <2>3. Len(AEH) + 1 = Len(AE) + 3 * n + 1 /\ Len(AEH) + 2 = Len(AE) + 3 * n + 2
    BY <1>2, <1>15
  <2>4. Text(r)[Len(AEH) + 1] = CR /\ Text(r)[Len(AEH) + 2] = LF
    BY <1>7, <1>13, <1>14, <2>1, <2>2
  <2>5. QED
    BY <2>3, <2>4
<1>19. Text(r)[1] = <<r.method, 0>>
  BY <1>3, <1>4, <1>11, <1>16
<1>20. ASSUME r.eol = "LF" PROVE Text(r)[2] = LF
  BY <1>4, <1>11, <1>16, <1>20
<1>21. ASSUME r.eol # "LF" PROVE Len(AE) = 3 /\ Text(r)[2] = CR /\ Text(r)[3] = LF
  BY <1>4, <1>11, <1>16, <1>21
<1>22. ASSUME r.eol # "LF", NEW k \in 1..n
       PROVE  Text(r)[3 * k + 1] = r.headers[k] /\ Text(r)[3 * k + 2] = CR /\ Text(r)[3 * k + 3] = LF
  <2>1. 3 * k - 2 \in 1..Len(HT) /\ 3 * k - 1 \in 1..Len(HT) /\ 3 * k \in 1..Len(HT)
    BY <1>2, <1>5
  <2>2. 3 + (3 * k - 2) = 3 * k + 1 /\ 3 + (3 * k - 1) = 3 * k + 2 /\ 3 + 3 * k = 3 * k + 3
    BY <1>2
  <2>3. Text(r)[3 + (3 * k - 2)] = HT[3 * k - 2] /\ Text(r)[3 + (3 * k - 1)] = HT[3 * k - 1]
          /\ Text(r)[3 + 3 * k] = HT[3 * k]
    BY <1>17, <1>21, <1>22, <2>1
  <2>4. QED
    BY <1>6, <2>2, <2>3
<1>23. ASSUME r.eol # "LF"
       PROVE  /\ Len(Text(r)) = 3 * n + 5 + r.body
              /\ Text(r)[3 * n + 4] = CR /\ Text(r)[3 * n + 5] = LF
              /\ \A i \in 1..r.body : Text(r)[3 * n + 5 + i] = <<"body", i>>
  <2>1. Len(AE) = 3
    BY <1>21, <1>23
  <2>2. Len(H) = 3 * n + 5 /\ Len(AE) + 3 * n + 1 = 3 * n + 4 /\ Len(AE) + 3 * n + 2 = 3 * n + 5
    BY <1>2, <1>15, <2>1
  <2>3. QED
    BY <1>8, <1>14, <1>18, <2>2
<1>24. QED
  BY <1>1, <1>2, <1>15, <1>19, <1>20, <1>21, <1>22, <1>23 DEF n

-----------------------------------------------------------------------------

(* Where the next line ends: the byte at e is its CR.                                  *)
EndsAt(e) ==
  /\ e \in {m_start_line, m_start_line + 1} /\ m_check_idx \in m_start_line..e
  /\ \A j \in m_start_line..(e - 1) : j < m_read_idx => ~IsEnd(j)
  /\ e < m_read_idx => At(e) = CR
  /\ e + 1 < m_read_idx => At(e + 1) = LF
  /\ m_start_line > 0 => ~IsEnd(m_start_line - 1)

\* What parse_line() finds in a line that ends as it should.
LEMMA LineEnds ==
  ASSUME ParseInv, NEW e, EndsAt(e)
  PROVE  /\ ~LineBad
         /\ LineOpen => \E idx \in m_check_idx..e : NeedsMore(idx)
         /\ \A text : LineOk(text) =>
              /\ e + 1 < m_read_idx
              /\ m_read_buf' = [m_read_buf EXCEPT ![e + 1] = NUL, ![e + 2] = NUL]
              /\ m_check_idx' = e + 2 /\ m_start_line' = e + 2
              /\ text = m_read_buf'[m_start_line + 1]
<1>1. e \in Nat /\ m_start_line <= m_check_idx /\ m_check_idx <= e /\ e <= m_start_line + 1
  BY Places DEF EndsAt
<1>2. \A i \in Nat : e < i /\ i <= m_read_idx => ~NoEndUpTo(i)
  BY <1>1, Places DEF EndsAt, NoEndUpTo, IsEnd
<1>3. \A i \in m_start_line..(e - 1) : i < m_read_idx => At(i) \notin {CR, LF}
  BY DEF EndsAt, IsEnd
<1>4. ASSUME LineBad PROVE FALSE
  <2>1. PICK i \in m_check_idx..(m_read_idx - 1) :
          /\ NoEndUpTo(i)
          /\ \/ At(i) = CR /\ i + 1 < m_read_idx /\ At(i + 1) # LF
             \/ At(i) = LF
    BY <1>4 DEF LineBad
  <2>2. i \in Nat /\ i < m_read_idx /\ m_start_line <= i
    BY <1>1, Places
  <2>3. i <= e
    BY <1>1, <1>2, <2>1, <2>2, Places
  <2>4. i = e
    BY <1>1, <1>3, <2>1, <2>2, <2>3, Places
  <2>5. QED
    BY <2>1, <2>2, <2>4, Distinct DEF EndsAt
<1>5. ASSUME LineOpen PROVE \E idx \in m_check_idx..e : NeedsMore(idx)
  <2>1. PICK i \in m_check_idx..m_read_idx : NoEndUpTo(i) /\ NeedsMore(i)
    BY <1>5 DEF LineOpen
  <2>2. i \in m_check_idx..e
    BY <1>1, <1>2, <2>1, Places
  <2>3. QED
    BY <2>1, <2>2
<1>6. ASSUME NEW text, LineOk(text)
      PROVE  /\ e + 1 < m_read_idx
             /\ m_read_buf' = [m_read_buf EXCEPT ![e + 1] = NUL, ![e + 2] = NUL]
             /\ m_check_idx' = e + 2 /\ m_start_line' = e + 2
             /\ text = m_read_buf'[m_start_line + 1]
  <2>1. PICK i \in CrPlaces :
          /\ NoEndUpTo(i) /\ At(i) = CR /\ At(i + 1) = LF
          /\ m_read_buf' = [m_read_buf EXCEPT ![i + 1] = NUL, ![i + 2] = NUL]
          /\ m_check_idx' = i + 2 /\ m_start_line' = i + 2
    BY <1>6 DEF LineOk
  <2>2. /\ i \in Nat /\ i + 1 < m_read_idx /\ i >= m_check_idx - 1
        /\ i < m_check_idx => i >= 1
    BY Places DEF CrPlaces
  <2>3. i <= e
    BY <1>1, <1>2, <2>1, <2>2, Places
  <2>4. i # m_start_line - 1
    <3>1. CASE i = m_start_line - 1
      <4>1. m_start_line > 0
        BY <2>2, <3>1, Places
      <4>2. ~IsEnd(i)
        BY <3>1, <4>1 DEF EndsAt
      <4>3. QED
        BY <2>1, <4>2 DEF IsEnd
    <3>2. QED
      BY <3>1
  <2>5. i = e
    BY <1>1, <1>3, <2>1, <2>2, <2>3, <2>4, Places
  <2>6. QED
    BY <1>6, <2>1, <2>2, <2>5 DEF LineOk
<1>7. QED
  BY <1>4, <1>5, <1>6

\* What is behind a line that has been taken out is as it was.
LEMMA LineTaken ==
  ASSUME ParseInv, Unparsed, NEW e \in Nat, e >= m_start_line, e + 1 < m_read_idx, UNCHANGED clientVars,
         m_read_buf' = [m_read_buf EXCEPT ![e + 1] = NUL, ![e + 2] = NUL],
         m_start_line' = e + 2
  PROVE  Unparsed'
<1>1. Len(m_read_buf') = Len(m_read_buf) /\ m_read_buf'[e + 2] = NUL
      /\ \A j \in 1..Len(m_read_buf) : j > e + 2 => m_read_buf'[j] = m_read_buf[j]
  <2>1. m_read_buf \in Seq(Symbols) /\ e + 1 \in 1..Len(m_read_buf) /\ e + 2 \in 1..Len(m_read_buf)
    BY Places DEF m_read_idx
  <2> DEFINE half == [m_read_buf EXCEPT ![e + 1] = NUL]
  <2>2. half \in Seq(Symbols) /\ Len(half) = Len(m_read_buf)
        /\ \A j \in 1..Len(m_read_buf) : j # e + 1 => half[j] = m_read_buf[j]
    BY <2>1, SymbolsTagged, ExceptSeq
  <2>3. m_read_buf' = [half EXCEPT ![e + 2] = NUL]
    OBVIOUS
  <2> HIDE DEF half
  <2>4. Len(m_read_buf') = Len(half) /\ m_read_buf'[e + 2] = NUL
        /\ \A j \in 1..Len(half) : j # e + 2 => m_read_buf'[j] = half[j]
    <3>1. e + 2 \in 1..Len(half) /\ NUL \in Symbols /\ half \in Seq(Symbols)
      BY <2>1, <2>2, SymbolsTagged
    <3>2. QED
      BY <2>3, <3>1, ExceptSeq
  <2>5. QED
    BY <2>2, <2>4
<1>2. m_read_idx' = m_read_idx /\ m_read_idx' <= sent'
  BY <1>1 DEF Unparsed, m_read_idx, clientVars
<1>3. ASSUME NEW j \in (m_start_line' + 1)..m_read_idx' PROVE m_read_buf'[j] = Text(request')[j]
  <2>1. j \in (m_start_line + 1)..m_read_idx /\ j \in 1..Len(m_read_buf) /\ j > e + 2
    BY <1>2, <1>3, Places DEF m_read_idx
  <2>2. QED
    BY <1>1, <2>1 DEF Unparsed, clientVars
<1>4. m_read_buf'[m_start_line'] \notin {CR, LF}
  BY <1>1, Distinct
<1>5. QED
  BY <1>2, <1>3, <1>4 DEF Unparsed

LEMMA AtIs ==
  ASSUME ParseInv, Unparsed, NEW i \in Nat, m_start_line <= i, i < m_read_idx
  PROVE  At(i) = Text(request)[i + 1]
<1>1. i + 1 \in (m_start_line + 1)..m_read_idx
  BY Places
<1>2. QED
  BY <1>1 DEF At, Unparsed

LEMMA StartEnds ==
  ASSUME ParseInv, request \in Requests, request.eol # "LF", Unparsed, AtStart
  PROVE  EndsAt(1)
<1>1. m_start_line = 0 /\ m_check_idx \in {0, 1}
  BY DEF AtStart
<1>2. 0 < m_read_idx => At(0) = <<request.method, 0>>
  <2>1. 0 < m_read_idx => At(0) = Text(request)[0 + 1]
    BY <1>1, AtIs
  <2>2. Text(request)[0 + 1] = <<request.method, 0>>
    BY TextAt
  <2>3. QED
    BY <2>1, <2>2
<1>3. 1 < m_read_idx => At(1) = CR
  BY <1>1, AtIs, TextAt, Places
<1>4. 2 < m_read_idx => At(2) = LF
  BY <1>1, AtIs, TextAt, Places
<1>5. \A j \in m_start_line..(1 - 1) : j < m_read_idx => ~IsEnd(j)
  BY <1>1, <1>2, TextAt, Distinct DEF IsEnd
<1>6. QED
  BY <1>1, <1>3, <1>4, <1>5 DEF EndsAt

LEMMA HeaderEnds ==
  ASSUME ParseInv, request \in Requests, request.eol # "LF", Unparsed,
         NEW k \in 0..Count(request), AtHeader(k)
  PROVE  /\ k < Count(request) =>
              /\ EndsAt(m_start_line + 1)
              /\ m_start_line < m_read_idx => At(m_start_line) = request.headers[k + 1]
         /\ k = Count(request) => EndsAt(m_start_line)
<1>1. /\ m_start_line = 3 * k + 3 /\ m_check_idx \in {m_start_line, m_start_line + 1}
      /\ k = Count(request) => m_check_idx = m_start_line
      /\ k \in Nat /\ Count(request) \in Nat
  BY TextAt DEF AtHeader
<1>2. m_start_line > 0 /\ ~IsEnd(m_start_line - 1)
  <2>1. (m_start_line - 1) + 1 = m_start_line /\ m_start_line > 0
    BY <1>1
  <2>2. QED
    BY <2>1 DEF Unparsed, IsEnd, At
<1>3. CASE k < Count(request)
  <2> DEFINE h == k + 1
  <2>1. h \in 1..Count(request) /\ m_start_line = 3 * h
    BY <1>1, <1>3
  <2> HIDE DEF h
  <2>2. Text(request)[3 * h + 1] = request.headers[h]
          /\ Text(request)[3 * h + 2] = CR /\ Text(request)[3 * h + 3] = LF
    BY <2>1, TextAt
  <2>3. request.headers[h] \notin {CR, LF}
    BY <2>1, TextAt, Distinct
  <2>4. m_start_line < m_read_idx => At(m_start_line) = request.headers[h]
    <3>1. m_start_line + 1 = 3 * h + 1
      BY <2>1
    <3>2. QED
      BY <2>2, <3>1, AtIs, Places
  <2>5. m_start_line + 1 < m_read_idx => At(m_start_line + 1) = CR
    <3>1. m_start_line + 1 + 1 = 3 * h + 2
      BY <2>1
    <3>2. QED
      BY <2>2, <3>1, AtIs, Places
  <2>6. m_start_line + 1 + 1 < m_read_idx => At(m_start_line + 1 + 1) = LF
    <3>1. m_start_line + 1 + 1 + 1 = 3 * h + 3
      BY <2>1
    <3>2. QED
      BY <2>2, <3>1, AtIs, Places
  <2>7. \A j \in m_start_line..((m_start_line + 1) - 1) : j < m_read_idx => ~IsEnd(j)
    <3>1. \A j \in m_start_line..((m_start_line + 1) - 1) : j = m_start_line
      BY Places
    <3>2. QED
      BY <2>3, <2>4, <3>1 DEF IsEnd
  <2>8. EndsAt(m_start_line + 1)
    <3>1. m_check_idx \in m_start_line..(m_start_line + 1)
      BY <1>1, Places
    <3>2. QED
      BY <1>2, <2>5, <2>6, <2>7, <3>1 DEF EndsAt
  <2>9. QED
    BY <1>3, <2>4, <2>8 DEF h
<1>4. CASE k = Count(request)
  <2>1. m_start_line < m_read_idx => At(m_start_line) = CR
    <3>1. m_start_line + 1 = 3 * Count(request) + 4
      BY <1>1, <1>4
    <3>2. Text(request)[3 * Count(request) + 4] = CR
      BY TextAt
    <3>3. QED
      BY <3>1, <3>2, AtIs, Places
  <2>2. m_start_line + 1 < m_read_idx => At(m_start_line + 1) = LF
    <3>1. m_start_line + 1 + 1 = 3 * Count(request) + 5
      BY <1>1, <1>4
    <3>2. Text(request)[3 * Count(request) + 5] = LF
      BY TextAt
    <3>3. QED
      BY <3>1, <3>2, AtIs, Places
  <2>3. \A j \in m_start_line..(m_start_line - 1) : j < m_read_idx => ~IsEnd(j)
    BY Places
  <2>4. EndsAt(m_start_line)
    <3>1. m_check_idx \in m_start_line..m_start_line
      BY <1>1, <1>4, Places
    <3>2. QED
      BY <1>2, <2>1, <2>2, <2>3, <3>1 DEF EndsAt
  <2>5. QED
    BY <1>4, <2>4
<1>5. QED
  BY <1>1, <1>3, <1>4

\* A request line that ends with LF alone is never taken out.
LEMMA LoneLF ==
  ASSUME ParseInv, request \in Requests, request.eol = "LF", Unparsed, AtStart
  PROVE  /\ \A text : ~LineOk(text)
         /\ LineOpen \/ LineBad => \E idx \in {0, 1} : NeedsMore(idx)
<1>1. m_start_line = 0 /\ m_check_idx \in {0, 1}
  BY DEF AtStart
<1>2. 0 < m_read_idx => At(0) \notin {CR, LF}
  <2>1. 0 < m_read_idx => At(0) = Text(request)[0 + 1]
    BY <1>1, AtIs
  <2>2. Text(request)[0 + 1] = <<request.method, 0>> /\ request.method \in {"GET", "POST", "BAD", "NOPATH"}
    BY TextAt
  <2>3. QED
    BY <2>1, <2>2, Distinct
<1>3. 1 < m_read_idx => At(1) = LF
  BY <1>1, AtIs, TextAt, Places
<1>4. \A i \in Nat : 1 < i /\ i <= m_read_idx => ~NoEndUpTo(i)
  BY <1>1, <1>3, Places DEF NoEndUpTo, IsEnd
<1>5. ASSUME NEW text, LineOk(text) PROVE FALSE
  <2>1. PICK i \in CrPlaces : NoEndUpTo(i) /\ At(i) = CR
    BY <1>5 DEF LineOk
  <2>2. i \in Nat /\ i + 1 < m_read_idx
    BY Places DEF CrPlaces
  <2>3. i \in {0, 1}
    BY <1>4, <2>1, <2>2, Places
  <2>4. QED
    <3>1. CR # LF
      BY Distinct
    <3>2. At(0) # CR /\ (1 < m_read_idx => At(1) # CR)
      BY <1>2, <1>3, <2>2, <2>3, <3>1, Places
    <3>3. QED
      BY <2>1, <2>2, <2>3, <3>2, Places
<1>6. ASSUME LineOpen \/ LineBad PROVE \E idx \in {0, 1} : NeedsMore(idx)
  <2>1. PICK i \in m_check_idx..m_read_idx : NoEndUpTo(i) /\ NeedsMore(i)
    BY <1>6, Places DEF LineOpen, LineBad
  <2>2. i \in Nat /\ i <= m_read_idx
    BY Places
  <2>3. i \in {0, 1}
    BY <1>4, <2>1, <2>2
  <2>4. QED
    BY <2>1, <2>3
<1>7. QED
  BY <1>5, <1>6

-----------------------------------------------------------------------------

\* A body's bytes are no line ends.
LEMMA InBodyAt ==
  ASSUME ParseInv, SentOK, request \in Requests, request.eol # "LF", Unparsed, InBody,
         NEW j \in (m_start_line + 1)..m_read_idx
  PROVE  /\ j - (3 * Count(request) + 5) \in 1..request.body
         /\ m_read_buf[j] = <<"body", j - (3 * Count(request) + 5)>> /\ m_read_buf[j] \notin {CR, LF}
<1> DEFINE head == 3 * Count(request) + 5
           i == j - head
<1>1. /\ m_start_line >= head /\ Len(Text(request)) = head + request.body /\ head \in Nat
      /\ request.body \in Nat
  BY TextAt DEF InBody
<1>2. m_read_idx <= head + request.body
  BY <1>1, Places, ParseAssumption DEF Unparsed, SentOK
<1>3. i \in 1..request.body /\ head + i = j
  <2> HIDE DEF head
  <2>1. j \in Int /\ j > head /\ j <= head + request.body
    BY <1>1, <1>2, Places
  <2>2. QED
    BY <1>1, <2>1
<1>4. m_read_buf[j] = Text(request)[j]
  BY DEF Unparsed
<1>5. \A x \in 1..request.body : Text(request)[head + x] = <<"body", x>>
  BY TextAt
<1> HIDE DEF i, head
<1>6. m_read_buf[j] = <<"body", i>> /\ i \in Nat
  BY <1>1, <1>3, <1>4, <1>5
<1>7. QED
  BY <1>3, <1>6, Distinct DEF i, head

\* What the lemmas on process_read()'s rounds start from.
Parsing == ParseInv /\ request \in Requests /\ pc = "parse" /\ Unparsed /\ Progress

LEMMA ParsingIs == ASSUME ParseInv, VerdictInv, pc = "parse" PROVE Parsing
BY DEF Parsing, VerdictInv, ParseInv, ParseTypeOK

LEMMA ParsingVerdict ==
  ASSUME request' # None, pc' \in {"read", "parse"}, Unparsed', Progress'
  PROVE  VerdictInv'
BY DEF VerdictInv, VerdictRight

\* Each part of Progress rules the others out.
LEMMA StateOf ==
  ASSUME Progress
  PROVE  /\ m_check_state = "REQUESTLINE" => AtStart
         /\ m_check_state = "HEADER" => InHeaders /\ request.eol # "LF"
         /\ m_check_state = "CONTENT" => InBody /\ request.eol # "LF"
BY DEF Progress, AtStart, InHeaders, InBody

\* process_read() waits for more in the middle of a line.
LEMMA WaitsVerdict ==
  ASSUME Parsing, NEW idx, NeedsMore(idx),
         AtStart => idx \in {0, 1},
         \A k \in 0..Count(request) : AtHeader(k) =>
            idx \in {m_start_line, m_start_line + 1} /\ (k = Count(request) => idx = m_start_line)
  PROVE  VerdictInv'
<1>1. /\ pc' = "read" /\ m_check_idx' = idx
      /\ UNCHANGED <<request, sent, m_read_buf, m_start_line, m_check_state,
                     m_content_len, m_link, cgi>>
  BY DEF NeedsMore, clientVars, requestVars
<1>2. Unparsed'
  BY <1>1 DEF Parsing, Unparsed, m_read_idx
<1>3. AtStart => AtStart'
  BY <1>1 DEF AtStart
<1>4. InHeaders => InHeaders'
  <2>1. \A k \in 0..Count(request) : AtHeader(k) => AtHeader(k)'
    BY <1>1 DEF AtHeader
  <2>2. QED
    BY <1>1, <2>1 DEF InHeaders, MethodRead
<1>5. InBody => InBody'
  BY <1>1 DEF InBody, MethodRead
<1>6. Progress'
  BY <1>1, <1>3, <1>4, <1>5 DEF Parsing, Progress
<1>7. request' # None
  BY <1>1, ParseAssumption DEF Parsing
<1>8. QED
  BY <1>1, <1>2, <1>6, <1>7, ParsingVerdict

LEMMA NoEndVerdict == ASSUME Parsing, LineOpen \/ LineBad PROVE VerdictInv'
<1>1. request \in Requests /\ ParseInv /\ Unparsed /\ Progress
  BY DEF Parsing
<1>2. CASE m_check_state = "REQUESTLINE"
  <2>1. AtStart
    BY <1>1, <1>2, StateOf
  <2>2. \E idx \in {0, 1} : NeedsMore(idx)
    <3>1. CASE request.eol = "LF"
      BY <1>1, <2>1, <3>1, LoneLF
    <3>2. CASE request.eol # "LF"
      <4>1. EndsAt(1)
        BY <1>1, <2>1, <3>2, StartEnds
      <4>2. \E idx \in m_check_idx..1 : NeedsMore(idx)
        BY <1>1, <4>1, LineEnds
      <4>3. QED
        BY <1>1, <4>2, Places
    <3>3. QED
      BY <3>1, <3>2
  <2>3. PICK idx \in {0, 1} : NeedsMore(idx)
    BY <2>2
  <2>4. m_start_line = 0 /\ \A k \in 0..Count(request) : ~AtHeader(k)
    BY <1>1, <2>1, TextAt DEF AtHeader, AtStart
  <2>5. QED
    BY <2>3, <2>4, WaitsVerdict
<1>3. CASE m_check_state = "HEADER"
  <2>1. request.eol # "LF" /\ ~AtStart
    BY <1>1, <1>3, StateOf DEF AtStart
  <2>2. PICK k \in 0..Count(request) : AtHeader(k)
    BY <1>1, <1>3, StateOf DEF InHeaders
  <2>3. \A l \in 0..Count(request) : AtHeader(l) => l = k
    BY <1>1, <2>2, TextAt DEF AtHeader
  <2> DEFINE e == IF k = Count(request) THEN m_start_line ELSE m_start_line + 1
  <2>4. EndsAt(e)
    <3>1. k < Count(request) \/ k = Count(request)
      BY <1>1, TextAt
    <3>2. k < Count(request) => EndsAt(m_start_line + 1)
      BY <1>1, <2>1, <2>2, HeaderEnds
    <3>3. k = Count(request) => EndsAt(m_start_line)
      BY <1>1, <2>1, <2>2, HeaderEnds
    <3>4. QED
      BY <1>1, <3>1, <3>2, <3>3, TextAt
  <2>5. e \in {m_start_line, m_start_line + 1} /\ (k = Count(request) => e = m_start_line)
    OBVIOUS
  <2> HIDE DEF e
  <2>6. PICK idx \in m_check_idx..e : NeedsMore(idx)
    BY <1>1, <2>4, LineEnds
  <2>7. idx \in {m_start_line, m_start_line + 1} /\ (k = Count(request) => idx = m_start_line)
    BY <1>1, <2>5, Places
  <2>8. QED
    BY <2>1, <2>3, <2>6, <2>7, WaitsVerdict
<1>4. CASE m_check_state = "CONTENT"
  <2>1. PICK idx \in Nat : NeedsMore(idx)
    BY <1>1, Places DEF LineOpen, LineBad
  <2>2. InBody /\ request.eol # "LF" /\ ~AtStart
    BY <1>1, <1>4, StateOf DEF AtStart
  <2>3. \A k \in 0..Count(request) : ~AtHeader(k)
    BY <1>1, <2>2, TextAt DEF AtHeader, InBody
  <2>4. QED
    BY <2>1, <2>2, <2>3, WaitsVerdict
<1>5. QED
  BY <1>1, <1>2, <1>3, <1>4 DEF ParseInv, ParseTypeOK

-----------------------------------------------------------------------------

LEMMA RequestLineVerdict == ASSUME Parsing, NEW text, RequestLine(text) PROVE VerdictInv'
<1>1. /\ request \in Requests /\ ParseInv /\ Unparsed /\ Progress
      /\ m_check_state = "REQUESTLINE" /\ LineOk(text)
      /\ UNCHANGED <<request, sent, m_content_len, m_link>>
  BY DEF Parsing, RequestLine, clientVars
<1>2. AtStart
  BY <1>1, StateOf
<1>3. request.eol # "LF"
  BY <1>1, <1>2, LoneLF
<1>4. EndsAt(1)
  BY <1>1, <1>2, <1>3, StartEnds
<1>5. /\ 2 < m_read_idx
      /\ m_read_buf' = [m_read_buf EXCEPT ![2] = NUL, ![3] = NUL]
      /\ m_check_idx' = 3 /\ m_start_line' = 3
      /\ text = m_read_buf'[1]
  BY <1>1, <1>2, <1>4, LineEnds DEF AtStart
<1>6. text = <<request.method, 0>>
  <2>1. text = m_read_buf[1]
    <3>1. m_read_buf \in Seq(Symbols) /\ 1 \in 1..Len(m_read_buf)
      BY <1>1, <1>5, Places DEF m_read_idx
    <3>2. QED
      BY <1>5, <3>1
  <2>2. 1 \in (m_start_line + 1)..m_read_idx
    BY <1>1, <1>2, <1>5, Places DEF AtStart
  <2>3. QED
    BY <1>1, <2>1, <2>2, TextAt DEF Unparsed
<1>7. Unparsed'
  <2>1. /\ 1 \in Nat /\ 1 >= m_start_line /\ 1 + 1 < m_read_idx /\ m_start_line' = 1 + 2
        /\ m_read_buf' = [m_read_buf EXCEPT ![1 + 1] = NUL, ![1 + 2] = NUL]
    BY <1>2, <1>5 DEF AtStart
  <2>2. QED
    BY <1>1, <2>1, LineTaken DEF clientVars
<1>8. request.method \in {"GET", "POST", "BAD", "NOPATH"} /\ request # None /\ Count(request) \in Nat
  BY <1>1, TextAt, ParseAssumption
<1>9. CASE request.method = "BAD"
  <2>1. verdict' = "BAD_REQUEST" /\ pc' = "answer"
    BY <1>6, <1>9 DEF RequestLine, Decides
  <2>2. request.eol = "CRLF"
    BY <1>1, <1>3, ParseAssumption DEF IsRequest
  <2>3. QED
    BY <1>1, <1>8, <1>9, <2>1, <2>2 DEF VerdictInv, VerdictRight, Malformed
<1>9a. CASE request.method = "NOPATH"
  <2>1. pc' = "crashed"
    BY <1>6, <1>9a DEF RequestLine
  <2>2. QED
    BY <1>1, <1>8, <2>1 DEF VerdictInv, VerdictRight
<1>10. CASE request.method \notin {"BAD", "NOPATH"}
  <2>1. /\ cgi' = (IF request.method = "POST" THEN 1 ELSE cgi)
        /\ m_check_state' = "HEADER" /\ pc' = "parse"
    BY <1>6, <1>8, <1>10 DEF RequestLine, Parsing
  <2>2. MethodRead'
    BY <1>1, <1>2, <1>10, <2>1 DEF MethodRead, Malformed, AtStart
  <2>3. AtHeader(0)'
    BY <1>1, <1>2, <1>5 DEF AtHeader, AtStart
  <2>4. InHeaders'
    BY <1>1, <1>8, <2>1, <2>2, <2>3 DEF InHeaders
  <2>5. Progress'
    BY <1>1, <1>3, <2>4 DEF Progress
  <2>6. QED
    BY <1>1, <1>7, <1>8, <2>1, <2>5, ParsingVerdict
<1>11. QED
  BY <1>9, <1>9a, <1>10

\* A line of the head that has been taken out.
LEMMA HeadLine ==
  ASSUME Parsing, m_check_state = "HEADER", NEW text, LineOk(text), UNCHANGED clientVars
  PROVE  /\ request.eol # "LF" /\ MethodRead /\ Unparsed'
         /\ m_check_idx' = m_start_line' /\ m_start_line' <= m_read_idx /\ m_read_idx' = m_read_idx
         /\ \E k \in 0..Count(request) :
              /\ AtHeader(k) /\ k \in Nat /\ Count(request) \in Nat
              /\ \/ k < Count(request) /\ text = request.headers[k + 1] /\ m_start_line' = 3 * (k + 1) + 3
                 \/ k = Count(request) /\ text = NUL /\ m_start_line' = 3 * Count(request) + 5
<1>1. request \in Requests /\ ParseInv /\ Unparsed /\ Progress
  BY DEF Parsing
<1>2. request.eol # "LF" /\ InHeaders
  BY <1>1, StateOf
<1>3. PICK k \in 0..Count(request) : AtHeader(k)
  BY <1>2 DEF InHeaders
<1>4. k \in Nat /\ Count(request) \in Nat /\ k <= Count(request) /\ m_start_line = 3 * k + 3
  BY <1>1, <1>3, TextAt DEF AtHeader
<1>5. /\ k < Count(request) =>
              /\ EndsAt(m_start_line + 1)
              /\ m_start_line < m_read_idx => At(m_start_line) = request.headers[k + 1]
      /\ k = Count(request) => EndsAt(m_start_line)
  BY <1>1, <1>2, <1>3, HeaderEnds
<1> DEFINE e == IF k = Count(request) THEN m_start_line ELSE m_start_line + 1
<1>6. e \in Nat /\ e >= m_start_line /\ EndsAt(e)
  BY <1>1, <1>4, <1>5, Places
<1>7. k = Count(request) => e = 3 * Count(request) + 3
  BY <1>4
<1>8. k < Count(request) => e = m_start_line + 1
  BY <1>4
<1> HIDE DEF e
<1>9. /\ e + 1 < m_read_idx
      /\ m_read_buf' = [m_read_buf EXCEPT ![e + 1] = NUL, ![e + 2] = NUL]
      /\ m_check_idx' = e + 2 /\ m_start_line' = e + 2
      /\ text = m_read_buf'[m_start_line + 1]
  BY <1>1, <1>6, LineEnds
<1>10. Unparsed'
  BY <1>1, <1>6, <1>9, LineTaken
<1>11. m_read_buf \in Seq(Symbols) /\ e + 1 \in 1..Len(m_read_buf) /\ e + 2 \in 1..Len(m_read_buf)
  BY <1>1, <1>6, <1>9, Places DEF m_read_idx
<1>12. m_read_idx' = m_read_idx
  BY <1>1, <1>6, <1>9, LineTypes, Places DEF m_read_idx
<1>13. m_check_idx' = m_start_line' /\ m_start_line' <= m_read_idx
  BY <1>1, <1>6, <1>9, Places
<1>14. CASE k < Count(request)
  <2>1. e = m_start_line + 1 /\ m_start_line + 1 # e + 1 /\ m_start_line + 1 # e + 2
        /\ m_start_line + 1 \in 1..Len(m_read_buf) /\ m_start_line < m_read_idx
    BY <1>1, <1>4, <1>8, <1>9, <1>11, <1>14, Places
  <2>2. text = m_read_buf[m_start_line + 1]
    BY <1>9, <1>11, <2>1
  <2>3. text = request.headers[k + 1]
    BY <1>5, <1>14, <2>1, <2>2 DEF At
  <2>4. m_start_line' = 3 * (k + 1) + 3
    BY <1>4, <1>9, <2>1
  <2>5. QED
    BY <1>2, <1>3, <1>4, <1>10, <1>12, <1>13, <1>14, <2>3, <2>4 DEF InHeaders
<1>15. CASE k = Count(request)
  <2>1. e = m_start_line /\ e + 1 # e + 2
    BY <1>4, <1>6, <1>7, <1>15
  <2>2. text = NUL
    BY <1>9, <1>11, <2>1
  <2>3. m_start_line' = 3 * Count(request) + 5
    BY <1>4, <1>7, <1>9, <1>15
  <2>4. QED
    BY <1>2, <1>3, <1>4, <1>10, <1>12, <1>13, <1>15, <2>2, <2>3 DEF InHeaders
<1>16. QED
  BY <1>4, <1>14, <1>15

LEMMA HeaderVerdict == ASSUME Parsing, NEW text, Header(text) PROVE VerdictInv'
<1>1. /\ request \in Requests /\ ParseInv /\ Unparsed /\ Progress /\ pc = "parse"
      /\ m_check_state = "HEADER" /\ text # NUL /\ LineOk(text)
      /\ m_link' = (m_link \/ text = KeepAlive)
      /\ m_content_len' = (IF text[1] = "Content-length" THEN text[2] ELSE m_content_len)
      /\ UNCHANGED <<request, sent, m_check_state, cgi, pc>> /\ UNCHANGED clientVars
  BY DEF Parsing, Header, clientVars
<1>2. /\ request.eol # "LF" /\ MethodRead /\ Unparsed' /\ m_check_idx' = m_start_line'
  BY <1>1, HeadLine
<1>3. PICK k \in 0..Count(request) :
              /\ AtHeader(k) /\ k \in Nat /\ Count(request) \in Nat
              /\ k < Count(request) /\ text = request.headers[k + 1] /\ m_start_line' = 3 * (k + 1) + 3
  BY <1>1, HeadLine
<1>4. k + 1 \in 0..Count(request) /\ k + 1 \in 1..Count(request) /\ 1..(k + 1) = (1..k) \cup {k + 1}
  BY <1>3
<1>5. text \in {KeepAlive, Other, ContentLength(request.body)} /\ request.body \in Nat
  BY <1>1, <1>3, <1>4, TextAt
<1>6. m_link' <=> \E j \in 1..(k + 1) : request.headers[j] = KeepAlive
  BY <1>1, <1>3, <1>4 DEF AtHeader
<1>7. m_content_len' = IF \E j \in 1..(k + 1) : request.headers[j] = ContentLength(request.body)
                         THEN request.body ELSE 0
  <2>1. text = ContentLength(request.body) => m_content_len' = request.body
    BY <1>1, <1>5, Distinct
  <2>2. text # ContentLength(request.body) => m_content_len' = m_content_len
    BY <1>1, <1>5, Distinct
  <2>3. QED
    BY <1>3, <1>4, <2>1, <2>2 DEF AtHeader
<1>8. AtHeader(k + 1)'
  BY <1>1, <1>2, <1>3, <1>6, <1>7 DEF AtHeader
<1>9. InHeaders'
  BY <1>1, <1>2, <1>4, <1>8 DEF InHeaders, MethodRead
<1>10. QED
  BY <1>1, <1>2, <1>9, ParsingVerdict, ParseAssumption DEF Progress

\* Once the headers are read, the length of the body is known.
LEMMA AllHeaders ==
  ASSUME request \in Requests, AtHeader(Count(request))
  PROVE  m_content_len = request.body /\ (m_link <=> KeepAlive \in SetOf(request.headers))
<1>1. \A h : h \in SetOf(request.headers) <=> \E j \in 1..Count(request) : request.headers[j] = h
  BY DEF SetOf, Count
<1>2. /\ request.body \in Nat
      /\ request.body > 0 <=> ContentLength(request.body) \in SetOf(request.headers)
  BY ParseAssumption DEF IsRequest
<1>3. QED
  BY <1>1, <1>2 DEF AtHeader

LEMMA EmptyLineVerdict == ASSUME Parsing, EmptyLine PROVE VerdictInv'
<1>1. /\ request \in Requests /\ ParseInv /\ Unparsed /\ Progress /\ pc = "parse"
      /\ m_check_state = "HEADER" /\ LineOk(NUL)
      /\ UNCHANGED <<request, sent, m_content_len, m_link, cgi, m_string>> /\ UNCHANGED clientVars
      /\ IF m_content_len # 0
           THEN m_check_state' = "CONTENT" /\ UNCHANGED <<pc, verdict>>
           ELSE verdict' = "GET_REQUEST" /\ pc' = "answer" /\ UNCHANGED m_check_state
  BY DEF Parsing, EmptyLine, Decides, clientVars, requestVars
<1>2. /\ request.eol # "LF" /\ MethodRead /\ Unparsed'
      /\ m_start_line' <= m_read_idx /\ m_read_idx' = m_read_idx
  BY <1>1, HeadLine
<1>3. PICK k \in 0..Count(request) :
              /\ AtHeader(k) /\ k \in Nat /\ Count(request) \in Nat
              /\ \/ k < Count(request) /\ NUL = request.headers[k + 1]
                 \/ k = Count(request) /\ m_start_line' = 3 * Count(request) + 5
  BY <1>1, HeadLine
<1>4. k = Count(request) /\ m_start_line' = 3 * Count(request) + 5
  <2>1. k < Count(request) => k + 1 \in 1..Count(request)
    BY <1>3
  <2>2. k < Count(request) => NUL # request.headers[k + 1]
    BY <1>1, <2>1, TextAt, Distinct
  <2>3. QED
    BY <1>3, <2>2
<1>5. m_content_len = request.body /\ (m_link <=> KeepAlive \in SetOf(request.headers))
  BY <1>1, <1>3, <1>4, AllHeaders
<1>6. request # None /\ request.body \in Nat /\ request.eol = "CRLF"
  BY <1>1, <1>2, ParseAssumption DEF IsRequest
<1>7. CASE m_content_len # 0
  <2>1. InBody'
    BY <1>1, <1>2, <1>4, <1>5, <1>6, <1>7 DEF InBody, MethodRead
  <2>2. QED
    BY <1>1, <1>2, <1>6, <1>7, <2>1, ParsingVerdict DEF Progress
<1>8. CASE m_content_len = 0
  <2>1. Len(Text(request)) = 3 * Count(request) + 5 /\ sent <= Len(Text(request))
    <3>1. request.body = 0
      BY <1>5, <1>8
    <3>2. Len(Text(request)) = 3 * Count(request) + 5 + request.body
      BY <1>1, <1>2, TextAt
    <3>3. QED
      BY <1>1, <1>3, <1>6, <3>1, <3>2 DEF ParseInv, SentOK
  <2>2. m_read_idx' = Len(Text(request))
    BY <1>1, <1>2, <1>3, <1>4, <2>1, Places DEF Unparsed
  <2>3. VerdictRight'
    BY <1>1, <1>2, <1>5, <1>6, <1>8, <2>2 DEF VerdictRight, MethodRead, ParseInv, ParseTypeOK
  <2>4. QED
    BY <1>1, <1>6, <1>8, <2>3 DEF VerdictInv
<1>9. QED
  BY <1>7, <1>8

LEMMA ContentVerdict == ASSUME Parsing, Content PROVE VerdictInv'
<1>1. /\ request \in Requests /\ ParseInv /\ SentOK /\ Unparsed /\ Progress /\ pc = "parse"
      /\ m_check_state = "CONTENT" /\ m_start_line' = m_check_idx
      /\ UNCHANGED <<request, sent, m_check_idx, m_check_state, m_content_len, m_link, cgi>>
  BY DEF Parsing, Content, clientVars, ParseInv
<1>2. InBody /\ request.eol # "LF" /\ request # None /\ request.eol = "CRLF"
  BY <1>1, StateOf, ParseAssumption DEF IsRequest
<1> DEFINE head == 3 * Count(request) + 5
<1>3. /\ m_start_line >= head /\ m_content_len = request.body /\ MethodRead /\ request.body \in Nat
      /\ (m_link <=> KeepAlive \in SetOf(request.headers)) /\ head \in Nat
      /\ Len(Text(request)) = head + request.body
  BY <1>1, <1>2, TextAt DEF InBody
<1> HIDE DEF head
<1>4. CASE /\ BodyComplete /\ Decides("GET_REQUEST")
           /\ m_string' = SubSeq(m_read_buf, m_start_line + 1, m_start_line + m_content_len)
           /\ m_read_buf' = Terminated(m_start_line + m_content_len)
  <2>1. m_read_idx <= head + request.body
    BY <1>1, <1>2, <1>3, Places DEF Unparsed, SentOK
  <2>2. m_start_line = head /\ m_check_idx = head /\ m_read_idx = head + request.body
    BY <1>1, <1>3, <1>4, <2>1, Places DEF BodyComplete
  <2>3. m_string' = Body(request)
    <3> DEFINE s == SubSeq(m_read_buf, head + 1, head + request.body)
    <3>1. \A j \in (head + 1)..(head + request.body) : j \in 1..Len(m_read_buf)
      BY <1>1, <1>3, <2>2, Places DEF m_read_idx
    <3>2. \A j \in (head + 1)..(head + request.body) : m_read_buf[j] \in Symbols
      BY <1>1, <3>1, Places
    <3>3. head + 1 \in Int /\ head + request.body \in Int /\ head + 1 <= (head + request.body) + 1
      BY <1>3
    <3>4. /\ s \in Seq(Symbols)
          /\ Len(s) = IF head + 1 <= head + request.body THEN (head + request.body) - (head + 1) + 1 ELSE 0
          /\ \A i \in 1..((head + request.body) - (head + 1) + 1) : s[i] = m_read_buf[(head + 1) + i - 1]
      BY <3>2, <3>3, SubSeqProperties
    <3>5. Len(s) = request.body
      BY <1>3, <3>4
    <3>6. ASSUME NEW i \in 1..request.body PROVE s[i] = <<"body", i>>
      <4>1. /\ i \in 1..((head + request.body) - (head + 1) + 1) /\ (head + 1) + i - 1 = head + i
            /\ head + i \in (m_start_line + 1)..m_read_idx /\ (head + i) - head = i
        BY <1>3, <2>2
      <4>2. s[i] = m_read_buf[head + i]
        BY <3>4, <4>1
      <4>3. m_read_buf[head + i] = <<"body", (head + i) - head>>
        BY <1>1, <1>2, <4>1, InBodyAt DEF head
      <4>4. QED
        BY <4>1, <4>2, <4>3
    <3>7. s = Body(request)
      <4>1. s = [i \in 1..request.body |-> s[i]]
        BY <3>4, <3>5
      <4>2. QED
        BY <3>6, <4>1 DEF Body
    <3>8. QED
      BY <1>3, <1>4, <2>2, <3>7
  <2>4. m_read_idx' = Len(Text(request))
    <3>1. Len(m_read_buf') = Len(m_read_buf)
      BY <1>1, <1>4, Places, TerminatedTypes
    <3>2. QED
      BY <1>1, <1>3, <2>2, <3>1 DEF m_read_idx
  <2>5. verdict' = "GET_REQUEST" /\ pc' = "answer"
    BY <1>4 DEF Decides
  <2>6. VerdictRight'
    BY <1>1, <1>2, <1>3, <2>3, <2>4, <2>5 DEF VerdictRight, MethodRead, ParseInv, ParseTypeOK
  <2>7. QED
    BY <1>1, <1>2, <2>5, <2>6 DEF VerdictInv
<1>5. CASE UNCHANGED <<m_read_buf, m_string, verdict, pc>>
  <2>1. m_start_line' >= head
    BY <1>1, <1>3, Places
  <2>2. m_start_line' > 0 => m_read_buf[m_start_line'] \notin {CR, LF}
    <3>1. CASE m_check_idx = m_start_line
      BY <1>1, <3>1 DEF Unparsed
    <3>2. CASE m_check_idx # m_start_line
      <4>1. m_check_idx \in (m_start_line + 1)..m_read_idx
        BY <1>1, <3>2, Places
      <4>2. QED
        BY <1>1, <1>2, <4>1, InBodyAt
    <3>3. QED
      BY <3>1, <3>2
  <2>3. \A j \in (m_start_line' + 1)..m_read_idx : j \in (m_start_line + 1)..m_read_idx
    BY <1>1, Places
  <2>4. Unparsed'
    BY <1>1, <1>5, <2>2, <2>3 DEF Unparsed, m_read_idx
  <2>5. InBody'
    BY <1>1, <1>2, <2>1 DEF InBody, MethodRead, head
  <2>6. QED
    BY <1>1, <1>2, <1>5, <2>4, <2>5, ParsingVerdict DEF Progress
<1>6. QED
  BY <1>4, <1>5, Zenon DEF Content

-----------------------------------------------------------------------------

LEMMA StepVerdict == ASSUME ParseInv, VerdictInv, ParseStep PROVE VerdictInv'
<1>1. Parsing
  BY ParsingIs, StepPlaces
<1>2. QED
  BY <1>1, NoEndVerdict, RequestLineVerdict, HeaderVerdict, EmptyLineVerdict, ContentVerdict DEF ParseStep

LEMMA ReadVerdict == ASSUME ParseInv, VerdictInv, ReadAll PROVE VerdictInv'
<1>1. /\ request # None /\ sent > m_read_idx /\ pc = "read" /\ pc' = "parse"
      /\ m_read_buf' = m_read_buf \o Arrived
      /\ UNCHANGED <<request, sent, m_check_idx, m_start_line, m_check_state, m_content_len, m_link, cgi>>
  BY DEF ReadAll, clientVars, placeVars, requestVars
<1>2. request \in Requests /\ Unparsed /\ Progress /\ sent <= Len(Text(request))
  BY <1>1 DEF VerdictInv, ParseInv, ParseTypeOK, SentOK
<1>3. /\ Text(request) \in Seq(Symbols) /\ m_read_buf \in Seq(Symbols)
      /\ m_read_idx \in Nat /\ sent \in Nat /\ m_read_idx = Len(m_read_buf)
  BY <1>2, SymbolsTagged, Places DEF m_read_idx
<1>4. /\ Arrived \in Seq(Symbols) /\ Len(Arrived) = sent - m_read_idx
      /\ \A i \in 1..(sent - m_read_idx) : Arrived[i] = Text(request)[m_read_idx + i]
  <2>1. \A j \in (m_read_idx + 1)..sent : j \in 1..Len(Text(request))
    BY <1>2, <1>3
  <2>2. \A j \in (m_read_idx + 1)..sent : Text(request)[j] \in Symbols
    BY <1>3, <2>1
  <2>3. m_read_idx + 1 \in Int /\ sent \in Int /\ m_read_idx + 1 <= sent
    BY <1>1, <1>3
  <2> DEFINE m == m_read_idx + 1
             a == SubSeq(Text(request), m, sent)
  <2>4. /\ a \in Seq(Symbols) /\ Len(a) = (sent - m) + 1
        /\ \A i \in 1..((sent - m) + 1) : a[i] = Text(request)[m + i - 1]
    BY <2>2, <2>3, SubSeqProperties
  <2> HIDE DEF a
  <2>5. \A i \in 1..(sent - m_read_idx) : i \in 1..((sent - m) + 1) /\ m + i - 1 = m_read_idx + i
    BY <1>3
  <2>6. (sent - m) + 1 = sent - m_read_idx
    BY <1>3
  <2>7. a = Arrived
    BY DEF a, Arrived
  <2>8. QED
    BY <2>4, <2>5, <2>6, <2>7
<1>5. /\ Len(m_read_buf') = sent
      /\ \A j \in 1..m_read_idx : m_read_buf'[j] = m_read_buf[j]
      /\ \A j \in (m_read_idx + 1)..sent : m_read_buf'[j] = Text(request)[j]
  <2>1. m_read_buf \in Seq(Symbols) /\ Arrived \in Seq(Symbols) /\ m_read_buf' = m_read_buf \o Arrived
    BY <1>1, <1>3, <1>4
  <2>2. /\ Len(m_read_buf') = Len(m_read_buf) + Len(Arrived)
        /\ \A i \in 1..Len(m_read_buf) : m_read_buf'[i] = m_read_buf[i]
        /\ \A i \in 1..Len(Arrived) : m_read_buf'[Len(m_read_buf) + i] = Arrived[i]
    BY <2>1, Concats
  <2>3. ASSUME NEW j \in (m_read_idx + 1)..sent PROVE m_read_buf'[j] = Text(request)[j]
    <3>1. j - m_read_idx \in 1..(sent - m_read_idx) /\ m_read_idx + (j - m_read_idx) = j
      BY <1>3
    <3>2. m_read_buf'[m_read_idx + (j - m_read_idx)] = Text(request)[m_read_idx + (j - m_read_idx)]
      BY <1>3, <1>4, <2>2, <3>1
    <3>3. QED
      BY <3>1, <3>2
  <2>4. QED
    BY <1>3, <1>4, <2>2, <2>3
<1>6. Unparsed'
  <2>1. m_read_idx' <= sent'
    BY <1>1, <1>3, <1>5 DEF m_read_idx
  <2>2. ASSUME NEW j \in (m_start_line' + 1)..m_read_idx' PROVE m_read_buf'[j] = Text(request')[j]
    <3>1. j \in Nat /\ j >= m_start_line + 1 /\ j <= sent
      BY <1>1, <1>5, Places DEF m_read_idx
    <3>2. CASE j <= m_read_idx
      <4>1. j \in 1..m_read_idx /\ j \in (m_start_line + 1)..m_read_idx
        BY <1>3, <3>1, <3>2, Places
      <4>2. QED
        BY <1>1, <1>2, <1>5, <4>1 DEF Unparsed
    <3>3. CASE j > m_read_idx
      <4>1. j \in (m_read_idx + 1)..sent
        BY <1>3, <3>1, <3>3
      <4>2. QED
        BY <1>1, <1>5, <4>1
    <3>4. QED
      BY <1>3, <3>1, <3>2, <3>3
  <2>3. m_start_line' > 0 => m_read_buf'[m_start_line'] \notin {CR, LF}
    <3>1. m_start_line > 0 => m_start_line \in 1..m_read_idx
      BY Places
    <3>2. QED
      BY <1>1, <1>2, <1>5, <3>1 DEF Unparsed
  <2>4. QED
    BY <2>1, <2>2, <2>3 DEF Unparsed
<1>7. Progress'
  BY <1>1, <1>2 DEF Progress, AtStart, InHeaders, AtHeader, InBody, MethodRead
<1>8. QED
  BY <1>1, <1>6, <1>7, ParsingVerdict

LEMMA ClosesVerdict == ASSUME pc' = "closed" PROVE VerdictInv'
BY DEF VerdictInv, VerdictRight

LEMMA ClearedVerdict ==
  ASSUME Cleared, NoRequestYet, pc' = "read"
  PROVE  VerdictInv'
<1>1. m_read_idx' = 0
  BY DEF Cleared, m_read_idx
<1>2. QED
  BY <1>1 DEF Cleared, NoRequestYet, VerdictInv, VerdictRight, AtStart

LEMMA AsksVerdict == ASSUME VerdictInv, NEW r \in Requests, Asks(r) PROVE VerdictInv'
<1>1. /\ pc # "closed" /\ request = None /\ request' = r
      /\ UNCHANGED <<sent, m_read_buf, m_check_idx, m_start_line, m_check_state, m_content_len, m_link, cgi, pc>>
  BY DEF Asks, placeVars, requestVars
<1>2. pc = "read" /\ m_read_idx = 0 /\ sent = 0 /\ AtStart
  BY <1>1 DEF VerdictInv
<1>3. m_read_idx' = 0 /\ sent' = 0 /\ AtStart' /\ m_start_line' = 0
  BY <1>1, <1>2 DEF m_read_idx, AtStart
<1>4. Unparsed'
  BY <1>3 DEF Unparsed
<1>5. Progress'
  BY <1>3 DEF Progress
<1>6. QED
  BY <1>1, <1>2, <1>4, <1>5, ParsingVerdict, ParseAssumption

LEMMA SendsVerdict ==
  ASSUME ParseInv, VerdictInv, NEW n \in 1..READ_BUFF_SIZE, Sends(n)
  PROVE  VerdictInv'
<1>1. /\ request # None /\ sent' = sent + n
      /\ UNCHANGED <<request, m_read_buf, m_check_idx, m_start_line, m_check_state, m_content_len,
                     m_link, cgi, m_string, pc, verdict>>
  BY DEF Sends, placeVars, requestVars
<1>2. sent <= sent' /\ sent' \in Nat /\ m_read_idx \in Nat /\ m_read_idx' = m_read_idx
  BY <1>1, Places DEF m_read_idx
<1>3. Unparsed => Unparsed'
  BY <1>1, <1>2, Places DEF Unparsed
<1>4. Progress => Progress'
  BY <1>1 DEF Progress, AtStart, InHeaders, AtHeader, InBody, MethodRead
<1>5. VerdictRight'
  BY <1>1, <1>2 DEF VerdictInv, VerdictRight
<1>6. QED
  BY <1>1, <1>3, <1>4, <1>5 DEF VerdictInv

LEMMA ParseUnchangedVerdict == ASSUME VerdictInv, UNCHANGED parseVars PROVE VerdictInv'
<1>1. UNCHANGED <<request, sent, m_read_buf, m_check_idx, m_start_line, m_check_state, m_content_len,
                  m_link, cgi, m_string, pc, verdict>> /\ m_read_idx' = m_read_idx
  BY DEF parseVars, clientVars, placeVars, requestVars, m_read_idx
<1>2. Unparsed' = Unparsed /\ AtStart' = AtStart
  BY <1>1 DEF Unparsed, AtStart
<1>3. Progress => Progress'
  BY <1>1 DEF Progress, AtStart, InHeaders, AtHeader, InBody, MethodRead
<1>4. VerdictRight'
  BY <1>1 DEF VerdictInv, VerdictRight
<1>5. QED
  BY <1>1, <1>2, <1>3, <1>4 DEF VerdictInv

LEMMA VerdictStep == ASSUME ConnInv, VerdictInv, [Next]_connVars PROVE VerdictInv'
<1>1. ParseInv
  BY DEF ConnInv
<1>2. CASE Open
  BY <1>2, ClearedVerdict DEF Open, ParserOpens
<1>3. CASE Client
  BY <1>1, <1>3, AsksVerdict, SendsVerdict DEF Client
<1>4. CASE Read
  BY <1>1, <1>4, ReadVerdict, ClosesVerdict DEF Read, ReadFails, ParserCloses
<1>5. CASE Parse
  BY <1>1, <1>5, StepVerdict DEF Parse
<1>6. CASE Respond
  BY <1>6, ParseUnchangedVerdict, ClosesVerdict DEF Respond, ParserCloses
<1>7. CASE Send
  <2>1. Replied \/ ParserCloses \/ UNCHANGED parseVars
    BY <1>7 DEF Send
  <2>2. QED
    BY <2>1, ClearedVerdict, ClosesVerdict, ParseUnchangedVerdict DEF Replied, ParserCloses
<1>8. CASE HangUp
  BY <1>8, ClosesVerdict DEF HangUp, ParserCloses
<1>9. CASE UNCHANGED connVars
  BY <1>9, ParseUnchangedVerdict DEF connVars
<1>10. QED
  BY <1>2, <1>3, <1>4, <1>5, <1>6, <1>7, <1>8, <1>9 DEF Next

(* What process_read() answers is what the request says, whatever pieces it came in:    *)
(* the verdict is that of the whole text, for every set of requests and buffer size.    *)
THEOREM VerdictIsRight == Spec => []VerdictRight
<1>1. Init => VerdictInv
  BY DEF Init, ParseInit, VerdictInv, VerdictRight
<1>2. VerdictInv => VerdictRight
  BY DEF VerdictInv
<1>3. QED
  BY <1>1, <1>2, ConnInvariant, VerdictStep, PTL DEF Spec
=============================================================================
