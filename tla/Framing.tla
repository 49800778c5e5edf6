------------------------------- MODULE Framing -------------------------------
(***************************************************************************)
(* How headers and subpackets travel as bytes: the encoders of zmodem.py,  *)
(* the two CRCs of crc.py, and _read_header and                            *)
(* _read_data_subpacket_with_term as automata that take a byte at a time.  *)
(*                                                                         *)
(* ZModem takes headers and subpackets for the tokens of its line, which   *)
(* loses headers and damages anything, under ideal CRCs.  This module has  *)
(* the real ones, and shows what a faulty byte does to the tokens.         *)
(***************************************************************************)
EXTENDS Naturals, Sequences, SequencesExt, Crc

CONSTANTS
  Batches,     \* what may be sent: sequences of items, see BatchesAssumption
  NoiseBytes,  \* what a byte may turn into, beside itself with a bit changed
  ScanLimit,   \* bytes read in search of a ZDLE: 1024 in the code
  MaxFaults    \* bound: bytes lost or changed, and timers that run ahead

ASSUME ConstantsAssumption ==
  /\ NoiseBytes \subseteq Byte
  /\ ScanLimit \in Nat \ 0..2
  /\ MaxFaults \in Nat

VARIABLES
  items,      \* what is sent
  wire,       \* bytes on their way
  mode,       \* where the reader is
  escaped,    \* it has just read a ZDLE
  n,          \* turns of the bounded loop it is in
  raw,        \* what it has collected: header bytes, hex digits, or data
  check,      \* bytes of a subpacket's CRC so far
  want,       \* what receive() reads next
  delivered,  \* items it has returned
  faults      \* faults so far

vars == <<items, wire, mode, escaped, n, raw, check, want, delivered, faults>>

-----------------------------------------------------------------------------
(* Encoders.  An item is a header, in one of three forms, or a subpacket     *)
(* with its terminator.                                                      *)

ZDLE  == 24
ZFILE == 4
ZDATA == 10
Forms == [hex |-> 66, bin16 |-> 65, bin32 |-> 67]
ZCRCE == 104
ZCRCQ == 105
ZCRCG == 106
ZCRCW == 107
Terms == {ZCRCE, ZCRCQ, ZCRCG, ZCRCW}

\* The bytes of a CRC as they are sent: 32 bits with the low byte first, 16
\* bits with the high one first.
Bytes32(w) == << w.lo % 256, w.lo \div 256, w.hi % 256, w.hi \div 256 >>
Bytes16(c) == << c \div 256, c % 256 >>

Hdr(f, bytes)   == [form |-> f, bytes |-> bytes]
Sub(data, term) == [form |-> "sub", bytes |-> Append(data, term)]

\* Faulty: ZDLE itself is not escaped.
EscapeAllButZdle(b) == b \in {17, 19, 145, 147, 255}

MustEscape(b) == b \in {17, 19, 145, 147, ZDLE, 255}

\* b ^ 0x40
Toggle(b) == Xor(b, 64)

ZdleEncode(data) ==
  FlattenSeq([i \in 1..Len(data) |->
                IF MustEscape(data[i]) THEN << ZDLE, Toggle(data[i]) >> ELSE << data[i] >>])

\* Lower-case hexadecimal digits.
Digit(d) == IF d < 10 THEN 48 + d ELSE 87 + d
Hex(data) == FlattenSeq([i \in 1..Len(data) |-> << Digit(data[i] \div 16), Digit(data[i] % 16) >>])

BuildHexHeader(bytes) ==
  << 42, 42, ZDLE, Forms.hex >> \o Hex(bytes \o Bytes16(crc16(bytes))) \o << 13, 10 >>

BuildBin32Header(bytes) ==
  << 42, ZDLE, Forms.bin32 >> \o ZdleEncode(bytes \o Bytes32(crc32(bytes)))

\* A header that programs of other makes send.
BuildBin16Header(bytes) ==
  << 42, ZDLE, Forms.bin16 >> \o ZdleEncode(bytes \o Bytes16(crc16(bytes)))

\* The CRC covers the data and the terminator.
DataSubpacket(bytes) ==
  ZdleEncode(Front(bytes)) \o << ZDLE, Last(bytes) >> \o ZdleEncode(Bytes32(crc32(bytes)))

Encoded(item) ==
  CASE item.form = "hex"   -> BuildHexHeader(item.bytes)
    [] item.form = "bin16" -> BuildBin16Header(item.bytes)
    [] item.form = "bin32" -> BuildBin32Header(item.bytes)
    [] item.form = "sub"   -> DataSubpacket(item.bytes)

-----------------------------------------------------------------------------
(* The reader *)

Reading == {"scan", "fmt", "hex", "trail", "bin16", "bin32", "sub", "crc"}

\* A reader begins: for a header, or for a subpacket.
Begin(w) ==
  /\ want' = w
  /\ mode' = IF w = "header" THEN "scan" ELSE "sub"
  /\ escaped' = FALSE /\ n' = 0 /\ raw' = <<>> /\ check' = <<>>

\* The reader raises.
Fail(how) == mode' = how /\ UNCHANGED <<escaped, n, raw, check, want, delivered>>

\* Faulty: a CRC that is not compared.
Uncompared(sent, computed) == Len(sent) = Len(computed)

\* received_crc is what the bytes give.
Matches(sent, computed) == sent = computed

\* What receive() and _receive_file_data read after a header, and after a
\* subpacket.
AfterHeader(type) ==
  IF type = ZFILE THEN "info" ELSE IF type = ZDATA THEN "data" ELSE "header"
AfterSub(w, term) == IF w = "data" /\ term # ZCRCE THEN "data" ELSE "header"
After(w, item) ==
  IF item.form = "sub" THEN AfterSub(w, Last(item.bytes)) ELSE AfterHeader(item.bytes[1])

\* Five bytes of a header; data and a terminator.
Items ==
  { it \in [form : DOMAIN Forms \cup {"sub"}, bytes : Seq(Byte)] :
      IF it.form = "sub" THEN it.bytes # <<>> /\ Last(it.bytes) \in Terms
                         ELSE Len(it.bytes) = 5 }

\* The items come as they are expected: one subpacket after a ZFILE, after a
\* ZDATA subpackets up to a ZCRCE.  send() keeps to that, but for a ZDATA
\* with nothing after it (what becomes of that is in ZModem).
Orderly(batch) ==
  \E w \in [0..Len(batch) -> {"header", "info", "data"}] :
    /\ w[0] = "header"
    /\ \A i \in 1..Len(batch) :
         /\ batch[i].form = "sub" <=> w[i - 1] # "header"
         /\ w[i] = After(w[i - 1], batch[i])

ASSUME BatchesAssumption ==
  Batches \subseteq Seq(Items) /\ \A batch \in Batches : Orderly(batch)

\* _read_header looks for a ZDLE.
Scan(b) ==
  /\ mode = "scan"
  /\ \/ b = ZDLE /\ mode' = "fmt"
        /\ UNCHANGED <<escaped, n, raw, check, want, delivered>>
     \/ b # ZDLE /\ n + 1 < ScanLimit /\ n' = n + 1
        /\ UNCHANGED <<mode, escaped, raw, check, want, delivered>>
     \/ b # ZDLE /\ n + 1 >= ScanLimit /\ Fail("protocol")

\* The byte after it says how the header is written.
ReadFormat(b) ==
  /\ mode = "fmt"
  /\ \/ \E f \in DOMAIN Forms : Forms[f] = b /\ mode' = f /\ n' = 0
        /\ UNCHANGED <<escaped, raw, check, want, delivered>>
     \/ (\A f \in DOMAIN Forms : Forms[f] # b) /\ Fail("protocol")

\* fromhex() and int(..., 16) take capitals, too.  (They also take spaces and,
\* in places, "_" and a sign, which are not among the bytes of the instances.)
IsDigit(b) == b \in (48..57) \cup (65..70) \cup (97..102)
ValueOf(b) == IF b < 58 THEN b - 48 ELSE IF b < 71 THEN b - 55 ELSE b - 87
Pairs(digits) ==
  [i \in 1..(Len(digits) \div 2) |-> 16 * ValueOf(digits[2 * i - 1]) + ValueOf(digits[2 * i])]

\* Fourteen digits: five bytes and the CRC.  A bad digit in the bytes is a
\* ProtocolError, one in the CRC a ValueError that nothing catches.
HexDone(digits) ==
  LET bytes == Pairs(SubSeq(digits, 1, 10))
      sent  == Pairs(SubSeq(digits, 11, 14))
      AllDigits(i, j) == \A k \in i..j : IsDigit(digits[k])
  IN \/ ~AllDigits(1, 10) /\ Fail("protocol")
     \/ AllDigits(1, 10) /\ ~AllDigits(11, 14) /\ Fail("value")
     \/ /\ AllDigits(1, 14)
        /\ \/ /\ Matches(sent, Bytes16(crc16(bytes)))
              /\ mode' = "trail" /\ n' = 0
              /\ delivered' = Append(delivered, Hdr("hex", bytes))
              /\ UNCHANGED <<escaped, raw, check, want>>
           \/ ~Matches(sent, Bytes16(crc16(bytes))) /\ Fail("protocol")

\* Faulty: one digit too many.
FifteenDigits(digits) == Len(digits) = 15

Complete(digits) == Len(digits) = 14

\* _read_hex_header: at most 16 bytes, CR, LF and CR with parity left out.
ReadHex(b) ==
  LET digits == IF b \in {13, 10, 141} THEN raw ELSE Append(raw, b)
  IN /\ mode = "hex"
     /\ \/ Complete(digits) /\ HexDone(digits)
        \/ /\ ~Complete(digits) /\ n + 1 < 16
           /\ n' = n + 1 /\ raw' = digits
           /\ UNCHANGED <<mode, escaped, check, want, delivered>>
        \/ ~Complete(digits) /\ n + 1 >= 16 /\ Fail("protocol")

\* Two more bytes, taken for CR and LF.  The header is returned after them.
HexReturned ==
  /\ Begin(AfterHeader(Last(delivered).bytes[1]))
  /\ UNCHANGED delivered

ReadTrail(b) ==
  /\ mode = "trail"
  /\ \/ n = 0 /\ n' = 1 /\ UNCHANGED <<mode, escaped, raw, check, want, delivered>>
     \/ n = 1 /\ HexReturned

\* A byte that ZDLE may have escaped: what is collected with it.
Collected(b) == IF escaped THEN Toggle(b) ELSE b
StartsEscape(b) == ~escaped /\ b = ZDLE

EscapeEnds(b) == escaped' = StartsEscape(b)

\* _read_bin_header: five bytes and two or four of CRC.
ReadBin(b) ==
  LET got   == IF StartsEscape(b) THEN raw ELSE Append(raw, Collected(b))
      size  == IF mode = "bin32" THEN 9 ELSE 7
      bytes == SubSeq(got, 1, 5)
      crc   == IF mode = "bin32" THEN Bytes32(crc32(bytes)) ELSE Bytes16(crc16(bytes))
  IN /\ mode \in {"bin16", "bin32"}
     /\ \/ /\ Len(got) < size
           /\ EscapeEnds(b) /\ raw' = got
           /\ UNCHANGED <<mode, n, check, want, delivered>>
        \/ /\ Len(got) = size
           /\ \/ /\ Matches(SubSeq(got, 6, size), crc)
                 /\ delivered' = Append(delivered, Hdr(mode, bytes))
                 /\ Begin(AfterHeader(bytes[1]))
              \/ ~Matches(SubSeq(got, 6, size), crc) /\ Fail("protocol")

\* _read_data_subpacket_with_term: data, up to a ZDLE and a terminator.
ReadData(b) ==
  /\ mode = "sub"
  /\ EscapeEnds(b)
  /\ \/ /\ escaped /\ b \in Terms
        /\ mode' = "crc" /\ raw' = Append(raw, b)
     \/ /\ ~(escaped /\ b \in Terms)
        /\ raw' = IF StartsEscape(b) THEN raw ELSE Append(raw, Collected(b))
        /\ UNCHANGED mode
  /\ UNCHANGED <<n, check, want, delivered>>

\* Then the four bytes of its CRC.
ReadCheck(b) ==
  LET got == IF StartsEscape(b) THEN check ELSE Append(check, Collected(b))
      crc == Bytes32(crc32(raw))
  IN /\ mode = "crc"
     /\ \/ /\ Len(got) < 4
           /\ EscapeEnds(b) /\ check' = got
           /\ UNCHANGED <<mode, n, raw, want, delivered>>
        \/ /\ Len(got) = 4
           /\ \/ /\ Matches(got, crc)
                 /\ delivered' = Append(delivered, [form |-> "sub", bytes |-> raw])
                 /\ Begin(AfterSub(want, Last(raw)))
              \/ ~Matches(got, crc) /\ Fail("protocol")

ReadByte ==
  /\ wire # <<>>
  /\ wire' = Tail(wire)
  /\ LET b == Head(wire)
     IN \/ Scan(b) \/ ReadFormat(b) \/ ReadHex(b) \/ ReadTrail(b)
        \/ ReadBin(b) \/ ReadData(b) \/ ReadCheck(b)
  /\ UNCHANGED <<items, faults>>

Fault == faults < MaxFaults /\ faults' = faults + 1

\* A read times out.  The tenth of a second for CR and LF may run out before
\* they come; the other timers wait for what is under way.
ReadTimeout ==
  /\ \/ wire = <<>> /\ mode \in Reading \ {"trail"} /\ Fail("timeout") /\ UNCHANGED faults
     \/ wire = <<>> /\ mode = "trail" /\ HexReturned /\ UNCHANGED faults
     \/ wire # <<>> /\ mode = "trail" /\ HexReturned /\ Fault
  /\ UNCHANGED <<items, wire>>

-----------------------------------------------------------------------------
(* The line *)

Flipped(b) == {Xor(b, 1), Xor(b, 2), Xor(b, 64), Xor(b, 128)}

LineFault ==
  /\ Fault
  /\ wire # <<>>
  /\ mode \in Reading
  /\ \/ wire' = Tail(wire)
     \/ \E b \in (NoiseBytes \cup Flipped(Head(wire))) \ {Head(wire)} :
          wire' = << b >> \o Tail(wire)
  /\ UNCHANGED <<items, mode, escaped, n, raw, check, want, delivered>>

-----------------------------------------------------------------------------

Init ==
  /\ items \in Batches
  /\ wire = FlattenSeq([i \in 1..Len(items) |-> Encoded(items[i])])
  /\ mode = "scan" /\ want = "header"
  /\ escaped = FALSE /\ n = 0 /\ raw = <<>> /\ check = <<>>
  /\ delivered = <<>>
  /\ faults = 0

Next == ReadByte \/ ReadTimeout \/ LineFault

Spec == Init /\ [][Next]_vars

-----------------------------------------------------------------------------
(* Properties *)

Raised == {"protocol", "value", "timeout"}

\* The readers stay in their loops: at most 14 digits in 16 bytes, no more
\* bytes of a header or a CRC than there are.
TypeOK ==
  /\ mode \in Reading \cup Raised
  /\ escaped \in BOOLEAN
  /\ n \in Nat
  /\ mode = "scan" => n < ScanLimit
  /\ mode = "hex" => n < 16
  /\ mode = "trail" => n < 2
  /\ raw \in Seq(Byte)
  /\ mode = "hex" => Len(raw) < 14
  /\ mode \in {"bin16", "bin32"} => Len(raw) < 9
  /\ check \in Seq(Byte) /\ Len(check) < 4
  /\ want \in {"header", "info", "data"}
  /\ faults \in 0..MaxFaults

\* What the line of ZModem takes for granted: one faulty byte or timer can
\* make a header vanish, but no subpacket; whatever else is returned is what
\* was sent, in order, and nothing is returned that was not sent
\* (_read_header goes on to the next ZDLE, everything has a CRC).
TokenLine ==
  \/ IsPrefix(delivered, items)
  \/ \E i \in 1..Len(items) :
       items[i].form # "sub" /\ IsPrefix(delivered, RemoveAt(items, i))

\* Without a fault every item is returned as it was sent, whatever bytes it
\* has: no escaped byte is taken for a terminator, no CRC for an escape, no
\* end of a header for data (_zdle_encode against the readers).
CleanDelivery ==
  faults = 0 => /\ IsPrefix(delivered, items)
                /\ mode \in Raised => mode = "timeout" /\ delivered = items

\* The tables compute the CRCs of the polynomials, on whatever a reader has
\* collected, damaged or not (crc.py's tables and their indices).
CrcTablesAgree ==
  mode \in {"bin16", "bin32", "crc"} => crc16(raw) = Serial16(raw) /\ crc32(raw) = Serial32(raw)
=============================================================================
