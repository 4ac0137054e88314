------------------------------- MODULE Codec -------------------------------
(***************************************************************************)
(* The wire format of the protocol messages: varints, addresses, messages  *)
(* and frames (crates/hydr-core/src/{varint,address,message,frame}.rs).    *)
(*                                                                         *)
(* A byte is a number below Radix = 4 * Low: its two high bits are the tag *)
(* of a varint, and Low is what the others hold (64 in the code).  Nothing *)
(* depends on the number of low bits, so the checks take a small Low and   *)
(* meet every boundary of the format with small numbers.                   *)
(*                                                                         *)
(* A message is a sequence of fields and its schema the sequence of their  *)
(* kinds, in the order the encode function of its type writes them.        *)
(***************************************************************************)
EXTENDS Integers, Sequences, SequencesExt

CONSTANTS
    Low,         \* values of the low bits of a varint's first byte: 1 << 6
    MAX_BODY_LEN \* longest body of a frame the decoder takes

ASSUME CodecAssumption == Low \in Nat /\ Low >= 2 /\ MAX_BODY_LEN \in Nat

Radix == 4 * Low
Byte == 0..(Radix - 1)

\* Results: a value and the bytes it took, or an error.
Ok(v, n) == [error |-> "none", value |-> v, used |-> n]
UnexpectedEof == [error |-> "eof", value |-> <<>>, used |-> 0]
InvalidData == [error |-> "invalid", value |-> <<>>, used |-> 0]
Failed(r) == r.error # "none"

----------------------------------------------------------------------------
(* Varints *)

\* 1 << 8 * n, and what the low bits of len bytes hold.
Power[n \in 0..7] == IF n = 0 THEN 1 ELSE Radix * Power[n - 1]
Limit(len) == Low * Power[len - 1]

\* How many bytes a number takes.  The mutant is off by one at each limit.
VarintLenInclusive(v) ==
    IF v <= Limit(1) THEN 1 ELSE IF v <= Limit(2) THEN 2 ELSE IF v <= Limit(4) THEN 4 ELSE 8
VarintLen(v) ==
    IF v < Limit(1) THEN 1 ELSE IF v < Limit(2) THEN 2 ELSE IF v < Limit(4) THEN 4 ELSE 8

Tag(len) == CASE len = 1 -> 0 [] len = 2 -> 1 [] len = 4 -> 2 [] len = 8 -> 3

BigEndian(v, len) == [i \in 1..len |-> (v \div Power[len - i]) % Radix]

\* The tag is or'ed into the first byte.  A number of more than 62 bits loses
\* its two high bits to it: the callers must not have one.  The mutant adds the
\* tag instead.
EncodeVarintAdded(v) ==
    LET len == VarintLen(v) IN
    [BigEndian(v, len) EXCEPT ![1] = @ + Tag(len) * Low]
EncodeVarint(v) ==
    LET len == VarintLen(v) IN
    [BigEndian(v, len) EXCEPT ![1] = (@ % Low) + Tag(len) * Low]

\* The tag tells how many bytes there are; the others come after what the first
\* has left.
PrefixLen(b) == 2^(b \div Low)
Horner(buf, len) ==
    LET v[i \in 0..(len - 1)] ==
          IF i = 0 THEN Head(buf) % Low ELSE v[i - 1] * Radix + buf[i + 1]
    IN  v[len - 1]

DecodeVarint(buf) ==
    IF buf = <<>> THEN UnexpectedEof
    ELSE LET len == PrefixLen(Head(buf)) IN
         IF Len(buf) < len THEN UnexpectedEof ELSE Ok(Horner(buf, len), len)

\* What is left of a number by the format: 62 bits of it.
Wire62(v) == v % Limit(8)

----------------------------------------------------------------------------
(* Byte strings and addresses *)

EncodeBytes(s) == EncodeVarint(Len(s)) \o s

\* Reader::bytes, and a mutant that takes what there is of a cut string.
DecodeBytesCut(buf) ==
    LET len == DecodeVarint(buf)
        end == IF len.used + len.value <= Len(buf) THEN len.used + len.value ELSE Len(buf)
    IN  IF Failed(len) THEN len ELSE Ok(SubSeq(buf, len.used + 1, end), end)
DecodeBytes(buf) ==
    LET len == DecodeVarint(buf) IN
    IF Failed(len) THEN len
    ELSE IF Len(buf) < len.used + len.value THEN UnexpectedEof
    ELSE Ok(SubSeq(buf, len.used + 1, len.used + len.value), len.used + len.value)

DecodeOctets(buf, n) ==
    IF Len(buf) < n THEN UnexpectedEof ELSE Ok(SubSeq(buf, 1, n), n)

V4 == 1
V6 == 2
DOMAIN_NAME == 3
HostLen(type) == IF type = V4 THEN 4 ELSE 16
PortLen == 2

Address(type, host, port) == [type |-> type, host |-> host, port |-> port]

EncodeAddress(a) ==
    <<a.type>> \o (IF a.type = DOMAIN_NAME THEN EncodeBytes(a.host) ELSE a.host) \o a.port

\* from_utf8_lossy of a name: a stray byte above ASCII becomes one U+FFFD.
\* Names of several bytes a character do not occur here.
REPLACEMENT == Radix
Lossy(s) == [i \in DOMAIN s |-> IF s[i] < 2 * Low THEN s[i] ELSE REPLACEMENT]

DecodeAddress(buf) ==
    IF buf = <<>> THEN UnexpectedEof
    ELSE IF Head(buf) \notin {V4, V6, DOMAIN_NAME} THEN InvalidData
    ELSE LET type == Head(buf)
             host == IF type = DOMAIN_NAME THEN DecodeBytes(Tail(buf))
                     ELSE DecodeOctets(Tail(buf), HostLen(type))
             end == 1 + host.used + PortLen
         IN  IF Failed(host) THEN host
             ELSE IF Len(buf) < end THEN UnexpectedEof
             ELSE Ok(Address(type, IF type = DOMAIN_NAME THEN Lossy(host.value) ELSE host.value,
                             SubSeq(buf, end - PortLen + 1, end)),
                     end)

----------------------------------------------------------------------------
(* Messages *)

Octets(n) == [kind |-> "octets", n |-> n]
Varint == [kind |-> "varint", n |-> 0]
Bytes == [kind |-> "bytes", n |-> 0]
Addr == [kind |-> "address", n |-> 0]
Body == [kind |-> "body", n |-> 0]
Rest == [kind |-> "rest", n |-> 0]
Zero == [kind |-> "zero", n |-> 0]

\* version, auth_method, client_nonce, auth_proof, cc_rx, features, padding
AuthRequest == <<Varint, Octets(1), Bytes, Bytes, Varint, Octets(1), Bytes>>
\* status, error_code, message, server_cc_rx, server_features, padding
AuthResponse == <<Octets(1), Octets(1), Bytes, Varint, Octets(1), Bytes>>
OpenStream == <<Addr>>
\* status, error_code, message
OpenStreamAck == <<Octets(1), Octets(1), Bytes>>
\* session_id, packet_id, frag_id, frag_count, address, payload
Datagram == <<Octets(4), Octets(2), Octets(1), Octets(1), Addr, Rest>>
\* parse_udp_packet: RSV, FRAG (fragments are not supported), address, data
UdpPacket == <<Octets(2), Zero, Addr, Rest>>
\* stream_id, frame_type, body
Frame == <<Varint, Octets(1), Body>>

EncodeField(field, v) ==
    CASE field.kind = "varint" -> EncodeVarint(v)
      [] field.kind \in {"bytes", "body"} -> EncodeBytes(v)
      [] field.kind = "address" -> EncodeAddress(v)
      [] field.kind \in {"octets", "zero", "rest"} -> v

DecodeBody(buf) ==
    LET len == DecodeVarint(buf) IN
    IF ~Failed(len) /\ len.value > MAX_BODY_LEN THEN InvalidData ELSE DecodeBytes(buf)

DecodeField(field, buf) ==
    CASE field.kind = "varint" -> DecodeVarint(buf)
      [] field.kind = "bytes" -> DecodeBytes(buf)
      [] field.kind = "body" -> DecodeBody(buf)
      [] field.kind = "address" -> DecodeAddress(buf)
      [] field.kind = "octets" -> DecodeOctets(buf, field.n)
      [] field.kind = "zero" -> IF buf # <<>> /\ Head(buf) # 0 THEN InvalidData ELSE DecodeOctets(buf, 1)
      [] field.kind = "rest" -> Ok(buf, Len(buf))

\* The fields one after the other.
Encode(schema, msg) ==
    LET buf[i \in 0..Len(schema)] ==
          IF i = 0 THEN <<>> ELSE buf[i - 1] \o EncodeField(schema[i], msg[i])
    IN  buf[Len(schema)]

\* Reader: field after field from the current position, up to the first error.
ReadField(field, buf, rd) ==
    LET r == DecodeField(field, SubSeq(buf, rd.used + 1, Len(buf))) IN
    IF Failed(rd) THEN rd
    ELSE IF Failed(r) THEN r
    ELSE Ok(Append(rd.value, r.value), rd.used + r.used)

Decode(schema, buf) ==
    LET rd[i \in 0..Len(schema)] ==
          IF i = 0 THEN Ok(<<>>, 0) ELSE ReadField(schema[i], buf, rd[i - 1])
    IN  rd[Len(schema)]
=============================================================================
