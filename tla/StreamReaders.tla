---------------------------- MODULE StreamReaders ----------------------------
(***************************************************************************)
(* The code that reads a message off a byte stream with read_exact, piece  *)
(* by piece, and must leave what follows to the relay:                     *)
(*                                                                         *)
(*   message   read_message of crates/hydr-transport/src/quic.rs: a varint *)
(*             length and a message, on a QUIC stream;                     *)
(*   methods, userpass, request                                            *)
(*             handle_conn of crates/hydr-client/src/{lib,socks5}.rs: the  *)
(*             three readings of a SOCKS5 connection.                      *)
(*                                                                         *)
(* And packet: a WebSocket frame, a QUIC datagram, or the SOCKS5 UDP       *)
(* packet of an application, which arrive whole.                           *)
(* The peer's bytes are fixed at the start; they arrive in any pieces, and *)
(* the peer may close before all of them have.                             *)
(***************************************************************************)
EXTENDS Codec

CONSTANTS
    Numbers,     \* values of the varint fields
    Strings,     \* byte strings of the messages, and what follows a message
    Addresses,   \* addresses asked for
    MaxMethods,  \* SOCKS5 methods a greeting may list (32)
    User, Pass,  \* socks5_username and socks5_password
    Logins       \* pairs <<user, password>> applications try

\* Numbers are u64; lengths fit where the peer writes them: that of a SOCKS5 name
\* in a byte, that of a buffer in 62 bits.  The names of hosts are ASCII.
ASSUME ReadersAssumption ==
    /\ \A n \in Numbers : n \in Nat /\ n \div Power[7] < Radix
    /\ \A x \in Strings : x \in Seq(Byte) /\ Len(x) < Limit(8)
    /\ \A a \in Addresses :
         /\ a = Address(a.type, a.host, a.port) /\ a.type \in {V4, V6, DOMAIN_NAME}
         /\ a.host \in Seq(Byte) /\ a.port \in Seq(Byte) /\ Len(a.port) = PortLen
         /\ a.type # DOMAIN_NAME => Len(a.host) = HostLen(a.type)
         /\ a.type = DOMAIN_NAME =>
              Len(a.host) < Radix /\ \A i \in DOMAIN a.host : a.host[i] < 2 * Low
    /\ \A l \in Logins :
         /\ l = <<l[1], l[2]>>
         /\ \A i \in 1..2 : l[i] \in Seq(Byte) /\ Len(l[i]) < Radix

VARIABLES
    schema,       \* of the message, <<>> for a SOCKS5 session
    said,         \* what the peer means: the message's fields, or the session
    data,         \* the application data it sends after them
    require_auth, \* socks5_username is configured
    sent,         \* all of its bytes
    arrived,      \* how many of them have arrived
    closed,       \* the peer has closed the stream
    taken,        \* how many have been read
    stage,        \* which reading is under way, or how the last one ended
    got,          \* the bytes it has read
    result        \* the message, or the address, read

peerVars == <<schema, said, data, require_auth, sent>>
vars == <<schema, said, data, require_auth, sent, arrived, closed, taken, stage, got, result>>

METHOD_NO_AUTH == 0
METHOD_USERPASS == 2
CMD_CONNECT == 1
CMD_BIND == 2
CMD_UDP_ASSOCIATE == 3
SOCKS_VERSION == 5
ATYP_V6 == 4

----------------------------------------------------------------------------
(* What a peer may send *)

FieldValues(field) ==
    CASE field.kind = "varint" -> Numbers
      [] field.kind \in {"bytes", "body", "rest"} -> Strings
      [] field.kind = "address" -> Addresses
      [] field.kind = "octets" -> {[i \in 1..field.n |-> 1]}
      [] field.kind = "zero" -> {<<0>>, <<1>>}

Messages(s) ==
    LET ms[i \in 0..Len(s)] ==
          IF i = 0 THEN {<<>>} ELSE {Append(m, v) : m \in ms[i - 1], v \in FieldValues(s[i])}
    IN  ms[Len(s)]

StreamSchemas == {AuthRequest, AuthResponse, OpenStream, OpenStreamAck}
PacketSchemas == {Frame, Datagram, UdpPacket}

\* Nor is there a message longer than its length can say.
ASSUME LengthAssumption ==
    \A s \in StreamSchemas : \A m \in Messages(s) : Len(Encode(s, m)) < Limit(8)

\* write_len_prefixed.
LengthPrefixed(buf) == EncodeVarint(Len(buf)) \o buf

\* A SOCKS5 application: its length of a name is one byte, not a varint.
Sessions == [methods : {<<0>>, <<2>>, <<0, 2>>}, login : Logins \cup {<<>>},
             cmd : {CMD_CONNECT, CMD_BIND, CMD_UDP_ASSOCIATE}, address : Addresses]

SocksAddress(a) ==
    IF a.type = DOMAIN_NAME THEN <<a.type, Len(a.host)>> \o a.host \o a.port
    ELSE <<IF a.type = V6 THEN ATYP_V6 ELSE a.type>> \o a.host \o a.port

SocksPacket(p) == p[1] \o p[2] \o SocksAddress(p[3]) \o p[4]

SocksBytes(s) ==
    <<SOCKS_VERSION, Len(s.methods)>> \o s.methods
      \o (IF s.login = <<>> THEN <<>>
          ELSE <<1, Len(s.login[1])>> \o s.login[1] \o <<Len(s.login[2])>> \o s.login[2])
      \o <<SOCKS_VERSION, s.cmd, 0>> \o SocksAddress(s.address)

Init ==
    /\ data \in Strings
    /\ require_auth \in BOOLEAN
    /\ \/ /\ schema \in StreamSchemas
          /\ said \in Messages(schema)
          /\ sent = LengthPrefixed(Encode(schema, said)) \o data
          /\ stage = "message"
          /\ ~require_auth
       \/ /\ schema \in PacketSchemas
          /\ said \in Messages(schema)
          /\ sent = IF schema = UdpPacket THEN SocksPacket(said) ELSE Encode(schema, said)
          /\ stage = "packet"
          /\ ~require_auth /\ data = <<>>
       \/ /\ schema = <<>>
          /\ said \in Sessions
          /\ sent = SocksBytes(said) \o data
          /\ stage = "methods"
    /\ arrived = 0 /\ taken = 0 /\ closed = FALSE
    /\ got = <<>> /\ result = <<>>

\* The network delivers some more bytes; the peer closes.
Arrive ==
    /\ ~closed
    /\ \E n \in 1..(Len(sent) - arrived) : arrived' = arrived + n
    /\ UNCHANGED <<peerVars, closed, taken, stage, got, result>>

Close ==
    /\ ~closed
    /\ closed' = TRUE
    /\ UNCHANGED <<peerVars, arrived, taken, stage, got, result>>

----------------------------------------------------------------------------
(* Reading *)

\* How many bytes the reading needs, as far as its bytes so far tell.
WantedForMessage(b) ==
    LET prefix == PrefixLen(Head(b)) IN
    CASE b = <<>> -> 1
      [] b # <<>> /\ Len(b) < prefix -> prefix
      [] OTHER -> prefix + DecodeVarint(b).value

WantedForMethods(b) == IF Len(b) < 2 THEN 2 ELSE 2 + b[2]

WantedForUserpass(b) ==
    IF Len(b) < 2 THEN 2
    ELSE IF Len(b) < 2 + b[2] THEN 2 + b[2]
    ELSE IF Len(b) < 3 + b[2] THEN 3 + b[2]
    ELSE 3 + b[2] + b[3 + b[2]]

\* read_request.  The mutant forgets that the length of a name has been read.
WantedForRequestLong(b) ==
    IF Len(b) < 4 THEN 4
    ELSE CASE b[4] = V4 -> 4 + 4 + 2
           [] b[4] = ATYP_V6 -> 4 + 16 + 2
           [] OTHER -> IF Len(b) < 5 THEN 5 ELSE 6 + b[5] + 2
WantedForRequest(b) ==
    IF Len(b) < 4 THEN 4
    ELSE CASE b[4] = V4 -> 4 + 4 + 2
           [] b[4] = ATYP_V6 -> 4 + 16 + 2
           [] OTHER -> IF Len(b) < 5 THEN 5 ELSE 5 + b[5] + 2

Wanted ==
    CASE stage = "message" -> WantedForMessage(got)
      [] stage = "methods" -> WantedForMethods(got)
      [] stage = "userpass" -> WantedForUserpass(got)
      [] stage = "request" -> WantedForRequest(got)

\* The tests made on the first bytes of a reading, before the rest is read.
Malformed ==
    CASE stage = "methods" -> Len(got) >= 2 /\ (got[1] # SOCKS_VERSION \/ got[2] \notin 1..MaxMethods)
      [] stage = "userpass" -> Len(got) >= 2 /\ (got[1] # 1 \/ got[2] = 0)
      [] stage = "request" ->
            Len(got) >= 4 /\ (got[1] # SOCKS_VERSION \/ got[4] \notin {V4, DOMAIN_NAME, ATYP_V6})
      [] OTHER -> FALSE

Reading == stage \in {"message", "methods", "userpass", "request"} /\ ~Malformed
Complete == Reading /\ Len(got) >= Wanted

\* The next read_exact.  The mutant takes all that has arrived.
ReadExactGreedy ==
    /\ Reading /\ ~Complete
    /\ arrived - taken >= Wanted - Len(got)
    /\ got' = got \o SubSeq(sent, taken + 1, arrived)
    /\ taken' = arrived
    /\ UNCHANGED <<peerVars, arrived, closed, stage, result>>
ReadExact ==
    /\ Reading /\ ~Complete
    /\ LET n == Wanted - Len(got) IN
         /\ arrived - taken >= n
         /\ got' = got \o SubSeq(sent, taken + 1, taken + n)
         /\ taken' = taken + n
    /\ UNCHANGED <<peerVars, arrived, closed, stage, result>>

Goes(next) == stage' = next /\ got' = <<>>

\* read_exact fails, or a test on the first bytes does.
ReadFails ==
    /\ \/ Reading /\ ~Complete /\ closed /\ arrived - taken < Wanted - Len(got)
       \/ Malformed
    /\ Goes("refused")
    /\ UNCHANGED <<peerVars, arrived, closed, taken, result>>

\* The end of read_message: what the decoder leaves of the buffer is ignored.
DecodeMessage ==
    LET prefix == PrefixLen(Head(got))
        r == Decode(schema, SubSeq(got, prefix + 1, Len(got)))
    IN
    /\ stage = "message" /\ Complete
    /\ result' = r.value
    /\ Goes(IF Failed(r) THEN "refused" ELSE "served")
    /\ UNCHANGED <<peerVars, arrived, closed, taken>>

\* A whole packet: Frame::decode, Datagram::decode, parse_udp_packet.
DecodePacket ==
    LET r == Decode(schema, sent) IN
    /\ stage = "packet" /\ arrived = Len(sent)
    /\ result' = r.value
    /\ taken' = arrived
    /\ Goes(IF Failed(r) THEN "refused" ELSE "served")
    /\ UNCHANGED <<peerVars, arrived, closed>>

\* negotiate_method, and what handle_conn does next.
NegotiateMethod ==
    LET want == IF require_auth THEN METHOD_USERPASS ELSE METHOD_NO_AUTH
        methods == {got[i] : i \in 3..Len(got)}
    IN
    /\ stage = "methods" /\ Complete
    /\ \/ want \notin methods /\ Goes("refused")
       \/ want \in methods /\ require_auth /\ Goes("userpass")
       \/ want \in methods /\ ~require_auth /\ Goes("request")
    /\ UNCHANGED <<peerVars, arrived, closed, taken, result>>

\* The comparison of verify_userpass: name and password each on its own.  The
\* mutant compares them run together.
MatchesJoined(user, pass) == user \o pass = User \o Pass
Matches(user, pass) == user = User /\ pass = Pass

VerifyUserpass ==
    LET ulen == got[2]
        user == SubSeq(got, 3, 2 + ulen)
        pass == SubSeq(got, 4 + ulen, Len(got))
    IN
    /\ stage = "userpass" /\ Complete
    /\ Goes(IF Matches(user, pass) THEN "request" ELSE "refused")
    /\ UNCHANGED <<peerVars, arrived, closed, taken, result>>

\* The end of read_request: the bytes from atyp on are given to
\* Address::decode as they are; then the command is looked at.
DecodeRequest ==
    LET r == DecodeAddress(SubSeq(got, 4, Len(got))) IN
    /\ stage = "request" /\ Complete
    /\ result' = r.value
    /\ Goes(IF Failed(r) \/ got[2] \notin {CMD_CONNECT, CMD_UDP_ASSOCIATE}
              THEN "refused" ELSE "served")
    /\ UNCHANGED <<peerVars, arrived, closed, taken>>

SocksRead ==
    /\ schema = <<>>
    /\ ReadExact \/ ReadFails \/ NegotiateMethod \/ VerifyUserpass \/ DecodeRequest

MessageRead == schema # <<>> /\ (ReadExact \/ ReadFails \/ DecodeMessage \/ DecodePacket)

Next == Arrive \/ Close \/ SocksRead \/ MessageRead

Spec == Init /\ [][Next]_vars

\* handle_conn goes on when it can, and the network delivers what was sent.
Fairness == WF_vars(SocksRead) /\ WF_vars(Arrive)
FairSpec == Spec /\ Fairness

----------------------------------------------------------------------------
TypeOK ==
    /\ sent \in Seq(Byte)
    /\ arrived \in 0..Len(sent) /\ taken \in 0..arrived
    /\ stage \in {"message", "packet", "methods", "userpass", "request", "served", "refused"}
    /\ got \in Seq(Byte)
    /\ Reading => SubSeq(sent, taken - Len(got) + 1, taken) = got

\* A message read is the message sent, whatever the pieces it came in: of each
\* number the 62 bits the format holds, everything else as it was.  A SOCKS5
\* request or packet that is served is served for the address it asked for, as
\* long as the name is short enough for its length byte to be a varint too.
Expected ==
    [i \in DOMAIN schema |-> IF schema[i].kind = "varint" THEN Wire62(said[i]) ELSE said[i]]
ShortName(a) == a.type = DOMAIN_NAME /\ Len(a.host) < Low
SocksTarget == IF schema = UdpPacket THEN said[3] ELSE said.address
ReadBack ==
    stage = "served" =>
        \/ schema # <<>> /\ result = Expected
        \/ schema = <<>> /\ result = said.address
        \/ /\ schema \in {<<>>, UdpPacket}
           /\ SocksTarget.type = DOMAIN_NAME /\ ~ShortName(SocksTarget)

\* No reading takes a byte of the application data that follows it: the relay
\* that starts then gets all of it.
DataLeft == stage = "served" => SubSeq(sent, taken + 1, Len(sent)) = data

\* Every stream message or WebSocket frame cut short is recognised as such, at
\* whatever byte it was cut, never taken for another message: it can be told from
\* what follows it.  (A datagram or UDP packet has no length of its own.)
CutIsEof ==
    LET buf == Encode(schema, said) IN
    arrived = 0 /\ schema \notin {<<>>, Datagram, UdpPacket} =>
        \A k \in 0..(Len(buf) - 1) :
            Decode(schema, SubSeq(buf, 1, k)).error \in
                {"eof"} \cup (IF schema = Frame /\ Len(said[3]) > MAX_BODY_LEN
                                THEN {"invalid"} ELSE {})

\* With credentials configured, no request is served unless this very user
\* name and this very password came before it.
AuthEnforced ==
    stage = "served" /\ schema = <<>> /\ require_auth => said.login = <<User, Pass>>

\* A session that plays by the rules and does not hang up is served.
Legal ==
    /\ schema = <<>>
    /\ said.login = (IF require_auth THEN <<User, Pass>> ELSE <<>>)
    /\ (IF require_auth THEN METHOD_USERPASS ELSE METHOD_NO_AUTH) \in Range(said.methods)
    /\ said.cmd # CMD_BIND
    /\ said.address.type = V4 \/ ShortName(said.address)
SessionServed == [](Legal => <>(stage = "served" \/ closed))
=============================================================================
