----------------------------- MODULE AuthStream -----------------------------
(***************************************************************************)
(* The codec of one TCP session: ServerSession (ssr/mod.rs) over           *)
(* auth_aes128_md5 (ssr/protocol.rs), read by the handshake and relay      *)
(* loops of handle_stream (tcp.rs), with the address header of             *)
(* ssr/address.rs.  TCP may cut the client's bytes anywhere.               *)
(*                                                                         *)
(* The stream is the IV and then packets 1, 2, ...; a buffer of wire bytes *)
(* is the stretch of the stream it holds, [first, size].  Ciphers and      *)
(* HMACs are ideal: a field is readable, and a MAC matches, exactly when   *)
(* the buffer starts where the client started a packet and the server uses *)
(* the client's key and packet number.  What a wrong key makes of an       *)
(* encrypted length is arbitrary (`noise`).  Application bytes are         *)
(* numbered; number 1 is the first of the address header.                  *)
(***************************************************************************)
EXTENDS Naturals, SequencesExt

CONSTANTS
  Users,      \* auth_users: uid -> key
  Clients,    \* what the client sends, and the listener's is_multi_user
  IvLen,      \* 16 for rc4-md5, 12 for chacha20-ietf
  UnitLen,    \* UNIT_LEN
  IdMod,      \* packet numbers are taken modulo this; 2^32 in the code
  MaxRemote   \* bytes the remote sends in all                 (bound)

None == 0          \* no user; uids are positive
CheckHead == 7     \* lengths of the parts of the auth header and packets
AuthHead == 31
MacLen == 4
MinData == 7
MaxPacket == 8192

Address == [kind : {"v4", "v6", "domain", "other"}, dlen : Nat, utf8 : BOOLEAN]

(* A client: its uid and key, the address it asks for, how it divides the  *)
(* application bytes into packets (the first is the auth packet), the      *)
(* padding of each, and a packet it gets wrong: which one (0 for none) and *)
(* what of it.  Only the auth packet has a head, only the others have a    *)
(* MAC on their length.  The client signs with a key it has: a user's, the *)
(* port's ("master"), or the IV it opened the stream with ("iv").          *)
ClientStream ==
  [mode : Nat, uid : Nat \ {0}, key : STRING, addr : Address, cuts : Seq(Nat),
   pads : Seq(Nat), at : Nat, wrong : {"head", "auth", "length", "sum", "pad", "mac"},
   noise : Nat]

ASSUME AuthAssumption ==
  /\ DOMAIN Users \subseteq Nat \ {0}
  /\ \A c \in Clients :
       /\ c \in ClientStream /\ Len(c.cuts) = Len(c.pads) /\ c.cuts # << >>
       /\ c.at <= Len(c.cuts)
       /\ c.at = 1 => c.wrong # "mac"
       /\ c.at > 1 => c.wrong \notin {"head", "auth"}
  /\ IvLen \in Nat \ {0} /\ UnitLen \in Nat \ {0} /\ IdMod \in Nat \ {0}
  /\ MaxRemote \in Nat

VARIABLES
  client,           \* chosen once
  got,              \* bytes of the stream read so far
  recv_iv_buf, started,                              \* ServerSession
  recv_buf, has_recv_header, user_id, user_key, recv_id,  \* AuthAes128Md5
  pc,               \* "handshake", "relay", "failed", "closed"
  app_buf,          \* decoded bytes before the address is known
  forwarded,        \* application bytes written to the remote
  connected,        \* the address was complete
  pack_id, send_iv_emitted, fetched, sent            \* towards the client

inVars == <<got, recv_iv_buf, started, recv_buf, has_recv_header, user_id,
            user_key, recv_id>>
appVars == <<app_buf, forwarded, connected>>
outVars == <<pack_id, send_iv_emitted, fetched, sent>>
vars == <<client, inVars, pc, appVars, outVars>>

----------------------------------------------------------------------------
(* What the client puts on the wire. *)

Packets == 1 .. Len(client.cuts)

Wrong(p, what) == client.at = p /\ client.wrong = what

\* Bytes before the payload of packet p, and in all.
Overhead(p) == client.pads[p] + IF p = 1 THEN AuthHead ELSE 4
WireLen(p) == Overhead(p) + client.cuts[p] + MacLen

\* The sums of the prefixes of s, from the empty one on.
Sums(s) ==
  LET sum[p \in 0 .. Len(s)] == IF p = 0 THEN 0 ELSE sum[p - 1] + s[p] IN sum

\* Payload up to packet p, and where packet p ends in the stream.
Count(p) == Sums(client.cuts)[p]
EndOf(p) == IvLen + Sums([q \in Packets |-> WireLen(q)])[p]
StreamLen == EndOf(Len(client.cuts))

\* The length and padding fields of packet p.
LengthField(p) == IF Wrong(p, "length") THEN 6 ELSE WireLen(p)
PadField(p) == IF Wrong(p, "pad") THEN MaxPacket ELSE client.pads[p]

\* The number the client gave packet p when it signed it.
PacketId(p) == (p - 1) % IdMod

\* Length of the client's address header: type, address, port.
HeaderLen ==
  1 + (CASE client.addr.kind = "v4" -> 4
         [] client.addr.kind = "domain" -> 1 + client.addr.dlen
         [] OTHER -> 16) + 2

----------------------------------------------------------------------------
(* AuthAes128Md5::server_post_decrypt.  A decoder state has the buffer, the *)
(* fields the header sets, the output, and whether the call goes on, waits  *)
(* for more bytes, or has failed.                                           *)

\* The packet the buffer starts with, if it starts with one.
Starts(buf, p) == p \in Packets /\ buf.first = EndOf(p - 1)
PacketAt(buf) == IF \E p \in Packets : Starts(buf, p)
                 THEN CHOOSE p \in Packets : Starts(buf, p) ELSE 0

\* The payload of packet p from byte `from` up to byte `upto` of the packet.
Payload(p, from, upto) ==
  [i \in 1 .. upto - from |-> Count(p - 1) + from - Overhead(p) + i]

\* Faulty variant: an unknown uid gets the port's key in every mode.
UserKeyLenient(uid) == IF uid \in DOMAIN Users THEN Users[uid] ELSE "master"

\* The key for a header with this uid.
UserKey(uid) ==
  IF uid \in DOMAIN Users THEN Users[uid]
  ELSE IF client.mode = 2 THEN "iv" ELSE "master"

\* Faulty variant: the header's uid is believed, listed or not.
UserIdClaimed(uid) == uid

UserId(uid) == IF uid \in DOMAIN Users THEN uid ELSE None

\* Faulty variant: only the length is authenticated.
ChecksumSkipped(p, length) == p # 0

\* The HMAC over the first length - 4 bytes, when they are packet p's.
Checksum(p, length) == p # 0 /\ length = WireLen(p) /\ ~Wrong(p, "sum")

\* drain(..length)
Drained(buf, length) == [first |-> buf.first + length, size |-> buf.size - length]

AuthPacket(st) ==
  LET buf == st.buf
      mine == UserKey(client.uid) = client.key
      length == IF mine THEN LengthField(1) ELSE client.noise
      start == AuthHead + PadField(1)
      badHead == ~Starts(buf, 1) \/ Wrong(1, "head")
      badPacket == \/ length \notin AuthHead .. MaxPacket - 1
                   \/ /\ buf.size >= length
                      /\ ~mine \/ ~Checksum(1, length) \/ start > length - MacLen
      known == [st EXCEPT !.id = UserId(client.uid), !.key = UserKey(client.uid)]
  IN IF buf.size >= CheckHead /\ badHead THEN [st EXCEPT !.go = "failed"]
     ELSE IF buf.size < AuthHead THEN [st EXCEPT !.go = "wait"]
     ELSE IF Wrong(1, "auth") THEN [st EXCEPT !.go = "failed"]
     ELSE IF badPacket THEN [known EXCEPT !.go = "failed"]
     ELSE IF buf.size < length THEN [known EXCEPT !.go = "wait"]
     ELSE [known EXCEPT !.has = TRUE, !.out = Payload(1, start, length - MacLen),
                        !.buf = Drained(buf, length)]

\* One turn of `while self.recv_buf.len() > 4`.
DataPacket(st) ==
  LET buf == st.buf
      p == PacketAt(buf)
      length == LengthField(p)
      start == 4 + PadField(p)
      badMac == p = 0 \/ st.key # client.key \/ st.recv # PacketId(p) \/ Wrong(p, "mac")
  IN IF buf.size <= 4 THEN [st EXCEPT !.go = "wait"]
     ELSE IF badMac \/ length \notin MinData .. MaxPacket - 1
     THEN [st EXCEPT !.go = "failed"]
     ELSE IF length > buf.size THEN [st EXCEPT !.go = "wait"]
     ELSE IF ~Checksum(p, length) THEN [st EXCEPT !.go = "failed"]
     ELSE IF start > length - MacLen
     THEN [st EXCEPT !.recv = (@ + 1) % IdMod, !.go = "failed"]
     ELSE [st EXCEPT !.recv = (@ + 1) % IdMod,
                     !.out = @ \o Payload(p, start, length - MacLen),
                     !.buf = Drained(buf, length)]

Turn(st) == IF st.go = "on" THEN DataPacket(st) ELSE st

\* The auth header once.
Begin(buf) ==
  LET st == [buf |-> buf, has |-> has_recv_header, id |-> user_id, key |-> user_key,
             recv |-> recv_id, out |-> << >>, go |-> "on"]
  IN IF has_recv_header THEN st ELSE AuthPacket(st)

\* The auth header, then as many data packets as there are.
PostDecrypt(buf) ==
  LET run[k \in 0 .. Len(client.cuts) + 1] ==
        IF k = 0 THEN Begin(buf) ELSE Turn(run[k - 1])
  IN run[Len(client.cuts) + 1]

----------------------------------------------------------------------------
(* ssr::parse_address on the decoded bytes. *)

\* Faulty variant: the port is left to the payload.
AddressEndShort(a) == IF a.kind = "domain" THEN 2 + a.dlen ELSE IF a.kind = "v4" THEN 5 ELSE 17

\* Where the header of address a ends.
AddressEnd(a) ==
  IF a.kind = "domain" THEN 2 + a.dlen + 2 ELSE IF a.kind = "v4" THEN 1 + 4 + 2 ELSE 1 + 16 + 2

\* Ok(Some(..)), Err and Ok(None) on decoded bytes buf.
HasAddress(buf) == client.addr.kind # "other" /\ Len(buf) >= AddressEnd(client.addr)
Invalid(buf) ==
  /\ buf # << >>
  /\ \/ client.addr.kind = "other"
     \/ HasAddress(buf) /\ ~client.addr.utf8
Incomplete(buf) == ~HasAddress(buf) /\ ~Invalid(buf)

----------------------------------------------------------------------------
Init ==
  /\ client \in Clients
  /\ got = 0 /\ recv_iv_buf = 0 /\ started = FALSE
  /\ recv_buf = [first |-> IvLen, size |-> 0] /\ has_recv_header = FALSE
  /\ user_id = None /\ user_key = "master" /\ recv_id = 1 % IdMod
  /\ pc = "handshake" /\ app_buf = << >> /\ forwarded = << >> /\ connected = FALSE
  /\ pack_id = 1 % IdMod /\ send_iv_emitted = FALSE /\ fetched = 0 /\ sent = << >>

\* A read that does not complete the IV.
ReadIv(n) ==
  /\ pc = "handshake" /\ ~started
  /\ recv_iv_buf + n < IvLen
  /\ got' = got + n
  /\ recv_iv_buf' = recv_iv_buf + n
  /\ UNCHANGED <<client, started, recv_buf, has_recv_header, user_id, user_key,
                 recv_id, pc, appVars, outVars>>

\* Faulty variant: what follows the IV in its read is lost.
CipherBytesDropped(n) == IF started THEN n ELSE 0

\* How many bytes of a read the cipher and the protocol get.
CipherBytes(n) == IF started THEN n ELSE recv_iv_buf + n - IvLen

\* What becomes of decoded bytes: the handshake collects them until they hold
\* the address, the relay loop forwards them.
Deliver(out) ==
  LET buf == app_buf \o out IN
  \/ /\ pc = "relay"
     /\ forwarded' = forwarded \o out
     /\ UNCHANGED <<pc, app_buf, connected>>
  \/ /\ pc = "handshake" /\ Incomplete(buf)
     /\ app_buf' = buf
     /\ UNCHANGED <<pc, forwarded, connected>>
  \/ /\ pc = "handshake" /\ Invalid(buf)
     /\ pc' = "failed"
     /\ UNCHANGED appVars
  \/ /\ pc = "handshake" /\ HasAddress(buf) /\ ~Invalid(buf)
     /\ pc' = "relay" /\ connected' = TRUE
     /\ app_buf' = SubSeq(buf, 1, AddressEnd(client.addr))
     /\ forwarded' = SubSeq(buf, AddressEnd(client.addr) + 1, Len(buf))

\* A read of n bytes, decrypted; an error ends the session and what the call
\* had decoded is dropped with it.
Read(n) ==
  LET st == PostDecrypt([recv_buf EXCEPT !.size = @ + CipherBytes(n)]) IN
  /\ pc \in {"handshake", "relay"}
  /\ started \/ recv_iv_buf + n >= IvLen
  /\ got' = got + n
  /\ started' = TRUE /\ recv_iv_buf' = 0
  /\ recv_buf' = st.buf /\ has_recv_header' = st.has
  /\ user_id' = st.id /\ user_key' = st.key /\ recv_id' = st.recv
  /\ \/ st.go = "failed" /\ pc' = "failed" /\ UNCHANGED appVars
     \/ st.go # "failed" /\ Deliver(st.out)
  /\ UNCHANGED <<client, outVars>>

\* The client closes, or nothing comes for idle_timeout.
Close ==
  /\ pc \in {"handshake", "relay"}
  /\ pc' = "closed"
  /\ UNCHANGED <<client, inVars, appVars, outVars>>

----------------------------------------------------------------------------
(* ServerSession::encrypt over server_pre_encrypt. *)

\* Faulty variant: n bytes that fill their packets get an empty one more.
PiecesAlwaysRest(n) == n \div UnitLen + 1

\* while rest.len() > UNIT_LEN, and the rest.
Pieces(n) == (n - 1) \div UnitLen + 1

\* pack_data for piece k of n bytes.
PackData(n, k) ==
  [id |-> (pack_id + k - 1) % IdMod,
   from |-> fetched + (k - 1) * UnitLen,
   len |-> IF k * UnitLen <= n THEN UnitLen ELSE n - (k - 1) * UnitLen]

\* The IV, as a piece without bytes.
Iv == [id |-> IdMod, from |-> 0, len |-> 0]

IvOnce == IF send_iv_emitted THEN << >> ELSE <<Iv>>

FromRemote(n) ==
  /\ pc = "relay" /\ fetched + n <= MaxRemote
  /\ sent' = sent \o IvOnce \o [k \in 1 .. Pieces(n) |-> PackData(n, k)]
  /\ send_iv_emitted' = TRUE
  /\ pack_id' = (pack_id + Pieces(n)) % IdMod
  /\ fetched' = fetched + n
  /\ UNCHANGED <<client, inVars, pc, appVars>>

Next ==
  \/ \E n \in 1 .. StreamLen - got : ReadIv(n) \/ Read(n)
  \/ \E n \in 1 .. MaxRemote : FromRemote(n)
  \/ Close

Spec == Init /\ [][Next]_vars

----------------------------------------------------------------------------
(* UDP: udp_server_post_decrypt on a datagram of the same client. *)

\* Faulty variant: an unknown uid may use the port's key.
UdpUserKeyAny(uid) == IF uid \in DOMAIN Users THEN Users[uid] ELSE "master"

UdpUserKey(uid) ==
  IF uid \in DOMAIN Users THEN Users[uid] ELSE IF client.mode = 0 THEN "master" ELSE "iv"

UdpAccepts == UdpUserKey(client.uid) = client.key

----------------------------------------------------------------------------
\* The keys a session may use: a user's, the port's, the IV.
Keys == Range(Users) \cup {"master", "iv"}

\* Types of the session's state (ServerSession, AuthAes128Md5).
TypeOK ==
  /\ client \in Clients
  /\ got \in 0 .. StreamLen
  /\ recv_iv_buf \in 0 .. IvLen - 1 /\ started \in BOOLEAN /\ has_recv_header \in BOOLEAN
  /\ recv_buf \in [first : IvLen .. StreamLen, size : 0 .. StreamLen - IvLen]
  /\ user_id \in DOMAIN Users \cup {None} /\ user_key \in Keys
  /\ recv_id \in 0 .. IdMod - 1 /\ pack_id \in 0 .. IdMod - 1
  /\ pc \in {"handshake", "relay", "failed", "closed"}
  /\ app_buf \in Seq(Nat) /\ forwarded \in Seq(Nat) /\ connected \in BOOLEAN
  /\ send_iv_emitted \in BOOLEAN /\ fetched \in 0 .. MaxRemote

\* A client that makes no mistake; one that signs with the key its uid leads
\* to, too.  On a single-port node an unlisted uid leads to the IV, which is the
\* client's own: protocol.rs:114 has it that such a client "will fail checksum".
Correct ==
  /\ client.at = 0 /\ client.addr.kind # "other" /\ client.addr.utf8
  /\ \A p \in Packets : WireLen(p) < MaxPacket
Sound ==
  /\ Correct
  /\ \/ client.uid \in DOMAIN Users /\ client.key = Users[client.uid]
     \/ client.uid \notin DOMAIN Users /\ client.mode # 2 /\ client.key = "master"
     \/ client.uid \notin DOMAIN Users /\ client.mode = 2 /\ client.key = "iv"

\* Payload of the packets that have arrived completely.
Arrived == Count(Cardinality({p \in Packets : EndOf(p) <= got}))

\* The payload does not depend on how TCP cuts the stream: after any reads
\* every complete packet of a sound client has been decoded, nothing else
\* has, and the session is not refused (decrypt, server_post_decrypt).
FragmentationIrrelevant ==
  Sound /\ pc # "closed" =>
    pc # "failed" /\ app_buf \o forwarded = [i \in 1 .. Arrived |-> i]

\* The remote gets the client's bytes after the address header and nothing
\* of the header, and is connected to once the header is there (parse,
\* split_off).
PayloadIntact ==
  /\ forwarded = [i \in 1 .. Len(forwarded) |-> HeaderLen + i]
  /\ pc = "handshake" => Len(app_buf) < HeaderLen

\* Nothing of a packet that fails a check, and nothing after it, is decoded,
\* and the session does not outlive the packet's arrival.
NothingPastAnError ==
  client.at # 0 =>
    /\ Len(app_buf) + Len(forwarded) <= Count(client.at - 1)
    /\ pc = "relay" => got < EndOf(client.at)

\* A session that relays does so for the user whose key signed the stream:
\* nobody is served as another listed user, and nobody with a listed uid as
\* the listener's own user (None, the fallback_user_id of handle_stream).  A
\* stream without a listed uid is served as that user if it is signed with
\* the port's key or, on a single-port node (is_multi_user = 2), with its IV.
RightUser ==
  connected =>
    \/ /\ client.uid \in DOMAIN Users
       /\ user_id = client.uid /\ client.key = Users[client.uid]
    \/ /\ client.uid \notin DOMAIN Users
       /\ user_id = None /\ client.key = IF client.mode = 2 THEN "iv" ELSE "master"

\* A client is let in over UDP exactly if it is over TCP, the port's modes 0
\* and 2.  In mode 1 an unknown uid with the port's key passes only over TCP.
TransportsAgree ==
  client.mode \in {0, 2} =>
    /\ connected => UdpAccepts
    /\ pc = "failed" /\ UdpAccepts => ~Correct

\* What the client gets back, one IV and packets numbered from 1, is what the
\* remote sent, and no packet is larger than a unit (encrypt, pack_data).
ClientDecodes ==
  LET Piece(k) == sent[k + 1]
      n == Len(sent) - 1 IN
  sent # << >> =>
    /\ sent[1] = Iv
    /\ \A k \in 1 .. n :
         /\ Piece(k).id = k % IdMod
         /\ Piece(k).len \in 1 .. UnitLen
         /\ Piece(k).from = IF k = 1 THEN 0 ELSE Piece(k - 1).from + Piece(k - 1).len
    /\ Piece(n).from + Piece(n).len = fetched
=============================================================================
