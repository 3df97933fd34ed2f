--------------------------- MODULE PacketFraming ---------------------------
(***************************************************************************)
(* How packets are cut out of a TCP stream: the worker loop of the servers  *)
(* (CTitanClientThread.cpp) with the header handlers of the game protocol   *)
(* and of the hub, the loop that listens to the hub (CTitanServer.cpp), and *)
(* the two loops of the Fiesta proxy (CListener.hpp) with its re-encryption.*)
(*                                                                         *)
(* A packet is a sequence of bytes, the first two of them its command.  A   *)
(* stream hands over any number of the bytes that are under way.  Bytes are *)
(* 0..Radix-1, so that short headers end and long ones start at a size TLC  *)
(* can reach; the exclusive or with the key table is kept symbolic, as the  *)
(* set of places of the table that have been applied an odd number of times.*)
(***************************************************************************)
EXTENDS Integers, Sequences, SequencesExt, FiniteSetsExt

CONSTANTS
  Radix,       \* 256 in the code
  KeyLen,      \* 0x1F3: entries of xorTable
  Start,       \* 7: xorTableLoc of a new connection, told by packet 0x807
  Routes,      \* the streams that are looked at
  Lengths,     \* bytes of the packets that are sent
  MaxPackets   \* bound: packets on the stream

ASSUME RadixBig == Radix \in Nat \ 0..4
ASSUME KeysThere == KeyLen \in Nat \ {0} /\ Start \in 0..(KeyLen - 1)
ASSUME LengthsFit == \A n \in Lengths : n \in 2..(Radix * Radix - 3)

VARIABLES
  route,      \* one of AllRoutes
  sent,       \* what was to be said, packet by packet
  toProxy,    \* bytes under way to the proxy
  wire,       \* bytes under way to the last receiver
  outLoc,     \* the sender's place in the key table
  proxy,      \* the proxy's loop
  receiver,   \* the last receiver's loop
  delivered,  \* what the handlers were given
  split       \* history: the proxy got a long header in pieces

framingVars == <<route, sent, toProxy, wire, outLoc, proxy, receiver, delivered, split>>

\* client -> server, client -> proxy -> server, server -> proxy -> client,
\* server -> hub, hub -> server.
AllRoutes == {"direct", "relayed", "reply", "hub", "isc"}
Relayed == route \in {"relayed", "reply"}
Hub == route \in {"hub", "isc"}
Encrypted == route \in {"direct", "relayed"}
-----------------------------------------------------------------------------
(* Bytes                                                                    *)

Plain(v) == [v |-> v, keys |-> {}]
Word(bytes, i) == bytes[i].v + Radix * bytes[i + 1].v
WordBytes(n) == <<Plain(n % Radix), Plain(n \div Radix)>>

\* Exclusive or of one byte with one entry of the table: done twice, it undoes itself.
Xor(byte, loc) == [byte EXCEPT !.keys = SymDiff(@, {loc})]
Crypt(bytes, loc) == [i \in DOMAIN bytes |-> Xor(bytes[i], (loc + i - 1) % KeyLen)]

\* Mutant: a packet of exactly 0x100 bytes is sent with a short header.
EncryptPacket_OffByOne(buffer) ==
  LET n == Len(buffer) - 1 IN
  IF n > Radix THEN <<Plain(0)>> \o WordBytes(n) \o Tail(buffer)
               ELSE <<Plain(n % Radix)>> \o Tail(buffer)

\* Over 0xFF bytes the body moves back for a long header, whatever the buffer
\* begins with (the memcpy overlaps itself, which the build's library allows).
EncryptPacket(buffer) ==
  LET n == Len(buffer) - 1 IN
  IF Len(buffer) > Radix - 1 THEN <<Plain(0)>> \o WordBytes(n) \o Tail(buffer)
                             ELSE <<Plain(n)>> \o Tail(buffer)

\* Where the body starts, and how long the packet is.
Long(buffer) == buffer[1].v = 0
DecStart(buffer) == IF Long(buffer) THEN 3 ELSE 1
PacketSize(buffer) == IF Long(buffer) THEN Word(buffer, 2) + 3 ELSE buffer[1].v + 1
Body(buffer) == SubSeq(buffer, DecStart(buffer) + 1, Len(buffer))

\* SendISCPacket and the hub's EncryptPacket: the size, then the packet.
ISCPacket(packet) == WordBytes(Len(packet) + 2) \o packet
-----------------------------------------------------------------------------
HeaderSize == IF Hub THEN 4 ELSE 3

FramingInit == /\ route \in Routes
        /\ sent = <<>> /\ toProxy = <<>> /\ wire = <<>> /\ delivered = <<>>
        /\ outLoc = Start
        /\ proxy = [buffer |-> <<>>, readlen |-> 1, isWordSize |-> FALSE,
                    cliIn |-> Start, cliOut |-> Start]
        /\ receiver = [buffer |-> <<>>, size |-> HeaderSize, loc |-> Start]
        /\ split = FALSE

\* The packet the n-th bytes long, its bytes telling it from the others.
PacketSaid(n) == [i \in 1..n |-> Plain(Len(sent) + 1)]

\* What SendPacket writes for the turn-th recipient of the same packet.
SendPacket(packet, turn) ==
  LET once == EncryptPacket(<<Plain(0)>> \o packet) IN
  IF turn = 1 THEN once ELSE EncryptPacket(once)

\* A packet is sent.  Several recipients get only packets with short headers:
\* a longer one grows by two bytes with each, and no map sends one.
Send(n, turn) ==
  /\ Len(sent) < MaxPackets
  /\ turn = 2 => route = "reply" /\ n + 1 <= Radix - 1
  /\ sent' = Append(sent, PacketSaid(n))
  /\ LET packet == IF Encrypted THEN Crypt(PacketSaid(n), outLoc) ELSE PacketSaid(n)
         bytes == IF Hub THEN ISCPacket(packet) ELSE SendPacket(packet, turn) IN
       IF Relayed THEN toProxy' = toProxy \o bytes /\ UNCHANGED wire
                  ELSE wire' = wire \o bytes /\ UNCHANGED toProxy
  /\ outLoc' = IF Encrypted THEN (outLoc + n) % KeyLen ELSE outLoc
  /\ UNCHANGED <<route, proxy, receiver, delivered, split>>

Chunks(stream, room) == 1..Min({room, Len(stream)})
-----------------------------------------------------------------------------
(* The worker loop: curRecv is the length of the buffer.                    *)

Deliver(packet) == delivered' = Append(delivered, packet)
Reset(loc) == [buffer |-> <<>>, size |-> HeaderSize, loc |-> loc]

\* Mutant: the place in the key table is not kept from packet to packet.
WorkerReceive_KeyReset(k) ==
  LET buffer == receiver.buffer \o SubSeq(wire, 1, k) IN
  /\ route \in {"direct", "relayed"}
  /\ wire' = SubSeq(wire, k + 1, Len(wire))
  /\ IF Len(buffer) # receiver.size THEN
          receiver' = [receiver EXCEPT !.buffer = buffer] /\ UNCHANGED delivered
     ELSE IF receiver.size = HeaderSize /\ PacketSize(buffer) > HeaderSize THEN
          receiver' = [receiver EXCEPT !.buffer = buffer, !.size = PacketSize(buffer)]
          /\ UNCHANGED delivered
     ELSE Deliver(Crypt(Body(buffer), receiver.loc)) /\ receiver' = Reset(Start)
  /\ UNCHANGED <<route, sent, toProxy, outLoc, proxy, split>>

\* recv of what is missing; DecryptBufferHeader once the header is there;
\* DecryptBufferData and the handler once all of it is.
WorkerReceive(k) ==
  LET buffer == receiver.buffer \o SubSeq(wire, 1, k) IN
  /\ route \in {"direct", "relayed"}
  /\ wire' = SubSeq(wire, k + 1, Len(wire))
  /\ IF Len(buffer) # receiver.size THEN
          receiver' = [receiver EXCEPT !.buffer = buffer] /\ UNCHANGED delivered
     ELSE IF receiver.size = HeaderSize /\ PacketSize(buffer) > HeaderSize THEN
          receiver' = [receiver EXCEPT !.buffer = buffer, !.size = PacketSize(buffer)]
          /\ UNCHANGED delivered
     ELSE Deliver(Crypt(Body(buffer), receiver.loc))
          /\ receiver' = Reset((receiver.loc + Len(Body(buffer))) % KeyLen)
  /\ UNCHANGED <<route, sent, toProxy, outLoc, proxy, split>>

\* The same loop in the hub, whose handlers take the size as it stands; and
\* ISCClient, which keeps it in readlen.
ISCReceive(k) ==
  LET buffer == receiver.buffer \o SubSeq(wire, 1, k) IN
  /\ Hub
  /\ wire' = SubSeq(wire, k + 1, Len(wire))
  /\ IF Len(buffer) # receiver.size THEN
          receiver' = [receiver EXCEPT !.buffer = buffer] /\ UNCHANGED delivered
     ELSE IF receiver.size = HeaderSize /\ Word(buffer, 1) > HeaderSize THEN
          receiver' = [receiver EXCEPT !.buffer = buffer, !.size = Word(buffer, 1)]
          /\ UNCHANGED delivered
     ELSE Deliver(SubSeq(buffer, 3, Word(buffer, 1))) /\ receiver' = Reset(receiver.loc)
  /\ UNCHANGED <<route, sent, toProxy, outLoc, proxy, split>>
-----------------------------------------------------------------------------
(* The proxy's loops: one byte, then the rest, or two more for a long size. *)

\* ReceivedClientPacket: decrypted, looked at, encrypted again.
\* ReceivedServerPacket: passed on as it is.
PassOn(buffer) ==
  IF route = "relayed" THEN
    LET plain == Crypt(Body(buffer), proxy.cliIn)
        moved == Len(Body(buffer)) IN
    /\ wire' = wire \o SubSeq(buffer, 1, DecStart(buffer)) \o Crypt(plain, proxy.cliOut)
    /\ proxy' = [buffer |-> <<>>, readlen |-> 1, isWordSize |-> FALSE,
                 cliIn |-> (proxy.cliIn + moved) % KeyLen,
                 cliOut |-> (proxy.cliOut + moved) % KeyLen]
    /\ UNCHANGED delivered
  ELSE
    /\ Deliver(Body(buffer))
    /\ proxy' = [proxy EXCEPT !.buffer = <<>>, !.readlen = 1, !.isWordSize = FALSE]
    /\ UNCHANGED wire

LongSize(buffer) == Word(buffer, 2) + 3

\* After the next recv() the long size is read, be it there or not: of a header
\* in pieces the second byte of the size is whatever the buffer holds.
ProxyReceive(k) ==
  LET buffer == proxy.buffer \o SubSeq(toProxy, 1, k) IN
  /\ Relayed
  /\ toProxy' = SubSeq(toProxy, k + 1, Len(toProxy))
  /\ IF proxy.isWordSize /\ Len(buffer) = 2 THEN
          /\ \E stale \in 0..(Radix - 1) :
               proxy' = [proxy EXCEPT !.buffer = buffer, !.isWordSize = FALSE,
                                      !.readlen = LongSize(Append(buffer, Plain(stale)))]
          /\ split' = TRUE /\ UNCHANGED <<wire, delivered>>
     ELSE LET readlen == IF proxy.isWordSize THEN LongSize(buffer) ELSE proxy.readlen IN
          /\ UNCHANGED split
          /\ IF Len(buffer) # readlen THEN
               /\ proxy' = [proxy EXCEPT !.buffer = buffer, !.readlen = readlen,
                                         !.isWordSize = FALSE]
               /\ UNCHANGED <<wire, delivered>>
             ELSE IF Len(buffer) = 1 THEN
               /\ proxy' = [proxy EXCEPT !.buffer = buffer, !.isWordSize = Long(buffer),
                              !.readlen = IF Long(buffer) THEN 3 ELSE PacketSize(buffer)]
               /\ UNCHANGED <<wire, delivered>>
             ELSE PassOn(buffer)
  /\ UNCHANGED <<route, sent, outLoc, receiver>>
-----------------------------------------------------------------------------
Receive == \/ \E k \in Chunks(wire, receiver.size - Len(receiver.buffer)) :
                WorkerReceive(k) \/ ISCReceive(k)
           \/ \E k \in Chunks(toProxy, proxy.readlen - Len(proxy.buffer)) : ProxyReceive(k)

FramingNext == Receive \/ \E n \in Lengths, turn \in 1..2 : Send(n, turn)
-----------------------------------------------------------------------------
Byte == [v : 0..(Radix - 1), keys : SUBSET (0..(KeyLen - 1))]

\* Types, and no loop reads past the packet it is reading, which recv() would
\* take for a negative number of bytes (CTitanClientThread.cpp:49).
FramingTypeOK ==
  /\ route \in AllRoutes
  /\ \A i \in DOMAIN sent : sent[i] \in Seq(Byte)
  /\ toProxy \in Seq(Byte) /\ wire \in Seq(Byte)
  /\ outLoc \in 0..(KeyLen - 1) /\ receiver.loc \in 0..(KeyLen - 1)
  /\ Len(receiver.buffer) < receiver.size
  /\ ~split => Len(proxy.buffer) < proxy.readlen

\* However the streams are cut, the handlers are given the packets that were
\* sent, decrypted and in order (CTitanClientThread.cpp:49, CTitanServer.cpp:272,
\* CListener.hpp:28): until the proxy gets a long header in pieces.
InOrder == split \/ IsPrefix(delivered, sent)

\* Every packet reaches its handler (CTitanClientThread.cpp:71), with the proxy's
\* exception.
AllDelivered ==
  \A n \in 1..MaxPackets : Len(sent) = n ~> (split \/ Len(delivered) >= n)
=============================================================================
