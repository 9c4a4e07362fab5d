---- MODULE ConnConfig ----
(***************************************************************************)
(* The configuration of a connection on its way through the mesh: the JSON *)
(* text an application gives the SDK, the SDK's ConnectionConfig with the  *)
(* buffer layout computed from it, the protobuf message to the Media       *)
(* Proxy, the proxy's connection::Config, the message to the agent, the    *)
(* agent's SDKConnectionConfig that a multipoint group adopts and later    *)
(* connections are compared with, and the configuration of the bridges     *)
(* that the proxies of the group are told to create.                       *)
(*                                                                         *)
(* Connections are created one after the other.  Frame rates, multicast    *)
(* sources, pacing and latency are carried along and decide nothing here:  *)
(* they are left out.  Calls succeed; their failures are in LocalManager,  *)
(* the bookkeeping of the agent is in Agent.                               *)
(***************************************************************************)
EXTENDS Integers, Sequences, FiniteSets

CONSTANTS Jsons,        \* JSON configurations the applications use
          MaxMembers,   \* bound: connections registered with the agent
          UInt32,       \* 2^32, the modulus of the sizes
          None

ASSUME ConnConfigAssumption ==
    /\ UInt32 \in Nat /\ UInt32 > 0 /\ UInt32 % 8 = 0
    /\ MaxMembers \in Nat

VARIABLES
    step,       \* where the configuration of the connection in progress is
    cur,        \* that connection: [json, sdk, msg, proxy]
    members,    \* registered connections: [json, sdk, proxy, urn, established]
    groups,     \* the agent's multipoint groups: URN -> adopted configuration
    bridge      \* the bridge created last: [urn, type, kind, cfg, session]

vars == <<step, cur, members, groups, bridge>>

Kinds == {"tx", "rx"}

\* The moduli of the smaller numbers.
UInt16 == 65536
UInt8  == 256

-----------------------------------------------------------------------------
(* Enumerations.  A value travels as a number, its place in these tables;  *)
(* the SDK and the bridges read it with one set of tables, the messages    *)
(* and the agent with the other.                                           *)

MeshTransports   == <<"st2110-20", "st2110-22", "st2110-30">>
MeshPixelFormats == <<"yuv422p10le", "v210", "yuv422p10rfc4175">>
MeshSampleRates  == <<48000, 96000, 44100>>
MeshAudioFormats == <<"pcm_s8", "pcm_s16be", "pcm_s24be">>
MeshPacketTimes  == <<"1ms", "125us", "250us", "333us", "4ms", "80us",
                      "1.09ms", "0.14ms", "0.09ms">>

PbTransports   == <<"st2110-20", "st2110-22", "st2110-30">>
PbPixelFormats == <<"yuv422p10le", "v210", "yuv422p10rfc4175">>
PbSampleRates  == <<48000, 96000, 44100>>
PbAudioFormats == <<"pcm_s8", "pcm_s16be", "pcm_s24be">>
PbPacketTimes  == <<"1ms", "125us", "250us", "333us", "4ms", "80us",
                    "1.09ms", "0.14ms", "0.09ms">>

In(v, table)      == \E i \in DOMAIN table : table[i] = v
Cast(v, from, to) == to[CHOOSE i \in DOMAIN from : from[i] = v]

-----------------------------------------------------------------------------
(* SDK: ConnectionConfig::parse_from_json().  An operator named ...Ok says *)
(* that the parser gets past a part of the text.                           *)

ConnTypeOk(j) == Cardinality(j.conn) = 1

ConnType(j) == CASE "multipointGroup" \in j.conn -> "group"
                 [] "st2110" \in j.conn          -> "st2110"
                 [] OTHER                        -> "rdma"

\* An address and a port, or a group's URN, is a pair.  The port has sixteen
\* bits, the payload type number eight.
ParseConn(j) ==
    CASE ConnType(j) = "group"  -> [type |-> "group", urn |-> j.urn]
      [] ConnType(j) = "st2110" -> [type |-> "st2110", ip |-> j.ip, port |-> j.port % UInt16,
                                    transport |-> j.transport, pt |-> j.pt % UInt8]
      [] OTHER                  -> [type |-> "rdma"]

TransportOk(j) == ConnType(j) = "st2110" => In(j.transport, MeshTransports)

OptionsOk(j) == j.provider \in {"tcp", "verbs"} /\ j.endpoints \in 1..8

\* No payload means a blob; otherwise exactly one kind of payload is named.
PayloadTypeOk(j) == j.payload = {"missing"} \/ Cardinality(j.payload) = 1

PayloadType(j) == CASE "video" \in j.payload -> "video"
                    [] "audio" \in j.payload -> "audio"
                    [] OTHER                 -> "blob"

VideoOk(j) == PayloadType(j) = "video" => In(j.pixfmt, MeshPixelFormats)

\* "0.09ms" is stored as the constant of 1.09 ms.
ParsePacketTime(j) == IF j.ptime = "0.09ms" THEN "1.09ms" ELSE j.ptime

ParsePayload(j) ==
    CASE PayloadType(j) = "video" -> [type |-> "video", width |-> j.width, height |-> j.height,
                                      pixfmt |-> j.pixfmt]
      [] PayloadType(j) = "audio" -> [type |-> "audio", channels |-> j.channels, rate |-> j.rate,
                                      format |-> j.format, ptime |-> ParsePacketTime(j)]
      [] OTHER                    -> [type |-> "blob"]

AudioOk(j) == PayloadType(j) = "audio" => /\ In(j.format, MeshAudioFormats)
                                          /\ In(j.rate, MeshSampleRates)
                                          /\ In(j.ptime, MeshPacketTimes)

AudioCompatible(j) ==
    PayloadType(j) = "audio" =>
        IF j.rate = 44100 THEN ParsePacketTime(j) \in {"1.09ms", "0.14ms", "0.09ms"}
        ELSE ParsePacketTime(j) \in {"1ms", "125us", "250us", "333us", "4ms", "80us"}

BlobOk(j) == PayloadType(j) = "blob" => ConnType(j) = "group" /\ j.maxPayload # 0

ParseOk(j) == /\ ConnTypeOk(j) /\ TransportOk(j) /\ OptionsOk(j) /\ PayloadTypeOk(j)
              /\ VideoOk(j) /\ AudioOk(j) /\ AudioCompatible(j) /\ BlobOk(j)

-----------------------------------------------------------------------------
(* SDK: the size of the payload and the layout of a buffer.                *)

SampleSize(format) == Cast(format, MeshAudioFormats, <<1, 2, 3>>)

\* Mutant: one sample less where rate times packet time is no whole number.
SampleNumTruncated(rate, ptime) ==
    LET table == CASE rate = 48000 -> <<48, 6, 12, 15, 192, 3, 0, 0, 0>>
                   [] rate = 96000 -> <<96, 12, 24, 31, 384, 7, 0, 0, 0>>
                   [] OTHER        -> <<0, 0, 0, 0, 0, 0, 48, 6, 3>>
    IN Cast(ptime, MeshPacketTimes, table)

\* Samples per packet, in the order of MeshPacketTimes; 0 is an error.
SampleNum(rate, ptime) ==
    LET table == CASE rate = 48000 -> <<48, 6, 12, 16, 192, 4, 0, 0, 0>>
                   [] rate = 96000 -> <<96, 12, 24, 32, 384, 8, 0, 0, 0>>
                   [] OTHER        -> <<0, 0, 0, 0, 0, 0, 48, 6, 4>>
    IN Cast(ptime, MeshPacketTimes, table)

CalcAudioBufSize(p) ==
    LET n == SampleNum(p.rate, p.ptime)
    IN IF n = 0 THEN None ELSE (SampleSize(p.format) * n * p.channels) % UInt32

CalcVideoBufSize(p) ==
    LET pixels == (p.width * p.height) % UInt32
    IN CASE p.pixfmt = "yuv422p10le" -> (pixels * 4) % UInt32
         [] p.pixfmt = "v210"        -> IF pixels % 3 # 0 THEN None
                                        ELSE ((pixels * 8) % UInt32) \div 3
         [] OTHER                    -> IF pixels % 2 # 0 THEN None
                                        ELSE ((pixels * 5) % UInt32) \div 2

CalcPayloadSize(p, maxPayload) == CASE p.type = "video" -> CalcVideoBufSize(p)
                                    [] p.type = "audio" -> CalcAudioBufSize(p)
                                    [] OTHER            -> maxPayload

RoundUp8(n) == (((n + 7) % UInt32) \div 8) * 8
SysDataSize == 24

\* Mutant: the metadata follows the last byte of the payload.
BufPartitionsTight(size, maxMetadata) ==
    [sysdata  |-> [offset |-> 0, size |-> RoundUp8(SysDataSize)],
     payload  |-> [offset |-> RoundUp8(SysDataSize), size |-> RoundUp8(size)],
     metadata |-> [offset |-> (RoundUp8(SysDataSize) + size) % UInt32,
                   size   |-> RoundUp8(maxMetadata)]]

BufPartitions(size, maxMetadata) ==
    [sysdata  |-> [offset |-> 0, size |-> RoundUp8(SysDataSize)],
     payload  |-> [offset |-> RoundUp8(SysDataSize), size |-> RoundUp8(size)],
     metadata |-> [offset |-> (RoundUp8(SysDataSize) + RoundUp8(size)) % UInt32,
                   size   |-> RoundUp8(maxMetadata)]]

TotalSize(parts) == (parts.payload.size + parts.metadata.size + parts.sysdata.size) % UInt32

\* ConnectionContext::apply_json_config()
ApplyJsonConfig(j, kind) ==
    LET payload == ParsePayload(j)
        size    == CalcPayloadSize(payload, j.maxPayload)
    IN IF ~ParseOk(j) \/ size = None THEN None
       ELSE [kind |-> kind, conn |-> ParseConn(j), payload |-> payload,
             options |-> [provider |-> j.provider, endpoints |-> j.endpoints],
             capacity |-> j.capacity % UInt16, maxPayload |-> j.maxPayload,
             maxMetadata |-> j.maxMetadata, calculated |-> size,
             parts |-> BufPartitions(size, j.maxMetadata)]

\* Numbers are not negative, and a buffer that is accepted has fewer than
\* UInt32 bytes: the code computes sizes modulo 2^32 and checks none of them.
ASSUME JsonsAssumption ==
    \A j \in Jsons :
        /\ j.port \in Nat /\ j.pt \in Nat /\ j.capacity \in Nat /\ j.maxMetadata \in Nat
        /\ LET size == CalcPayloadSize(ParsePayload(j), j.maxPayload)
           IN ParseOk(j) /\ size # None => /\ size \in Nat
                                           /\ size + j.maxMetadata + 40 <= UInt32

-----------------------------------------------------------------------------
(* The ConnectionConfig message and the configurations at its two ends.    *)

\* CreateConnectionJson(): enumerations are cast to those of the message.
ConnMsg(n) == IF n.type # "st2110" THEN n
              ELSE [n EXCEPT !.transport = Cast(@, MeshTransports, PbTransports)]

PayloadMsg(p) ==
    CASE p.type = "video" -> [p EXCEPT !.pixfmt = Cast(@, MeshPixelFormats, PbPixelFormats)]
      [] p.type = "audio" -> [p EXCEPT !.rate   = Cast(@, MeshSampleRates, PbSampleRates),
                                       !.format = Cast(@, MeshAudioFormats, PbAudioFormats),
                                       !.ptime  = Cast(@, MeshPacketTimes, PbPacketTimes)]
      [] OTHER            -> p

CreateConnectionMsg(c) == [c EXCEPT !.conn = ConnMsg(@), !.payload = PayloadMsg(@)]

\* Config::assign_from_pb() and assign_to_pb(): the message field by field.
\* The capacity, the port and the number of endpoints have sixteen bits.
ConnFromPb(n)    == IF n.type # "st2110" THEN n ELSE [n EXCEPT !.port = @ % UInt16]
OptionsFromPb(o) == [o EXCEPT !.endpoints = @ % UInt16]

AssignFromPb(m) == [m EXCEPT !.capacity = @ % UInt16, !.conn = ConnFromPb(@),
                             !.options = OptionsFromPb(@)]

AssignToPb(c) == [f \in DOMAIN c |-> c[f]]

\* AssignFromPb() of the agent: the kind is dropped, three numbers narrowed.
AgentAssignFromPb(m) ==
    [f \in DOMAIN m \ {"kind"} |->
        CASE f = "conn"    -> IF m.conn.type # "st2110" THEN m.conn
                              ELSE [m.conn EXCEPT !.port = @ % UInt16, !.pt = @ % UInt8]
          [] f = "options" -> [m.options EXCEPT !.endpoints = @ % UInt8]
          [] OTHER         -> m[f]]

\* AssignToPb() of the agent: a kind that is not set is the first one.
AgentAssignToPb(s) == [f \in DOMAIN s \union {"kind"} |-> IF f = "kind" THEN "tx" ELSE s[f]]

GetMultipointGroupURN(s) == CASE s.conn.type = "group"  -> s.conn.urn
                              [] s.conn.type = "st2110" -> <<s.conn.ip, s.conn.port>>
                              [] OTHER                  -> None

\* Mutant: payloads of the same kind and size are taken to be the same.
CheckPayloadCompatibilitySize(s, c) ==
    /\ s.calculated = c.calculated
    /\ s.conn.type = c.conn.type
    /\ s.conn.type = "st2110" => s.conn = c.conn
    /\ s.options = c.options
    /\ s.payload.type = c.payload.type

\* s is the group's configuration, c that of a connection joining it.
CheckPayloadCompatibility(s, c) ==
    /\ s.calculated = c.calculated
    /\ s.conn.type = c.conn.type
    /\ s.conn.type = "group" => s.conn.urn = c.conn.urn
    /\ s.conn.type = "st2110" => /\ s.conn.ip = c.conn.ip /\ s.conn.port = c.conn.port
                                 /\ s.conn.transport = c.conn.transport
                                 /\ s.conn.pt = c.conn.pt
    /\ s.options = c.options
    /\ s.payload.type = c.payload.type
    /\ s.payload.type = "video" => /\ s.payload.width = c.payload.width
                                   /\ s.payload.height = c.payload.height
                                   /\ s.payload.pixfmt = c.payload.pixfmt
    /\ s.payload.type = "audio" => /\ s.payload.channels = c.payload.channels
                                   /\ s.payload.rate = c.payload.rate
                                   /\ s.payload.format = c.payload.format
                                   /\ s.payload.ptime = c.payload.ptime
    /\ s.payload.type = "blob" => s.maxPayload = c.maxPayload

-----------------------------------------------------------------------------
(* Bridges.  The Media Transport Library is external: the size of a frame  *)
(* follows from the bits of a pixel, that of an audio packet from the      *)
(* whole number of samples nearest to rate times packet time.              *)

StFrameSize(pixfmt, width, height) ==
    LET bits == CASE pixfmt = "yuv422p10le" -> <<32, 1>>
                  [] pixfmt = "v210"        -> <<64, 3>>
                  [] OTHER                  -> <<20, 1>>
    IN ((width * height * bits[1]) \div bits[2]) \div 8

Microseconds(ptime) ==
    Cast(ptime, MeshPacketTimes, <<1000, 125, 250, 333, 4000, 80, 1090, 140, 90>>)

StPacketSize(format, ptime, rate, channels) ==
    LET samples == ((rate \div 100) * Microseconds(ptime) + 5000) \div 10000
    IN SampleSize(format) * samples * channels

\* The conversions of st2110.cc, from the numbers of the message.
VideoFormat(v)    == Cast(v, PbPixelFormats, MeshPixelFormats)
AudioFormat(v)    == Cast(v, PbAudioFormats, MeshAudioFormats)
AudioSampling(v)  == Cast(v, PbSampleRates, MeshSampleRates)
AudioTime(v)      == Cast(v, PbPacketTimes, MeshPacketTimes)

\* configure_common(): a transmitter sends to the remote port, a receiver
\* listens on the local one.
TxPort(remote, local) == remote
RxPort(remote, local) == local

\* A session that transfers nothing is refused.
Session(udp, pt, size) == IF size = 0 THEN None ELSE [udp |-> udp, pt |-> pt, transfer |-> size]

\* What configure() makes of the video or the audio part of a configuration; a
\* payload of the other kind leaves zeroes there, and a frame of size 0.
VideoSize(c) == IF c.payload.type # "video" THEN 0
                ELSE StFrameSize(VideoFormat(c.payload.pixfmt), c.payload.width, c.payload.height)

PlanarSize(c) == IF c.payload.type = "video" /\ VideoFormat(c.payload.pixfmt) = "yuv422p10le"
                 THEN VideoSize(c) ELSE 0

AudioSize(c) == IF c.payload.type # "audio" THEN 0
                ELSE StPacketSize(AudioFormat(c.payload.format), AudioTime(c.payload.ptime),
                                  AudioSampling(c.payload.rate), c.payload.channels)

St22PayloadType == 114

Configure20Tx(c) == Session(TxPort(c.conn.port, 0), c.conn.pt, VideoSize(c))
Configure20Rx(c) == Session(RxPort(0, c.conn.port), c.conn.pt, VideoSize(c))
Configure22Tx(c) == Session(TxPort(c.conn.port, 0), St22PayloadType, PlanarSize(c))
Configure22Rx(c) == Session(RxPort(0, c.conn.port), St22PayloadType, PlanarSize(c))
Configure30Tx(c) == Session(TxPort(c.conn.port, 0), c.conn.pt, AudioSize(c))
Configure30Rx(c) == Session(RxPort(0, c.conn.port), c.conn.pt, AudioSize(c))

CreateBridge20(kind, c) == IF kind = "tx" THEN Configure20Tx(c) ELSE Configure20Rx(c)
CreateBridge22(kind, c) == IF kind = "tx" THEN Configure22Tx(c) ELSE Configure22Rx(c)
CreateBridge30(kind, c) == IF kind = "tx" THEN Configure30Tx(c) ELSE Configure30Rx(c)

\* An RDMA bridge transfers whole buffers; its port is the agent's choice.
CreateBridgeRdma(c) == [transfer |-> TotalSize(c.parts), endpoints |-> c.options.endpoints,
                        provider |-> c.options.provider]

\* BridgesManager::create_bridge(): what is configured, None when refused.
Configured(type, kind, c) ==
    CASE type = "rdma"                  -> CreateBridgeRdma(c)
      [] c.conn.transport = "st2110-20" -> CreateBridge20(kind, c)
      [] c.conn.transport = "st2110-22" -> CreateBridge22(kind, c)
      [] OTHER                          -> CreateBridge30(kind, c)

\* Bridge.ValidateConfig(): an ST2110 bridge needs a port.
ValidateConfig(type, s) == type = "st2110" => s.conn.type = "st2110" /\ s.conn.port # 0

-----------------------------------------------------------------------------
Idle == step' = "idle" /\ cur' = None

Init ==
    /\ step = "idle" /\ cur = None
    /\ members = {} /\ groups = <<>> /\ bridge = None

\* The application creates a connection; a bad configuration is refused.
CreateConnection(j, kind) ==
    LET sdk == ApplyJsonConfig(j, kind)
    IN /\ step = "idle" /\ Cardinality(members) < MaxMembers
       /\ sdk # None
       /\ cur' = [json |-> j, sdk |-> sdk, msg |-> CreateConnectionMsg(sdk), proxy |-> None]
       /\ step' = "create"
       /\ UNCHANGED <<members, groups, bridge>>

\* The proxy's CreateConnection() up to RegisterConnection() at the agent.
ProxyCreateConnection ==
    LET proxy == AssignFromPb(cur.msg)
    IN /\ step = "create"
       /\ cur' = [cur EXCEPT !.proxy = proxy, !.msg = AssignToPb(proxy)]
       /\ step' = "register"
       /\ UNCHANGED <<members, groups, bridge>>

\* establish() of the SDK compares the buffer with the one the proxy made.
Joined(urn) ==
    members' = members \union
        {[json |-> cur.json, sdk |-> cur.sdk, proxy |-> cur.proxy, urn |-> urn,
          established |-> TotalSize(cur.sdk.parts) = TotalSize(cur.proxy.parts)]}

\* The first connection with a URN founds the group.
AgentCreatesGroup ==
    LET c   == AgentAssignFromPb(cur.msg)
        urn == GetMultipointGroupURN(c)
    IN /\ step = "register"
       /\ urn # None /\ urn \notin DOMAIN groups
       /\ groups' = [u \in DOMAIN groups \union {urn} |-> IF u = urn THEN c ELSE groups[u]]
       /\ Joined(urn) /\ Idle
       /\ UNCHANGED bridge

AgentLinksConnection ==
    LET c   == AgentAssignFromPb(cur.msg)
        urn == GetMultipointGroupURN(c)
    IN /\ step = "register"
       /\ urn # None /\ urn \in DOMAIN groups
       /\ CheckPayloadCompatibility(groups[urn], c)
       /\ Joined(urn) /\ Idle
       /\ UNCHANGED <<groups, bridge>>

\* Without a URN, with another payload, or because the group already has its
\* sender (see Agent) the connection is refused and deleted.
AgentRefuses ==
    LET urn == GetMultipointGroupURN(AgentAssignFromPb(cur.msg))
    IN /\ step = "register"
       /\ urn = None \/ urn \in DOMAIN groups
       /\ Idle
       /\ UNCHANGED <<members, groups, bridge>>

\* ApplyProxyConfig() sends a bridge of the group, ApplyConfig() of the proxy
\* parses it and create_bridge() configures it.
CreateBridge(type, kind) ==
    \E urn \in DOMAIN groups :
        LET cfg == AssignFromPb(AgentAssignToPb(groups[urn]))
        IN /\ step = "idle"
           /\ type = "st2110" => groups[urn].conn.type = "st2110"
           /\ ValidateConfig(type, groups[urn])
           /\ bridge' = [urn |-> urn, type |-> type, kind |-> kind, cfg |-> cfg,
                         session |-> Configured(type, kind, cfg)]
           /\ UNCHANGED <<step, cur, members, groups>>

Next ==
    \/ \E j \in Jsons, kind \in Kinds : CreateConnection(j, kind)
    \/ ProxyCreateConnection
    \/ AgentCreatesGroup
    \/ AgentLinksConnection
    \/ AgentRefuses
    \/ \E type \in {"st2110", "rdma"}, kind \in Kinds : CreateBridge(type, kind)

Spec == Init /\ [][Next]_vars

-----------------------------------------------------------------------------
(* Properties                                                              *)

\* A buffer has room for what it is declared to carry and its three parts lie
\* one after the other, aligned to eight bytes, up to its end; both ends of
\* the shared memory compute the same size, so establish() never fails on it
\* (configure_buf_partitions(), total_size(), establish()).
LayoutSound ==
    \A m \in members :
        LET p == m.sdk.parts
        IN /\ p.sysdata.offset + p.sysdata.size = p.payload.offset
           /\ p.payload.offset + p.payload.size = p.metadata.offset
           /\ p.metadata.offset + p.metadata.size = TotalSize(p)
           /\ p.payload.offset % 8 = 0 /\ p.metadata.offset % 8 = 0
           /\ p.payload.size >= m.sdk.calculated /\ p.metadata.size >= m.sdk.maxMetadata
           /\ m.established

\* A bridge works with the payload, the buffer layout before the metadata, the
\* transport and the options of every connection of its group, whichever of
\* them founded it: nothing is lost in the five conversions on the way, and
\* CheckPayloadCompatibility() lets no other payload in.
BridgeSpeaksForMembers ==
    bridge # None =>
        \A m \in {n \in members : n.urn = bridge.urn} :
            /\ bridge.cfg.payload = m.sdk.payload
            /\ bridge.cfg.conn = m.sdk.conn
            /\ bridge.cfg.options = m.sdk.options
            /\ bridge.cfg.calculated = m.sdk.calculated
            /\ bridge.cfg.parts.sysdata = m.sdk.parts.sysdata
            /\ bridge.cfg.parts.payload = m.sdk.parts.payload

\* The payloads that the documentation lists for a transport.
Supported(j) ==
    CASE j.transport = "st2110-20" -> PayloadType(j) = "video"
      [] j.transport = "st2110-22" -> PayloadType(j) = "video" /\ j.pixfmt = "yuv422p10le"
      [] OTHER                     -> PayloadType(j) = "audio"

\* An ST2110 bridge of a supported payload is configured, on the port of the
\* connections of its group, and moves exactly the payload the SDK computed: a
\* frame fits the buffer and none of it is left behind (calc_audio_buf_size()
\* and calc_video_buf_size() against the transfer size of configure();
\* ST2110Rx::frame_thread() gives up when the transfer exceeds the buffer).
TransferIsPayload ==
    bridge # None /\ bridge.type = "st2110" =>
        \A m \in {n \in members : n.urn = bridge.urn} :
            /\ Supported(m.json) => bridge.session # None
            /\ bridge.session # None => /\ bridge.session.transfer = m.sdk.calculated
                                        /\ bridge.session.udp = m.sdk.conn.port

\* The packet time of an audio connection is the one its JSON asks for
\* (parse_from_json()).
RequestedPacketTime ==
    \A m \in members : m.sdk.payload.type = "audio" => m.sdk.payload.ptime = m.json.ptime

====
