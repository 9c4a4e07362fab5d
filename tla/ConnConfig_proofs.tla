---- MODULE ConnConfig_proofs ----
(***************************************************************************)
(* ConnConfig for every set of configurations whose buffers fit: the       *)
(* layout of a buffer is sound, and a bridge is configured like every      *)
(* connection of its group.                                                *)
(*                                                                         *)
(* The argument: on a configuration the SDK has accepted each conversion   *)
(* on the way is the identity (the agent's loses the kind, nothing else),  *)
(* so the messages and the copies of the proxy, of the group and of the    *)
(* bridge are all the configuration of the SDK, and what is left to the    *)
(* comparison of the agent is that later members equal the first.          *)
(***************************************************************************)
EXTENDS ConnConfig, TLAPS

IsRecord(r, fields) == r = [f \in fields |-> r[f]]

GroupFields  == {"type", "urn"}
St2110Fields == {"type", "ip", "port", "transport", "pt"}
VideoFields  == {"type", "width", "height", "pixfmt"}
AudioFields  == {"type", "channels", "rate", "format", "ptime"}
AgentFields  == {"conn", "payload", "options", "capacity", "maxPayload", "maxMetadata",
                 "calculated", "parts"}
ConfigFields == AgentFields \union {"kind"}

ConnSound(n) ==
    \/ n.type = "group" /\ IsRecord(n, GroupFields)
    \/ /\ n.type = "st2110" /\ IsRecord(n, St2110Fields)
       /\ n.port \in Nat /\ n.port < UInt16 /\ n.pt \in Nat /\ n.pt < UInt8
       /\ In(n.transport, MeshTransports)
    \/ n.type = "rdma" /\ IsRecord(n, {"type"})

PayloadSound(p) ==
    \/ /\ p.type = "video" /\ IsRecord(p, VideoFields)
       /\ In(p.pixfmt, MeshPixelFormats)
    \/ /\ p.type = "audio" /\ IsRecord(p, AudioFields)
       /\ In(p.rate, MeshSampleRates) /\ In(p.format, MeshAudioFormats)
       /\ In(p.ptime, MeshPacketTimes)
    \/ p.type = "blob" /\ IsRecord(p, {"type"})

OptionsSound(o) ==
    /\ IsRecord(o, {"provider", "endpoints"})
    /\ o.endpoints \in Nat /\ o.endpoints < UInt8

\* What the SDK makes of an accepted JSON text.
SdkConfig(c) ==
    /\ IsRecord(c, ConfigFields)
    /\ ConnSound(c.conn) /\ PayloadSound(c.payload) /\ OptionsSound(c.options)
    /\ c.capacity \in Nat /\ c.capacity < UInt16
    /\ c.maxMetadata \in Nat /\ c.calculated \in Nat
    /\ c.calculated + c.maxMetadata + 40 <= UInt32
    /\ c.parts = BufPartitions(c.calculated, c.maxMetadata)

\* The part of a configuration that the agent keeps.
AgentConfig(c) == [f \in AgentFields |-> c[f]]

-----------------------------------------------------------------------------
(* The conversions                                                         *)

\* Reduction modulo m: what it returns, and what it leaves alone.
LEMMA ModRange16 == \A n \in Nat : n % UInt16 \in Nat /\ n % UInt16 < UInt16
BY DEF UInt16

LEMMA ModRange8 == \A n \in Nat : n % UInt8 \in Nat /\ n % UInt8 < UInt8
BY DEF UInt8

LEMMA ModSame ==
    ASSUME NEW n \in Nat, NEW m \in Nat, n < m
    PROVE  n % m = n
OBVIOUS

LEMMA ModSame16 ==
    ASSUME NEW n \in Nat, n < UInt16 \/ n < UInt8
    PROVE  n % UInt16 = n
<1>1. n < 65536
  BY DEF UInt16, UInt8
<1> QED BY <1>1, ModSame DEF UInt16

LEMMA ModSame8 ==
    ASSUME NEW n \in Nat, n < UInt8
    PROVE  n % UInt8 = n
BY ModSame DEF UInt8

\* A value of a table is cast to itself: both sets of tables are the same.
LEMMA CastSame ==
    ASSUME NEW table, NEW v, In(v, table)
    PROVE  Cast(v, table, table) = v
BY DEF In, Cast

\* An accepted packet time is one of the table also after "0.09ms" has become
\* "1.09ms" (parse_from_json()).
LEMMA PacketTimeKnown ==
    ASSUME NEW j, In(j.ptime, MeshPacketTimes)
    PROVE  In(ParsePacketTime(j), MeshPacketTimes)
<1>1. In("1.09ms", MeshPacketTimes)
  <2>1. 7 \in DOMAIN MeshPacketTimes /\ MeshPacketTimes[7] = "1.09ms"
    BY DEF MeshPacketTimes
  <2> QED BY <2>1 DEF In
<1> QED BY <1>1 DEF ParsePacketTime

\* What ApplyJsonConfig() accepts is such a configuration.
LEMMA SdkConfigMade ==
    ASSUME NEW j \in Jsons, NEW kind, ApplyJsonConfig(j, kind) # None
    PROVE  SdkConfig(ApplyJsonConfig(j, kind))
<1> DEFINE payload == ParsePayload(j)
           size    == CalcPayloadSize(payload, j.maxPayload)
           c       == ApplyJsonConfig(j, kind)
<1>1. /\ ParseOk(j) /\ size # None
      /\ c = [kind |-> kind, conn |-> ParseConn(j), payload |-> payload,
              options |-> [provider |-> j.provider, endpoints |-> j.endpoints],
              capacity |-> j.capacity % UInt16, maxPayload |-> j.maxPayload,
              maxMetadata |-> j.maxMetadata, calculated |-> size,
              parts |-> BufPartitions(size, j.maxMetadata)]
  BY DEF ApplyJsonConfig
<1>2. ConnSound(ParseConn(j))
  <2>1. /\ j.port % UInt16 \in Nat /\ j.port % UInt16 < UInt16
        /\ j.pt % UInt8 \in Nat /\ j.pt % UInt8 < UInt8
    <3>1. j.port \in Nat /\ j.pt \in Nat
      BY JsonsAssumption, Zenon
    <3> QED BY <3>1, ModRange16, ModRange8, Zenon
  <2>2. ConnType(j) \in {"group", "st2110", "rdma"}
    BY DEF ConnType
  <2>3. ConnType(j) = "st2110" => In(j.transport, MeshTransports)
    BY <1>1 DEF ParseOk, TransportOk
  <2>4. CASE ConnType(j) = "group"
    <3> DEFINE n == [type |-> "group", urn |-> j.urn]
    <3>1. ParseConn(j) = n
      BY <2>4, Zenon DEF ParseConn
    <3>2. ConnSound(n)
      BY Zenon DEF ConnSound, IsRecord, GroupFields
    <3> QED BY <3>1, <3>2, Zenon
  <2>5. CASE ConnType(j) = "st2110"
    <3> DEFINE n == [type |-> "st2110", ip |-> j.ip, port |-> j.port % UInt16,
                     transport |-> j.transport, pt |-> j.pt % UInt8]
    <3>1. ParseConn(j) = n
      BY <2>5 DEF ParseConn
    <3>2. ConnSound(n)
      BY <2>1, <2>3, <2>5, Zenon DEF ConnSound, IsRecord, St2110Fields
    <3> QED BY <3>1, <3>2, Zenon
  <2>6. CASE ConnType(j) = "rdma"
    <3> DEFINE n == [type |-> "rdma"]
    <3>1. ParseConn(j) = n
      BY <2>6 DEF ParseConn
    <3>2. ConnSound(n)
      BY Zenon DEF ConnSound, IsRecord, GroupFields
    <3> QED BY <3>1, <3>2, Zenon
  <2> QED BY <2>2, <2>4, <2>5, <2>6
<1>3. PayloadSound(payload)
  <2>1. PayloadType(j) \in {"video", "audio", "blob"}
    BY DEF PayloadType
  <2>2. PayloadType(j) = "video" => In(j.pixfmt, MeshPixelFormats)
    BY <1>1 DEF ParseOk, VideoOk
  <2>3. PayloadType(j) = "audio" => /\ In(j.format, MeshAudioFormats)
                                    /\ In(j.rate, MeshSampleRates)
                                    /\ In(ParsePacketTime(j), MeshPacketTimes)
    BY <1>1, PacketTimeKnown DEF ParseOk, AudioOk
  <2>4. CASE PayloadType(j) = "video"
    <3> DEFINE p == [type |-> "video", width |-> j.width, height |-> j.height,
                     pixfmt |-> j.pixfmt]
    <3>1. payload = p
      BY <2>4 DEF ParsePayload
    <3>2. PayloadSound(p)
      BY <2>2, <2>4, Zenon DEF PayloadSound, IsRecord, VideoFields
    <3> QED BY <3>1, <3>2, Zenon
  <2>5. CASE PayloadType(j) = "audio"
    <3> DEFINE p == [type |-> "audio", channels |-> j.channels, rate |-> j.rate,
                     format |-> j.format, ptime |-> ParsePacketTime(j)]
    <3>1. payload = p
      BY <2>5 DEF ParsePayload
    <3>2. PayloadSound(p)
      BY <2>3, <2>5, Zenon DEF PayloadSound, IsRecord, AudioFields
    <3> QED BY <3>1, <3>2, Zenon
  <2>6. CASE PayloadType(j) = "blob"
    <3> DEFINE p == [type |-> "blob"]
    <3>1. payload = p
      BY <2>6 DEF ParsePayload
    <3>2. PayloadSound(p)
      BY Zenon DEF PayloadSound, IsRecord
    <3> QED BY <3>1, <3>2, Zenon
  <2> QED BY <2>1, <2>4, <2>5, <2>6
<1>4. OptionsSound([provider |-> j.provider, endpoints |-> j.endpoints])
  <2>1. j.endpoints \in Nat /\ j.endpoints < UInt8
    BY <1>1 DEF ParseOk, OptionsOk, UInt8
  <2> QED BY <2>1, Zenon DEF OptionsSound, IsRecord
<1>5. /\ j.capacity % UInt16 \in Nat /\ j.capacity % UInt16 < UInt16
      /\ j.maxMetadata \in Nat
      /\ size \in Nat /\ size + j.maxMetadata + 40 <= UInt32
  <2>1. /\ j.capacity \in Nat /\ j.maxMetadata \in Nat
        /\ ParseOk(j) /\ size # None =>
             size \in Nat /\ size + j.maxMetadata + 40 <= UInt32
    BY JsonsAssumption, Zenon
  <2> QED BY <1>1, <2>1, ModRange16, Zenon
<1> HIDE DEF payload, size, c
<1>6. IsRecord(c, ConfigFields)
  <2>1. DOMAIN c = ConfigFields
    BY <1>1 DEF ConfigFields, AgentFields
  <2>2. c = [f \in DOMAIN c |-> c[f]]
    BY <1>1, Zenon
  <2> QED BY <2>1, <2>2, Zenon DEF IsRecord
<1>7. /\ c.conn = ParseConn(j) /\ c.payload = payload
      /\ c.options = [provider |-> j.provider, endpoints |-> j.endpoints]
      /\ c.capacity = j.capacity % UInt16 /\ c.maxMetadata = j.maxMetadata
      /\ c.calculated = size /\ c.parts = BufPartitions(size, j.maxMetadata)
  BY <1>1, Zenon
<1>8. SdkConfig(c)
  BY <1>2, <1>3, <1>4, <1>5, <1>6, <1>7, Zenon DEF SdkConfig
<1> QED BY <1>8 DEF c

\* The tables of the messages are those of the SDK.
LEMMA TablesSame ==
    /\ PbTransports = MeshTransports /\ PbPixelFormats = MeshPixelFormats
    /\ PbSampleRates = MeshSampleRates /\ PbAudioFormats = MeshAudioFormats
    /\ PbPacketTimes = MeshPacketTimes
<1>1. PbTransports = MeshTransports
  BY DEF PbTransports, MeshTransports
<1>2. PbPixelFormats = MeshPixelFormats
  BY DEF PbPixelFormats, MeshPixelFormats
<1>3. PbSampleRates = MeshSampleRates
  BY DEF PbSampleRates, MeshSampleRates
<1>4. PbAudioFormats = MeshAudioFormats
  BY DEF PbAudioFormats, MeshAudioFormats
<1>5. PbPacketTimes = MeshPacketTimes
  BY DEF PbPacketTimes, MeshPacketTimes
<1> QED BY <1>1, <1>2, <1>3, <1>4, <1>5, Zenon

\* CreateConnectionJson() of the SDK changes nothing in such a configuration.
LEMMA MessageSame ==
    ASSUME NEW c, SdkConfig(c)
    PROVE  CreateConnectionMsg(c) = c
<1>1. ConnSound(c.conn) /\ PayloadSound(c.payload) /\ IsRecord(c, ConfigFields)
  BY Zenon DEF SdkConfig
<1>2. ConnMsg(c.conn) = c.conn
  <2>1. SUFFICES ASSUME NEW n, ConnSound(n), n.type = "st2110"
                 PROVE  [n EXCEPT !.transport = Cast(@, MeshTransports, PbTransports)] = n
    BY <1>1, Zenon DEF ConnMsg
  <2>2. IsRecord(n, St2110Fields) /\ In(n.transport, MeshTransports)
    BY <2>1 DEF ConnSound
  <2>3. Cast(n.transport, MeshTransports, PbTransports) = n.transport
    BY <2>2, TablesSame, CastSame, Zenon
  <2> QED BY <2>2, <2>3, Zenon DEF IsRecord
<1>3. PayloadMsg(c.payload) = c.payload
  <2> SUFFICES ASSUME NEW p, PayloadSound(p)
               PROVE  /\ p.type = "video" =>
                           [p EXCEPT !.pixfmt = Cast(@, MeshPixelFormats, PbPixelFormats)] = p
                      /\ p.type = "audio" =>
                           [p EXCEPT !.rate   = Cast(@, MeshSampleRates, PbSampleRates),
                                     !.format = Cast(@, MeshAudioFormats, PbAudioFormats),
                                     !.ptime  = Cast(@, MeshPacketTimes, PbPacketTimes)] = p
    BY <1>1, Zenon DEF PayloadMsg
  <2>1. CASE p.type = "video"
    <3>1. IsRecord(p, VideoFields) /\ In(p.pixfmt, MeshPixelFormats)
      BY <2>1 DEF PayloadSound
    <3>2. Cast(p.pixfmt, MeshPixelFormats, PbPixelFormats) = p.pixfmt
      BY <3>1, TablesSame, CastSame, Zenon
    <3>3. [p EXCEPT !.pixfmt = Cast(@, MeshPixelFormats, PbPixelFormats)] = p
      BY <3>1, <3>2, Zenon DEF IsRecord
    <3> QED BY <2>1, <3>3
  <2>2. CASE p.type = "audio"
    <3>1. /\ IsRecord(p, AudioFields)
          /\ In(p.rate, MeshSampleRates) /\ In(p.format, MeshAudioFormats)
          /\ In(p.ptime, MeshPacketTimes)
      BY <2>2 DEF PayloadSound
    <3>2. /\ Cast(p.rate, MeshSampleRates, PbSampleRates) = p.rate
          /\ Cast(p.format, MeshAudioFormats, PbAudioFormats) = p.format
          /\ Cast(p.ptime, MeshPacketTimes, PbPacketTimes) = p.ptime
      BY <3>1, TablesSame, CastSame, Zenon
    <3>3. [p EXCEPT !.rate = Cast(@, MeshSampleRates, PbSampleRates)] = p
      BY <3>1, <3>2, Zenon DEF IsRecord
    <3>4. [p EXCEPT !.format = Cast(@, MeshAudioFormats, PbAudioFormats)] = p
      BY <3>1, <3>2, Zenon DEF IsRecord
    <3>5. [p EXCEPT !.ptime = Cast(@, MeshPacketTimes, PbPacketTimes)] = p
      BY <3>1, <3>2, Zenon DEF IsRecord
    <3>6. [p EXCEPT !.rate   = Cast(@, MeshSampleRates, PbSampleRates),
                    !.format = Cast(@, MeshAudioFormats, PbAudioFormats),
                    !.ptime  = Cast(@, MeshPacketTimes, PbPacketTimes)] = p
      BY <3>3, <3>4, <3>5, Zenon
    <3> QED BY <2>2, <3>6
  <2> QED BY <2>1, <2>2
<1>4. [c EXCEPT !.conn = c.conn, !.payload = c.payload] = c
  BY <1>1, Zenon DEF IsRecord
<1> QED BY <1>2, <1>3, <1>4, Zenon DEF CreateConnectionMsg

\* assign_from_pb() and assign_to_pb() of the proxy change nothing either.
LEMMA ProxySame ==
    ASSUME NEW c, SdkConfig(c)
    PROVE  AssignFromPb(c) = c /\ AssignToPb(c) = c
<1>1. /\ ConnSound(c.conn) /\ OptionsSound(c.options) /\ IsRecord(c, ConfigFields)
      /\ c.capacity \in Nat /\ c.capacity < UInt16
  BY Zenon DEF SdkConfig
<1>2. ConnFromPb(c.conn) = c.conn
  <2>1. SUFFICES ASSUME NEW n, ConnSound(n), n.type = "st2110"
                 PROVE  [n EXCEPT !.port = @ % UInt16] = n
    BY <1>1, Zenon DEF ConnFromPb
  <2>2. IsRecord(n, St2110Fields) /\ n.port \in Nat /\ n.port < UInt16
    BY <2>1 DEF ConnSound
  <2>3. n.port % UInt16 = n.port
    BY <2>2, ModSame16, Zenon
  <2> QED BY <2>2, <2>3, Zenon DEF IsRecord
<1>3. OptionsFromPb(c.options) = c.options
  <2>1. c.options.endpoints % UInt16 = c.options.endpoints
    BY <1>1, ModSame16, Zenon DEF OptionsSound
  <2> QED BY <1>1, <2>1, Zenon DEF OptionsSound, IsRecord, OptionsFromPb
<1>4. c.capacity % UInt16 = c.capacity
  BY <1>1, ModSame16, Zenon
<1>5. [c EXCEPT !.capacity = c.capacity, !.conn = c.conn, !.options = c.options] = c
  BY <1>1, Zenon DEF IsRecord
<1>6. AssignFromPb(c) = c
  BY <1>2, <1>3, <1>4, <1>5, Zenon DEF AssignFromPb
<1>7. AssignToPb(c) = c
  BY <1>1, Zenon DEF AssignToPb, IsRecord
<1> QED BY <1>6, <1>7

\* The agent's copy lacks the kind; sent back it has the first one.
LEMMA AgentSame ==
    ASSUME NEW c, SdkConfig(c)
    PROVE  /\ AgentAssignFromPb(c) = AgentConfig(c)
           /\ AgentAssignToPb(AgentConfig(c)) = [c EXCEPT !.kind = "tx"]
<1> DEFINE conn    == IF c.conn.type # "st2110" THEN c.conn
                      ELSE [c.conn EXCEPT !.port = @ % UInt16, !.pt = @ % UInt8]
           options == [c.options EXCEPT !.endpoints = @ % UInt8]
<1>1. ConnSound(c.conn) /\ OptionsSound(c.options) /\ IsRecord(c, ConfigFields)
  BY Zenon DEF SdkConfig
<1>2. conn = c.conn
  <2>1. SUFFICES ASSUME NEW n, ConnSound(n), n.type = "st2110"
                 PROVE  [n EXCEPT !.port = @ % UInt16, !.pt = @ % UInt8] = n
    BY <1>1, Zenon
  <2>2. /\ IsRecord(n, St2110Fields)
        /\ n.port \in Nat /\ n.port < UInt16 /\ n.pt \in Nat /\ n.pt < UInt8
    BY <2>1 DEF ConnSound
  <2>3. n.port % UInt16 = n.port /\ n.pt % UInt8 = n.pt
    BY <2>2, ModSame16, ModSame8, Zenon
  <2>4. [n EXCEPT !.port = @ % UInt16] = n /\ [n EXCEPT !.pt = @ % UInt8] = n
    BY <2>2, <2>3, Zenon DEF IsRecord
  <2> QED BY <2>4, Zenon
<1>3. options = c.options
  <2>1. c.options.endpoints % UInt8 = c.options.endpoints
    BY <1>1, ModSame8, Zenon DEF OptionsSound
  <2> QED BY <1>1, <2>1, Zenon DEF OptionsSound, IsRecord
<1>4. DOMAIN c = ConfigFields
  BY <1>1, Zenon DEF IsRecord
<1>5. ConfigFields \ {"kind"} = AgentFields /\ AgentFields \union {"kind"} = ConfigFields
  BY DEF ConfigFields, AgentFields
<1>6. AgentAssignFromPb(c) = [f \in DOMAIN c \ {"kind"} |->
                  CASE f = "conn" -> conn [] f = "options" -> options [] OTHER -> c[f]]
  BY Zenon DEF AgentAssignFromPb
<1> HIDE DEF conn, options
<1>7. \A f : (CASE f = "conn" -> conn [] f = "options" -> options [] OTHER -> c[f]) = c[f]
  BY <1>2, <1>3
<1>8. AgentAssignFromPb(c) = AgentConfig(c)
  BY <1>4, <1>5, <1>6, <1>7, Zenon DEF AgentConfig
<1>9. AgentAssignToPb(AgentConfig(c)) = [c EXCEPT !.kind = "tx"]
  <2>1. DOMAIN AgentConfig(c) \union {"kind"} = ConfigFields
    BY <1>5, Zenon DEF AgentConfig
  <2>2. AgentAssignToPb(AgentConfig(c)) =
            [f \in ConfigFields |-> IF f = "kind" THEN "tx" ELSE AgentConfig(c)[f]]
    BY <2>1, Zenon DEF AgentAssignToPb
  <2>3. \A f \in ConfigFields : f # "kind" => AgentConfig(c)[f] = c[f]
    BY <1>5 DEF AgentConfig
  <2>4. [c EXCEPT !.kind = "tx"] = [f \in ConfigFields |-> IF f = "kind" THEN "tx" ELSE c[f]]
    BY <1>4, Zenon
  <2> QED BY <2>2, <2>3, <2>4, Zenon
<1> QED BY <1>8, <1>9

\* A buffer of three parts, with room for a payload and metadata of these sizes.
PartsSound(p, size, meta) ==
    /\ p.sysdata.offset + p.sysdata.size = p.payload.offset
    /\ p.payload.offset + p.payload.size = p.metadata.offset
    /\ p.metadata.offset + p.metadata.size = TotalSize(p)
    /\ p.payload.offset % 8 = 0 /\ p.metadata.offset % 8 = 0
    /\ p.payload.size >= size /\ p.metadata.size >= meta

LEMMA LayoutOfConfig ==
    ASSUME NEW size \in Nat, NEW meta \in Nat, size + meta + 40 <= UInt32
    PROVE  PartsSound(BufPartitions(size, meta), size, meta)
<1> DEFINE rs == ((size + 7) \div 8) * 8
           rm == ((meta + 7) \div 8) * 8
           p  == BufPartitions(size, meta)
<1>1. UInt32 \in Nat /\ UInt32 >= 40
  BY ConnConfigAssumption
<1>2. RoundUp8(size) = rs /\ RoundUp8(meta) = rm
  <2>1. (size + 7) % UInt32 = size + 7
    BY <1>1, ModSame
  <2>2. (meta + 7) % UInt32 = meta + 7
    BY <1>1, ModSame
  <2> QED BY <2>1, <2>2, Zenon DEF RoundUp8
<1>3. RoundUp8(24) = 24
  <2>1. (24 + 7) % UInt32 = 31
    BY <1>1, ModSame
  <2> QED BY <2>1 DEF RoundUp8
<1>4. /\ rs \in Nat /\ rs >= size /\ rs <= size + 7
      /\ rm \in Nat /\ rm >= meta /\ rm <= meta + 7
  OBVIOUS
<1>5. (24 + rs) % 8 = 0
  <2>1. (size + 7) \div 8 \in Nat
    OBVIOUS
  <2>2. \A k \in Nat : (24 + k * 8) % 8 = 0
    OBVIOUS
  <2> QED BY <2>1, <2>2
<1> HIDE DEF rs, rm
<1>6. (24 + rs) % UInt32 = 24 + rs
  BY <1>1, <1>4, ModSame
<1>7. (rs + rm + 24) % UInt32 = rs + rm + 24
  BY <1>1, <1>4, ModSame
<1>8. p = [sysdata  |-> [offset |-> 0, size |-> 24],
           payload  |-> [offset |-> 24, size |-> rs],
           metadata |-> [offset |-> 24 + rs, size |-> rm]]
  <2>1. (RoundUp8(24) + RoundUp8(size)) % UInt32 = 24 + rs
    BY <1>2, <1>3, <1>6, Zenon
  <2> QED BY <1>2, <1>3, <2>1 DEF BufPartitions, SysDataSize
<1> HIDE DEF p
<1>9. /\ p.sysdata.offset = 0 /\ p.sysdata.size = 24
       /\ p.payload.offset = 24 /\ p.payload.size = rs
       /\ p.metadata.offset = 24 + rs /\ p.metadata.size = rm
  BY <1>8, Zenon
<1>10. TotalSize(p) = rs + rm + 24
  BY <1>7, <1>9 DEF TotalSize
<1>11. PartsSound(p, size, meta)
  BY <1>4, <1>5, <1>9, <1>10 DEF PartsSound
<1> QED BY <1>11 DEF p

-----------------------------------------------------------------------------
(* The inductive invariant                                                 *)

\* The connection on its way has one configuration at every place it has
\* reached.  A group holds a configuration without its kind, the members of
\* the group have passed the comparison with it, and the bridge holds it too.
IInv ==
    /\ step \in {"create", "register"} =>
         /\ IsRecord(cur, {"json", "sdk", "msg", "proxy"})
         /\ SdkConfig(cur.sdk) /\ cur.msg = cur.sdk
    /\ step = "register" => cur.proxy = cur.sdk
    /\ \A u \in DOMAIN groups :
         SdkConfig(AgentAssignToPb(groups[u])) /\ IsRecord(groups[u], AgentFields)
    /\ \A m \in members :
         /\ SdkConfig(m.sdk) /\ m.established
         /\ m.urn \in DOMAIN groups
         /\ CheckPayloadCompatibility(groups[m.urn], AgentConfig(m.sdk))
    /\ bridge # None =>
         bridge.urn \in DOMAIN groups /\ bridge.cfg = AgentAssignToPb(groups[bridge.urn])

\* A configuration is compatible with itself.
LEMMA CompatibleWithItself ==
    ASSUME NEW c PROVE CheckPayloadCompatibility(c, c)
BY Zenon DEF CheckPayloadCompatibility

\* The configuration the agent keeps, given back its kind.
LEMMA AgentConfigSound ==
    ASSUME NEW c, SdkConfig(c)
    PROVE  /\ SdkConfig(AgentAssignToPb(AgentConfig(c)))
           /\ IsRecord(AgentConfig(c), AgentFields)
<1> DEFINE d == [c EXCEPT !.kind = "tx"]
<1>1. AgentAssignToPb(AgentConfig(c)) = d
  BY AgentSame, Zenon
<1>2. IsRecord(c, ConfigFields)
  BY Zenon DEF SdkConfig
<1>3. IsRecord(d, ConfigFields)
  BY <1>2 DEF IsRecord
<1>4. \A f \in ConfigFields : f # "kind" => d[f] = c[f]
  BY <1>2, Zenon DEF IsRecord
<1> HIDE DEF d
<1>5. /\ d.conn = c.conn /\ d.payload = c.payload /\ d.options = c.options
      /\ d.capacity = c.capacity /\ d.maxMetadata = c.maxMetadata
      /\ d.calculated = c.calculated /\ d.parts = c.parts
  BY <1>4 DEF ConfigFields, AgentFields
<1>6. SdkConfig(d)
  BY <1>3, <1>5, Zenon DEF SdkConfig
<1>7. IsRecord(AgentConfig(c), AgentFields)
  BY Zenon DEF IsRecord, AgentConfig
<1> QED BY <1>1, <1>6, <1>7, Zenon

\* Both ends of the shared memory compute the same size: the step that
\* registers a connection records it as established.
LEMMA JoinedStep ==
    ASSUME IInv, step = "register", NEW urn, Joined(urn)
    PROVE  \A m \in members' :
              \/ m \in members
              \/ m.sdk = cur.sdk /\ m.urn = urn /\ m.established
<1>1. cur.proxy = cur.sdk
  BY DEF IInv
<1>2. ASSUME NEW m \in members', m \notin members
      PROVE  m.sdk = cur.sdk /\ m.urn = urn /\ m.established
  <2>1. m = [json |-> cur.json, sdk |-> cur.sdk, proxy |-> cur.proxy, urn |-> urn,
             established |-> TotalSize(cur.sdk.parts) = TotalSize(cur.proxy.parts)]
    BY <1>2, Zenon DEF Joined
  <2> QED BY <1>1, <2>1, Zenon
<1> QED BY <1>2, Zenon

LEMMA Inductive == IInv /\ [Next]_vars => IInv'
<1> SUFFICES ASSUME IInv, [Next]_vars PROVE IInv'
  OBVIOUS
<1>1. ASSUME NEW j \in Jsons, NEW kind \in Kinds, CreateConnection(j, kind)
      PROVE  IInv'
  <2> DEFINE sdk == ApplyJsonConfig(j, kind)
  <2>1. /\ cur' = [json |-> j, sdk |-> sdk, msg |-> CreateConnectionMsg(sdk), proxy |-> None]
        /\ sdk # None /\ step' = "create" /\ UNCHANGED <<members, groups, bridge>>
    BY <1>1, Zenon DEF CreateConnection
  <2>2. SdkConfig(sdk) /\ CreateConnectionMsg(sdk) = sdk
    BY <2>1, SdkConfigMade, MessageSame, Zenon
  <2> HIDE DEF sdk
  <2>3. /\ IsRecord(cur', {"json", "sdk", "msg", "proxy"})
        /\ cur'.sdk = sdk /\ cur'.msg = sdk
    BY <2>1, <2>2, Zenon DEF IsRecord
  <2> QED BY <2>1, <2>2, <2>3, Zenon DEF IInv
<1>2. CASE ProxyCreateConnection
  <2>1. /\ step = "create" /\ step' = "register" /\ UNCHANGED <<members, groups, bridge>>
        /\ cur' = [cur EXCEPT !.proxy = AssignFromPb(cur.msg),
                              !.msg = AssignToPb(AssignFromPb(cur.msg))]
    BY <1>2, Zenon DEF ProxyCreateConnection
  <2>2. /\ IsRecord(cur, {"json", "sdk", "msg", "proxy"})
        /\ SdkConfig(cur.sdk) /\ cur.msg = cur.sdk
    BY <2>1 DEF IInv
  <2>3. AssignFromPb(cur.msg) = cur.sdk /\ AssignToPb(AssignFromPb(cur.msg)) = cur.sdk
    BY <2>2, ProxySame, Zenon
  <2>4. cur' = [cur EXCEPT !.proxy = cur.sdk, !.msg = cur.sdk]
    BY <2>1, <2>3, Zenon
  <2>5. /\ IsRecord(cur', {"json", "sdk", "msg", "proxy"})
        /\ cur'.sdk = cur.sdk /\ cur'.msg = cur.sdk /\ cur'.proxy = cur.sdk
    BY <2>2, <2>4, Zenon DEF IsRecord
  <2> QED BY <2>1, <2>2, <2>5, Zenon DEF IInv
<1>3. CASE AgentCreatesGroup
  <2> DEFINE c   == AgentAssignFromPb(cur.msg)
             urn == GetMultipointGroupURN(c)
  <2>1. /\ step = "register" /\ urn \notin DOMAIN groups
        /\ groups' = [u \in DOMAIN groups \union {urn} |-> IF u = urn THEN c ELSE groups[u]]
        /\ Joined(urn) /\ step' = "idle" /\ bridge' = bridge
    BY <1>3, Zenon DEF AgentCreatesGroup, Idle
  <2>2. SdkConfig(cur.sdk) /\ c = AgentConfig(cur.sdk)
    BY <2>1, AgentSame DEF IInv
  <2> HIDE DEF c, urn
  <2>3. /\ DOMAIN groups' = DOMAIN groups \union {urn} /\ groups'[urn] = c
        /\ \A u \in DOMAIN groups : groups'[u] = groups[u]
    BY <2>1, Zenon
  <2>4. \A u \in DOMAIN groups' :
          SdkConfig(AgentAssignToPb(groups'[u])) /\ IsRecord(groups'[u], AgentFields)
    BY <2>2, <2>3, AgentConfigSound, Zenon DEF IInv
  <2>5. \A m \in members' :
          /\ SdkConfig(m.sdk) /\ m.established /\ m.urn \in DOMAIN groups'
          /\ CheckPayloadCompatibility(groups'[m.urn], AgentConfig(m.sdk))
    <3>1. TAKE m \in members'
    <3>2. CASE m \in members
      BY <2>3, <3>2, Zenon DEF IInv
    <3>3. CASE m.sdk = cur.sdk /\ m.urn = urn /\ m.established
      BY <2>2, <2>3, <3>3, CompatibleWithItself, Zenon
    <3> QED BY <2>1, <3>2, <3>3, JoinedStep, Zenon
  <2>6. bridge' # None =>
          bridge'.urn \in DOMAIN groups' /\ bridge'.cfg = AgentAssignToPb(groups'[bridge'.urn])
    BY <2>1, <2>3, Zenon DEF IInv
  <2>7. step' \notin {"create", "register"} /\ step' # "register"
    BY <2>1
  <2> QED BY <2>4, <2>5, <2>6, <2>7, Zenon DEF IInv
<1>4. CASE AgentLinksConnection
  <2> DEFINE c   == AgentAssignFromPb(cur.msg)
             urn == GetMultipointGroupURN(c)
  <2>1. /\ step = "register" /\ urn \in DOMAIN groups
        /\ CheckPayloadCompatibility(groups[urn], c)
        /\ Joined(urn) /\ step' = "idle" /\ UNCHANGED <<groups, bridge>>
    BY <1>4, Zenon DEF AgentLinksConnection, Idle
  <2>2. SdkConfig(cur.sdk) /\ c = AgentConfig(cur.sdk)
    BY <2>1, AgentSame DEF IInv
  <2> HIDE DEF c, urn
  <2>3. \A m \in members' :
          /\ SdkConfig(m.sdk) /\ m.established /\ m.urn \in DOMAIN groups
          /\ CheckPayloadCompatibility(groups[m.urn], AgentConfig(m.sdk))
    <3>1. TAKE m \in members'
    <3>2. CASE m \in members
      BY <3>2, Zenon DEF IInv
    <3>3. CASE m.sdk = cur.sdk /\ m.urn = urn /\ m.established
      BY <2>1, <2>2, <3>3, Zenon
    <3> QED BY <2>1, <3>2, <3>3, JoinedStep, Zenon
  <2>4. step' \notin {"create", "register"} /\ step' # "register"
    BY <2>1
  <2> QED BY <2>1, <2>3, <2>4, Zenon DEF IInv
<1>5. CASE AgentRefuses
  <2>1. step' = "idle" /\ UNCHANGED <<members, groups, bridge>>
    BY <1>5, Zenon DEF AgentRefuses, Idle
  <2>2. step' \notin {"create", "register"} /\ step' # "register"
    BY <2>1
  <2> QED BY <2>1, <2>2, Zenon DEF IInv
<1>6. ASSUME NEW type \in {"st2110", "rdma"}, NEW kind \in Kinds, CreateBridge(type, kind)
      PROVE  IInv'
  <2>1. PICK urn \in DOMAIN groups :
          LET cfg == AssignFromPb(AgentAssignToPb(groups[urn]))
          IN /\ bridge' = [urn |-> urn, type |-> type, kind |-> kind, cfg |-> cfg,
                           session |-> Configured(type, kind, cfg)]
             /\ UNCHANGED <<step, cur, members, groups>>
    BY <1>6, Zenon DEF CreateBridge
  <2>2. AssignFromPb(AgentAssignToPb(groups[urn])) = AgentAssignToPb(groups[urn])
    BY ProxySame, Zenon DEF IInv
  <2>3. bridge'.urn = urn /\ bridge'.cfg = AgentAssignToPb(groups[urn])
    BY <2>1, <2>2, Zenon
  <2> QED BY <2>1, <2>3, Zenon DEF IInv
<1>7. CASE UNCHANGED vars
  BY <1>7, Zenon DEF IInv, vars
<1> QED BY <1>1, <1>2, <1>3, <1>4, <1>5, <1>6, <1>7, Zenon DEF Next

LEMMA Invariance == Spec => []IInv
<1>1. Init => IInv
  <2> SUFFICES ASSUME Init PROVE IInv
    OBVIOUS
  <2>1. step = "idle" /\ members = {} /\ groups = <<>> /\ bridge = None
    BY DEF Init
  <2>2. DOMAIN groups = {}
    BY <2>1
  <2>3. step \notin {"create", "register"} /\ step # "register"
    BY <2>1
  <2> QED BY <2>1, <2>2, <2>3, Zenon DEF IInv
<1> QED BY <1>1, Inductive, PTL DEF Spec

-----------------------------------------------------------------------------
(* The properties                                                          *)

\* The buffer of every registered connection has room for its payload and its
\* metadata, its parts lie one after the other and aligned, and the proxy
\* computes its size as the SDK does (configure_buf_partitions(),
\* total_size(), establish()).
THEOREM LayoutSoundHolds == Spec => []LayoutSound
<1>1. IInv => LayoutSound
  <2> SUFFICES ASSUME IInv, NEW m \in members
               PROVE  /\ PartsSound(m.sdk.parts, m.sdk.calculated, m.sdk.maxMetadata)
                      /\ m.established
    BY Zenon DEF LayoutSound, PartsSound
  <2>1. SdkConfig(m.sdk) /\ m.established
    BY Zenon DEF IInv
  <2>2. /\ m.sdk.maxMetadata \in Nat /\ m.sdk.calculated \in Nat
        /\ m.sdk.calculated + m.sdk.maxMetadata + 40 <= UInt32
        /\ m.sdk.parts = BufPartitions(m.sdk.calculated, m.sdk.maxMetadata)
    BY <2>1, Zenon DEF SdkConfig
  <2> QED BY <2>1, <2>2, LayoutOfConfig, Zenon
<1> QED BY <1>1, Invariance, PTL

\* What the agent's comparison establishes: two configurations that pass it
\* have the same connection and the same payload, field for field.
LEMMA CompatibleMeansSame ==
    ASSUME NEW s, NEW c, CheckPayloadCompatibility(s, c),
           ConnSound(s.conn), ConnSound(c.conn), PayloadSound(s.payload), PayloadSound(c.payload)
    PROVE  /\ s.conn = c.conn /\ s.payload = c.payload
           /\ s.options = c.options /\ s.calculated = c.calculated
<1>1. s.conn = c.conn
  <2>1. /\ s.conn.type = c.conn.type
        /\ s.conn.type = "group" => s.conn.urn = c.conn.urn
        /\ s.conn.type = "st2110" =>
             /\ s.conn.ip = c.conn.ip /\ s.conn.port = c.conn.port
             /\ s.conn.transport = c.conn.transport /\ s.conn.pt = c.conn.pt
    BY Zenon DEF CheckPayloadCompatibility
  <2> SUFFICES ASSUME NEW a, NEW b, ConnSound(a), ConnSound(b), a.type = b.type,
                      a.type = "group" => a.urn = b.urn,
                      a.type = "st2110" => /\ a.ip = b.ip /\ a.port = b.port
                                           /\ a.transport = b.transport /\ a.pt = b.pt
               PROVE  a = b
    BY <2>1, Zenon
  <2>2. CASE a.type = "group"
    <3>1. IsRecord(a, GroupFields) /\ IsRecord(b, GroupFields)
      BY <2>2 DEF ConnSound
    <3>2. \A f \in GroupFields : a[f] = b[f]
      BY <2>2, Zenon DEF GroupFields
    <3> QED BY <3>1, <3>2, Zenon DEF IsRecord
  <2>3. CASE a.type = "st2110"
    <3>1. IsRecord(a, St2110Fields) /\ IsRecord(b, St2110Fields)
      BY <2>3 DEF ConnSound
    <3>2. \A f \in St2110Fields : a[f] = b[f]
      BY <2>3, Zenon DEF St2110Fields
    <3> QED BY <3>1, <3>2, Zenon DEF IsRecord
  <2>4. CASE a.type = "rdma"
    <3>1. IsRecord(a, {"type"}) /\ IsRecord(b, {"type"})
      BY <2>4 DEF ConnSound
    <3>2. \A f \in {"type"} : a[f] = b[f]
      BY <2>4, Zenon
    <3> QED BY <3>1, <3>2, Zenon DEF IsRecord
  <2> QED BY <2>2, <2>3, <2>4, Zenon DEF ConnSound
<1>2. s.payload = c.payload
  <2>1. /\ s.payload.type = c.payload.type
        /\ s.payload.type = "video" => /\ s.payload.width = c.payload.width
                                       /\ s.payload.height = c.payload.height
                                       /\ s.payload.pixfmt = c.payload.pixfmt
        /\ s.payload.type = "audio" => /\ s.payload.channels = c.payload.channels
                                       /\ s.payload.rate = c.payload.rate
                                       /\ s.payload.format = c.payload.format
                                       /\ s.payload.ptime = c.payload.ptime
    BY Zenon DEF CheckPayloadCompatibility
  <2> SUFFICES ASSUME NEW a, NEW b, PayloadSound(a), PayloadSound(b), a.type = b.type,
                      a.type = "video" => /\ a.width = b.width /\ a.height = b.height
                                          /\ a.pixfmt = b.pixfmt,
                      a.type = "audio" => /\ a.channels = b.channels /\ a.rate = b.rate
                                          /\ a.format = b.format /\ a.ptime = b.ptime
               PROVE  a = b
    BY <2>1, Zenon
  <2>2. CASE a.type = "video"
    <3>1. IsRecord(a, VideoFields) /\ IsRecord(b, VideoFields)
      BY <2>2 DEF PayloadSound
    <3>2. \A f \in VideoFields : a[f] = b[f]
      BY <2>2, Zenon DEF VideoFields
    <3> QED BY <3>1, <3>2, Zenon DEF IsRecord
  <2>3. CASE a.type = "audio"
    <3>1. IsRecord(a, AudioFields) /\ IsRecord(b, AudioFields)
      BY <2>3 DEF PayloadSound
    <3>2. \A f \in AudioFields : a[f] = b[f]
      BY <2>3, Zenon DEF AudioFields
    <3> QED BY <3>1, <3>2, Zenon DEF IsRecord
  <2>4. CASE a.type = "blob"
    <3>1. IsRecord(a, {"type"}) /\ IsRecord(b, {"type"})
      BY <2>4 DEF PayloadSound
    <3>2. \A f \in {"type"} : a[f] = b[f]
      BY <2>4, Zenon
    <3> QED BY <3>1, <3>2, Zenon DEF IsRecord
  <2> QED BY <2>2, <2>3, <2>4, Zenon DEF PayloadSound
<1>3. s.options = c.options /\ s.calculated = c.calculated
  BY Zenon DEF CheckPayloadCompatibility
<1> QED BY <1>1, <1>2, <1>3, Zenon

\* The configuration of a bridge agrees with that of every connection of its
\* group, after five conversions and whichever connection founded the group
\* (CreateConnectionJson(), assign_from_pb(), assign_to_pb(), AssignFromPb(),
\* AssignToPb(), CheckPayloadCompatibility()).
THEOREM BridgeSpeaksForMembersHolds == Spec => []BridgeSpeaksForMembers
<1>1. IInv => BridgeSpeaksForMembers
  <2> SUFFICES ASSUME IInv, bridge # None, NEW m \in members, m.urn = bridge.urn
               PROVE  /\ bridge.cfg.payload = m.sdk.payload
                      /\ bridge.cfg.conn = m.sdk.conn
                      /\ bridge.cfg.options = m.sdk.options
                      /\ bridge.cfg.calculated = m.sdk.calculated
                      /\ bridge.cfg.parts.sysdata = m.sdk.parts.sysdata
                      /\ bridge.cfg.parts.payload = m.sdk.parts.payload
    BY Zenon DEF BridgeSpeaksForMembers
  <2> DEFINE g   == groups[bridge.urn]
             c   == AgentConfig(m.sdk)
             cfg == bridge.cfg
  <2>1. /\ cfg = AgentAssignToPb(g) /\ SdkConfig(cfg) /\ IsRecord(g, AgentFields)
        /\ SdkConfig(m.sdk) /\ CheckPayloadCompatibility(g, c)
    BY Zenon DEF IInv
  <2> HIDE DEF g, cfg
  <2>2. \A f \in AgentFields : cfg[f] = g[f]
    <3>1. DOMAIN g = AgentFields
      BY <2>1, Zenon DEF IsRecord
    <3>2. "kind" \notin AgentFields
      BY DEF AgentFields
    <3> QED BY <2>1, <3>1, <3>2 DEF AgentAssignToPb
  <2>3. /\ cfg.conn = g.conn /\ cfg.payload = g.payload /\ cfg.options = g.options
        /\ cfg.calculated = g.calculated
    BY <2>2 DEF AgentFields
  <2>4. \A f \in AgentFields : c[f] = m.sdk[f]
    BY Zenon DEF AgentConfig
  <2> HIDE DEF c
  <2>5. /\ c.conn = m.sdk.conn /\ c.payload = m.sdk.payload /\ c.options = m.sdk.options
        /\ c.calculated = m.sdk.calculated
    BY <2>4 DEF AgentFields
  <2>6. /\ ConnSound(g.conn) /\ PayloadSound(g.payload)
        /\ ConnSound(c.conn) /\ PayloadSound(c.payload)
    BY <2>1, <2>3, <2>5, Zenon DEF SdkConfig
  <2>7. /\ cfg.conn = m.sdk.conn /\ cfg.payload = m.sdk.payload
        /\ cfg.options = m.sdk.options /\ cfg.calculated = m.sdk.calculated
    BY <2>1, <2>3, <2>5, <2>6, CompatibleMeansSame, Zenon
  <2>8. /\ cfg.parts = BufPartitions(cfg.calculated, cfg.maxMetadata)
        /\ m.sdk.parts = BufPartitions(m.sdk.calculated, m.sdk.maxMetadata)
    BY <2>1, Zenon DEF SdkConfig
  <2>9. \A size, k1, k2 :
          /\ BufPartitions(size, k1).sysdata = BufPartitions(size, k2).sysdata
          /\ BufPartitions(size, k1).payload = BufPartitions(size, k2).payload
    BY Zenon DEF BufPartitions
  <2>10. /\ cfg.parts.sysdata = m.sdk.parts.sysdata
         /\ cfg.parts.payload = m.sdk.parts.payload
    <3>1. cfg.parts = BufPartitions(m.sdk.calculated, cfg.maxMetadata)
      BY <2>7, <2>8, Zenon
    <3> QED BY <2>8, <2>9, <3>1
  <2> QED BY <2>7, <2>10, Zenon DEF cfg
<1> QED BY <1>1, Invariance, PTL

====
