---- MODULE MCConnConfig ----
(***************************************************************************)
(* ConnConfig for TLC.  The configurations are built from four plain ones, *)
(* each with variations of one or two fields: every transport with every   *)
(* pixel format and every rate with every packet time, frames whose pixels *)
(* divide by 2, 3, both or neither, frames of equal size and other shape,  *)
(* numbers at the edge of their width, and every kind of refused text.     *)
(***************************************************************************)
EXTENDS ConnConfig

Plain == [conn |-> {"multipointGroup"}, urn |-> <<"a", 5000>>, ip |-> "a", port |-> 5000,
          transport |-> "st2110-20", pt |-> 112, provider |-> "tcp", endpoints |-> 1,
          payload |-> {"video"}, width |-> 6, height |-> 4, pixfmt |-> "yuv422p10le",
          channels |-> 2, format |-> "pcm_s24be", rate |-> 48000, ptime |-> "1ms",
          maxPayload |-> 0, maxMetadata |-> 0, capacity |-> 16]

St2110 == [Plain EXCEPT !.conn = {"st2110"}]
Audio  == [St2110 EXCEPT !.payload = {"audio"}, !.transport = "st2110-30"]
Blob   == [Plain EXCEPT !.payload = {"blob"}, !.maxPayload = 20]

Frames == {<<6, 4>>, <<4, 6>>, <<5, 4>>, <<3, 3>>}

Videos ==
    {[b EXCEPT !.pixfmt = f, !.width = s[1], !.height = s[2]] :
        b \in {Plain, St2110},
        f \in {"yuv422p10le", "v210", "yuv422p10rfc4175", "rgb"}, s \in Frames}
    \union {[St2110 EXCEPT !.transport = t, !.pixfmt = f] :
        t \in {"st2110-22", "st2110-30", "st2110-40"},
        f \in {"yuv422p10le", "v210", "yuv422p10rfc4175"}}

Audios ==
    {[Audio EXCEPT !.rate = r, !.ptime = t] :
        r \in {48000, 96000, 44100, 8000},
        t \in {MeshPacketTimes[i] : i \in DOMAIN MeshPacketTimes} \union {"2ms"}}
    \union {[Audio EXCEPT !.format = f, !.channels = n] :
        f \in {"pcm_s8", "pcm_s16be", "pcm_s24be"}, n \in {1, 2}}
    \union {[Audio EXCEPT !.transport = "st2110-20"]}

Others ==
    {[b EXCEPT !.maxMetadata = n] : b \in {Plain, St2110, Audio, Blob}, n \in {8, 9}}
    \union {[Blob EXCEPT !.maxPayload = n] : n \in {0, 20, 24}}
    \union {[Blob EXCEPT !.payload = p] : p \in {{"missing"}, {}, {"blob", "video"}}}
    \union {[St2110 EXCEPT !.payload = {"blob"}, !.maxPayload = 20]}
    \union {[Plain EXCEPT !.conn = c] : c \in {{}, {"rdma"}, {"st2110", "rdma"}}}
    \union {[Plain EXCEPT !.endpoints = n] : n \in {0, 8, 9}}
    \union {[Plain EXCEPT !.provider = p] : p \in {"verbs", "udp"}}
    \union {[St2110 EXCEPT !.port = n] : n \in {0, 5001, 65535, 65536}}
    \union {[St2110 EXCEPT !.pt = n] : n \in {96, 255, 256}}
    \union {[Plain EXCEPT !.urn = <<"b", 0>>]}
    \union {[Plain EXCEPT !.capacity = n] : n \in {1, 65536}}

MCJsons == Videos \union Audios \union Others

====
