------------------------------ MODULE MCStartup ------------------------------
(***************************************************************************)
(* The inputs TLC starts wireproxy with.  The parts of a file are read     *)
(* independently, so that one of them varies at a time: the parameters of  *)
(* AmneziaWG, the other keys of the interface, the peers, a routine, a set  *)
(* of routines; and for the import the order of the sections.              *)
(***************************************************************************)
EXTENDS Startup, MCAwgConfig

MCPortNumbers == {"0", "80", "1080", "8080", "9090"}
MCBlocks == {"a", "b"}
MCAddresses == {"10.0.0.2"}

(* A key with one value, or with none: then there is no such line. *)
None == "no line"
K(key, value) == IF value = None THEN <<>> ELSE <<Line("key", key, <<value>>)>>

Interface == <<Header("Interface")>> \o K("PrivateKey", "k1")
Peer(key, rest) == <<Header("Peer")>> \o K("PublicKey", key) \o rest
OnePeer == Peer("k2", K("Endpoint", "e1"))
Routine(kind, bind, target) ==
    <<Header(kind)>>
        \o K(IF kind = "TCPServerTunnel" THEN "ListenPort" ELSE "BindAddress",
             IF kind = "STDIOTunnel" THEN None ELSE bind)
        \o K("Target", IF kind \in {"Socks5", "http"} THEN None ELSE target)
Socks == Routine("Socks5", "1080", None)

NoASec == [k \in Keys |-> Absent]

Input(lines, wg, asec, import, mode, platform, info, taken) ==
    [lines |-> lines, wgFile |-> wg, section |-> asec, import |-> import, mode |-> mode,
     platform |-> platform, info |-> info, taken |-> taken]

OnAndroid(lines) == Input(lines, <<>>, NoASec, FALSE, "run", "android", "", {})

ASecInputs ==
    {[OnAndroid(Interface \o OnePeer \o Socks) EXCEPT !.section = s] : s \in MCSections}

Texts == {"8080", "65536", "http", "$UNSET", "", "word", None}

(* The application refuses or accepts each of these before it runs them. *)
InterfaceInputs ==
    {[OnAndroid(lines \o OnePeer) EXCEPT !.import = TRUE] : lines \in
        {Interface \o K(key, value) : key \in {"MTU", "ListenPort", "CheckAliveInterval",
                                              "Address", "DNS", "CheckAlive"},
                                     value \in Texts \cup MCAddresses}
        \cup {<<Header("Interface")>> \o K("PrivateKey", value) : value \in Texts}
        \cup {Interface \o K("CheckAlive", alive) \o K("CheckAliveInterval", "80") :
                 alive \in {"", "10.0.0.2"}}
        \cup {<<>>, Interface \o Interface, Interface \o K("PrivateKey", "word")}}

Claimed == {<<>>} \cup {<<Line("key", "AllowedIPs", parts)>> :
                           parts \in {<<"">>, <<"a">>, <<"b">>, <<"a", "b">>,
                                     <<"0.0.0.0/0">>}}
Secrets == {K("PreSharedKey", None), K("PreSharedKey", "k3")}

PeerSections(keys, endpoints) ==
    {Peer(key, secret \o K("Endpoint", endpoint) \o claimed) :
        key \in keys, secret \in Secrets, endpoint \in endpoints, claimed \in Claimed}

OddPeers ==
    {Peer("word", <<>>), Peer("k2", K("PreSharedKey", "word")),
     Peer("k2", K("Endpoint", "word")), Peer("k2", K("AllowedIPs", "word")),
     Peer("k2", <<Line("key", "Endpoint", <<"e1", "e2">>)>>),
     Peer("k2", <<Line("key", "PreSharedKey", <<"k3", "k3">>)>>),
     Peer("k2", K("PersistentKeepalive", "word")),
     Peer("k2", K("AllowedIPs", "a") \o K("AllowedIPs", "b"))}

PeerInputs ==
    {OnAndroid(Interface \o Socks)} \cup
    {OnAndroid(Interface \o p \o q \o Socks) :
        p \in PeerSections({"k2"}, {"e1", "n1"}) \cup OddPeers,
        q \in {<<>>} \cup PeerSections({"k2", "k3"}, {"e2", None})}

Places ==
    {[OnAndroid(<<>>) EXCEPT !.platform = platform, !.mode = mode, !.info = info,
                             !.taken = taken] :
        platform \in Platforms, mode \in {"run", "daemon"}, info \in {"", "9090"},
        taken \in {{}, {"8080"}}}

RoutineInputs ==
    {[place EXCEPT !.lines = Interface \o OnePeer \o routine] :
        place \in Places,
        routine \in {Routine(kind, bind, "80") : kind \in RoutineKinds,
                                                bind \in Texts \cup {"0", "9090"}}
                    \cup {Routine(kind, "1080", target) :
                             kind \in RoutineKinds \ {"Socks5", "http"}, target \in Texts}
                    \cup {Routine("UDPProxyTunnel", "1080", "80")
                             \o K("InactivityTimeout", "word")}}
        \cup {[place EXCEPT !.lines = Interface \o OnePeer \o Socks, !.info = info] :
                 place \in Places, info \in Texts \ {None}}

(* Every set of kinds on ports of their own, or two of a kind. *)
PortFor == [TCPClientTunnel |-> "80", STDIOTunnel |-> "80", TCPServerTunnel |-> "80",
            Socks5 |-> "1080", http |-> "8080", UDPProxyTunnel |-> "80"]
PartOf(kinds, kind) ==
    IF kind \in kinds THEN Routine(kind, PortFor[kind], "9090") ELSE <<>>
SetInputs ==
    {[place EXCEPT !.lines = Interface \o OnePeer \o routines_] :
        place \in {place \in Places : place.taken = {}},
        routines_ \in {PartOf(kinds, "TCPClientTunnel") \o PartOf(kinds, "STDIOTunnel")
                         \o PartOf(kinds, "TCPServerTunnel") \o PartOf(kinds, "Socks5")
                         \o PartOf(kinds, "http") \o PartOf(kinds, "UDPProxyTunnel") :
                            kinds \in SUBSET RoutineKinds}
                      \cup {Routine(kind, "1080", "80") \o Routine(kind, port, "80") :
                               kind \in RoutineKinds, port \in {"1080", "8080"}}}

(* Files to import: an interface and a peer, in any order with up to two    *)
(* more sections, or with an http proxy and two SOCKS5 proxies.             *)
Proxies ==
    {Routine("Socks5", "8080", None) \o K("Username", "word"),
     Routine("Socks5", "1080", None),
     Routine("http", "8080", None) \o <<Blank>>}
MoreSections ==
    Proxies \cup
    {Peer("k3", K("Endpoint", "e2") \o K("AllowedIPs", "a")),
     <<Line("annotated", "Socks5", <<>>)>> \o K("BindAddress", "1080"),
     <<Line("annotated", "Peer", <<>>)>> \o K("PublicKey", "k3"),
     <<Line("junk", "", <<>>)>>}

Orders(S) == {p \in [1..Cardinality(S) -> S] : \A m, n \in DOMAIN p : m # n => p[m] # p[n]}

Joined(p) == [n \in 1..5 |-> IF n \in DOMAIN p THEN p[n] ELSE <<>>]

ImportedFiles ==
    {LET q == Joined(p) IN q[1] \o q[2] \o q[3] \o q[4] \o q[5] :
        p \in UNION {Orders(more \cup {Interface, OnePeer}) :
                        more \in {Proxies} \cup {more \in SUBSET MoreSections :
                                                   Cardinality(more) <= 2}}}

WGFiles == {<<>>, Interface \o OnePeer, Interface, <<Line("junk", "", <<>>)>>}

ImportInputs ==
    {[OnAndroid(lines) EXCEPT !.import = TRUE] : lines \in ImportedFiles}
        \cup {[OnAndroid(K("WGConfig", "path") \o lines) EXCEPT !.import = import,
                                                             !.wgFile = other] :
                 lines \in {Socks, Interface \o OnePeer, Routine("http", "8080", None)},
                 import \in BOOLEAN, other \in WGFiles}
        \cup {[OnAndroid(Interface \o OnePeer) EXCEPT !.import = import, !.mode = "test"] :
                 import \in BOOLEAN}

MCInputs ==
    ASecInputs \cup InterfaceInputs \cup PeerInputs \cup RoutineInputs \cup SetInputs
        \cup ImportInputs

=============================================================================
