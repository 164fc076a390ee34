----------------------------- MODULE ConfigFile -----------------------------
(***************************************************************************)
(* Configuration files: what the import makes of one (withLocalSocks, once *)
(* in ConfigStore.java and once in config-adapter), and what wireproxy     *)
(* reads in one (config.go).                                               *)
(*                                                                         *)
(* A file is a sequence of lines, and the value of a key the sequence of   *)
(* its parts between commas.  Of an address with a port the port is kept.  *)
(* A header with a comment behind it is "annotated": the two readers of a  *)
(* file differ on it.                                                      *)
(***************************************************************************)
EXTENDS Integers, SequencesExt

CONSTANTS
    PortNumbers,     \* the texts of port numbers
    LocalPort,       \* 1080
    ServicePort,     \* the number of the port that has a name
    KeyTexts,        \* the texts that are keys
    Blocks,        \* blocks of addresses
    Addresses,
    Endpoints,       \* of peers, by number
    NamedEndpoints   \* of peers, by name

TooLarge == "65536"          \* a number, and no port
Service == "http"            \* the name of a port
Unset == "$UNSET"            \* a reference to an environment variable that is not set
Several == "a,b"             \* parts with a comma between them, where one is expected
ZeroKey == "0"
Everything == <<"0.0.0.0/0", "::/0">>     \* all addresses of either family
AllBlocks == Blocks \cup {"0.0.0.0/0", "::/0"}

ASSUME ConfigFileAssumption ==
    /\ {"0", LocalPort, ServicePort} \subseteq PortNumbers
    /\ PortNumbers \cap {TooLarge, Service, Unset, Several, ""} = {}
    /\ KeyTexts \cap {ZeroKey, Unset, Several, ""} = {}
    /\ (Endpoints \cup NamedEndpoints) \cap {Unset, Several, ""} = {}
    /\ "" \notin Blocks
    /\ Endpoints \cap NamedEndpoints = {}

IsFile(lines) ==
    lines \in Seq([type : {"section", "annotated", "key", "blank", "junk"},
                   name : STRING, value : Seq(STRING)])

Line(type, name, value) == [type |-> type, name |-> name, value |-> value]
Header(name) == Line("section", name, <<>>)
Blank == Line("blank", "", <<>>)

(* The n-th place of a set, all in order, and what a sequence has there. *)
Nth(places, n) == CHOOSE i \in places : Cardinality({j \in places : j <= i}) = n
InOrder(places) == [n \in 1..Cardinality(places) |-> Nth(places, n)]
At(s, places) == [n \in 1..Cardinality(places) |-> s[Nth(places, n)]]

IsHeading(line) == line.type \in {"section", "annotated"}
Headings(lines) == {h \in DOMAIN lines : IsHeading(lines[h])}

---------------------------------------------------------------------------
(* The import. *)

(* A bug: skipping ends only where a section of another name has been seen *)
(* before.                                                                 *)
NotInAnySocksSection(lines, i) ==
    ~\E j \in 1..i : lines[j].type = "section" /\ lines[j].name = "Socks5"

(* What follows a line "[Socks5]" is left out, to the next line that is a  *)
(* header and nothing else.                                                *)
NotInSocksSection(lines, i) ==
    LET headers == {j \in 1..i : lines[j].type = "section"}
    IN  headers # {} => lines[Max(headers)].name # "Socks5"

LocalSection == <<Blank, Header("Socks5"), Line("key", "BindAddress", <<LocalPort>>)>>

WithLocalSocks(lines) ==
    At(lines, {i \in DOMAIN lines : NotInSocksSection(lines, i)}) \o LocalSection

---------------------------------------------------------------------------
(* The ini library.  A section is named by the place of its header, the keys *)
(* before the first header belong to 0.                                    *)

Loadable(lines) == \A i \in DOMAIN lines : lines[i].type # "junk"

SectionsByName(lines, name) == {h \in Headings(lines) : lines[h].name = name}

KeyLines(lines, h, key) ==
    {i \in (h + 1)..Len(lines) :
        /\ lines[i].type = "key" /\ lines[i].name = key
        /\ \A j \in (h + 1)..i : ~IsHeading(lines[j])}

(* Of a key that is repeated the first line counts (AllowShadows). *)
Value(lines, h, key) ==
    LET Found == KeyLines(lines, h, key)
    IN  IF Found = {} THEN <<>> ELSE lines[Min(Found)].value

---------------------------------------------------------------------------
(* Reading values. *)

(* parseString: a key that is missing reads as an empty text. *)
Expands(value) == value # <<>> => value[1] # Unset
Text(value) ==
    CASE value = <<>> -> ""
      [] Len(value) = 1 -> value[1]
      [] OTHER -> Several

(* GetKey and Int: nothing, or a number. *)
IsNumber(value) == value # <<>> => Text(value) \in PortNumbers \cup {TooLarge}

Parts(value) == At(value, {i \in DOMAIN value : value[i] # ""})

(* parseNetIP, parseCIDRNetIP and parseAllowedIPs, of what is in S. *)
AllIn(value, S) == Expands(value) /\ \A i \in DOMAIN value : value[i] \in S \cup {""}

(* ResolveTCPAddr, ResolveUDPAddr and Listen: no address is any port. *)
IsAddress(text) == text \in PortNumbers \cup {Service, ""}
PortOf(text) == CASE text = Service -> ServicePort
                  [] text = "" -> "0"
                  [] OTHER -> text

(* A bug: any text will do. *)
AnyText(text) == TRUE

(* encodeBase64ToHex *)
IsKey(text) == text \in KeyTexts

InterfaceReadable(lines) ==
    \E h \in SectionsByName(lines, "Interface") :
        LET V(key) == Value(lines, h, key)
        IN  /\ SectionsByName(lines, "Interface") = {h}
            /\ IsKey(Text(V("PrivateKey")))
            /\ \A key \in {"Address", "DNS", "CheckAlive"} : AllIn(V(key), Addresses)
            /\ \A key \in {"MTU", "ListenPort", "CheckAliveInterval"} : IsNumber(V(key))
            /\ V("CheckAliveInterval") # <<>> => Parts(V("CheckAlive")) # <<>>

---------------------------------------------------------------------------
(* Peers.  PreSharedKey and Endpoint are read without looking at the       *)
(* environment.                                                            *)

PeerReadable(lines, h) ==
    LET V(key) == Value(lines, h, key)
    IN  /\ IsKey(Text(V("PublicKey")))
        /\ V("PreSharedKey") # <<>> => IsKey(Text(V("PreSharedKey")))
        /\ V("Endpoint") # <<>> => Text(V("Endpoint")) \in Endpoints \cup NamedEndpoints
        /\ IsNumber(V("PersistentKeepalive"))
        /\ AllIn(V("AllowedIPs"), AllBlocks)

PeerOf(lines, h) ==
    LET V(key) == Value(lines, h, key)
    IN  [publicKey    |-> Text(V("PublicKey")),
         presharedKey |-> IF V("PreSharedKey") = <<>> THEN ZeroKey ELSE Text(V("PreSharedKey")),
         endpoint     |-> V("Endpoint"),
         keepAlive    |-> IF V("PersistentKeepalive") = <<>>
                          THEN "0" ELSE Text(V("PersistentKeepalive")),
         allowedIPs   |-> Parts(V("AllowedIPs"))]

(* A bug: one variable for all endpoints, so that each peer points to the last. *)
PeersSharingEndpoint(lines) ==
    LET sections == InOrder(SectionsByName(lines, "Peer"))
        last == PeerOf(lines, sections[Len(sections)]).endpoint
    IN  [n \in DOMAIN sections |->
            [PeerOf(lines, sections[n]) EXCEPT !.endpoint = IF @ = <<>> THEN @ ELSE last]]

PeersOf(lines) ==
    LET sections == InOrder(SectionsByName(lines, "Peer"))
    IN  [n \in DOMAIN sections |-> PeerOf(lines, sections[n])]

PeersReadable(lines) ==
    /\ SectionsByName(lines, "Peer") # {}
    /\ \A h \in SectionsByName(lines, "Peer") : PeerReadable(lines, h)

(* resolveIPPAndPort asks the network for these. *)
NeedsNames(peers) == \E n \in DOMAIN peers : Text(peers[n].endpoint) \in NamedEndpoints

(* A peer without blocks claims every address. *)
ClaimsOf(peer) == IF peer.allowedIPs = <<>> THEN Everything ELSE peer.allowedIPs

(* A peer's lines in the request to the device. *)
PeerRequest(peer) ==
    <<<<"public_key", peer.publicKey>>,
      <<"persistent_keepalive_interval", peer.keepAlive>>,
      <<"preshared_key", peer.presharedKey>>>>
        \o [n \in DOMAIN peer.endpoint |-> <<"endpoint", peer.endpoint[n]>>]
        \o [n \in DOMAIN ClaimsOf(peer) |-> <<"allowed_ip", ClaimsOf(peer)[n]>>]

PeersRequest(peers) == FlattenSeq([n \in DOMAIN peers |-> PeerRequest(peers[n])])

(* The device: a public key selects the peer that the lines after it are    *)
(* about, and an address block belongs to the last peer it was given to.   *)
Updated(f, x, value) == [y \in DOMAIN f \cup {x} |-> IF y = x THEN value ELSE f[y]]

Handle(device, line) ==
    CASE line[1] = "public_key" -> [device EXCEPT !.selected = line[2]]
      [] line[1] = "allowed_ip" ->
            [device EXCEPT !.owner = Updated(@, line[2], device.selected)]
      [] OTHER ->
            [device EXCEPT !.settings = Updated(@, <<device.selected, line[1]>>, line[2])]

EmptyDevice == [selected |-> "", owner |-> <<>>, settings |-> <<>>]

Configured(lines) == FoldLeft(Handle, EmptyDevice, lines)

---------------------------------------------------------------------------
(* Routines. *)

RoutineKinds == {"TCPClientTunnel", "STDIOTunnel", "TCPServerTunnel", "Socks5", "http",
                 "UDPProxyTunnel"}

RoutinesAt(lines) == {h \in Headings(lines) : lines[h].name \in RoutineKinds}

RoutineReadable(lines, h) ==
    LET V(key) == Value(lines, h, key)
        kind == lines[h].name
    IN  /\ kind \notin {"STDIOTunnel", "TCPServerTunnel"} => Expands(V("BindAddress"))
        /\ kind = "TCPClientTunnel" => IsAddress(Text(V("BindAddress")))
        /\ kind = "TCPServerTunnel" => Text(V("ListenPort")) \in PortNumbers
        /\ kind \notin {"Socks5", "http"} => Expands(V("Target"))
        /\ kind = "UDPProxyTunnel" => IsNumber(V("InactivityTimeout"))

(* A Username that cannot be expanded reads as none. *)
RoutineOf(lines, h) ==
    LET V(key) == Value(lines, h, key)
    IN  [kind     |-> lines[h].name,
         bind     |-> Text(V(IF lines[h].name = "TCPServerTunnel" THEN "ListenPort"
                                                                  ELSE "BindAddress")),
         target   |-> Text(V("Target")),
         username |-> IF Expands(V("Username")) THEN Text(V("Username")) ELSE ""]

(* What a file asks for besides local SOCKS5 proxies, in its order. *)
OtherRoutines(lines) ==
    LET sections == InOrder({h \in RoutinesAt(lines) : lines[h].name # "Socks5"})
    IN  [n \in DOMAIN sections |-> RoutineOf(lines, sections[n])]

=============================================================================
