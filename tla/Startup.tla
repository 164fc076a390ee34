------------------------------ MODULE Startup ------------------------------
(***************************************************************************)
(* From a configuration file to a wireproxy that serves: the import of the *)
(* file (ConfigStore.java, config-adapter), ParseConfig (config.go), main  *)
(* (cmd/wireproxy/main.go) with its sandbox and its background process,    *)
(* the request to the device (wireguard.go), and the routines up to the    *)
(* point where they accept connections (SpawnRoutine).                     *)
(*                                                                         *)
(* The parameters of AmneziaWG that the file holds are those of AwgConfig, *)
(* which this module extends: "section", and the steps that read it.       *)
(***************************************************************************)
EXTENDS AwgConfig, ConfigFile

CONSTANT Inputs        \* what wireproxy may be started with: see IsInput

VARIABLES
    given,             \* the input
    file,              \* the lines wireproxy reads
    wgFile,            \* those it reads the interface and the peers in
    program,           \* "validator" (-n), "wireproxy" or "daemon" (its child)
    stage,             \* how far main has come
    exit,              \* how the process ended, or "none"
    peers, routines,   \* Configuration
    rules,             \* TCP ports the sandbox lets the process bind and connect to
    ipcRequest,        \* the lines about peers the WireGuard device was sent
    serving,           \* routines that accept connections
    cancelled          \* a SIGINT or SIGQUIT came

inputs == <<given, file, wgFile>>      \* these do not change

servingVars == <<ipcRequest, serving, cancelled>>

startupVars == <<vars, inputs, program, stage, exit, peers, routines, rules, servingVars>>

Platforms == {"android", "linux", "oldLinux"}   \* only "linux" has landlock for TCP

IsInput(input) ==
    /\ IsFile(input.lines) /\ IsFile(input.wgFile)
    /\ input.platform \in Platforms
    /\ input.mode \in {"test", "run", "daemon"}
    /\ input.import \in BOOLEAN
    /\ IsSection(input.section)
    /\ input.taken \subseteq PortNumbers        \* TCP ports others listen on
    /\ DOMAIN input = {"lines", "wgFile", "section", "import", "mode", "platform",
                       "info", "taken"}

ASSUME StartupAssumption == \A input \in Inputs : IsInput(input)

AllRules == {"bind", "connect"} \X PortNumbers

(* With a key WGConfig another file has the interface and the peers. *)
DeviceFile(lines) == IF Value(lines, 0, "WGConfig") # <<>> THEN given.wgFile ELSE lines

StartupInit ==
    /\ given \in Inputs
    /\ section = given.section /\ Unread
    /\ file = IF given.import THEN WithLocalSocks(given.lines) ELSE given.lines
    /\ wgFile = DeviceFile(file)
    /\ program = IF given.import \/ given.mode = "test" THEN "validator" ELSE "wireproxy"
    /\ stage = "load" /\ exit = "none"
    /\ peers = <<>> /\ routines = <<>> /\ ipcRequest = <<>>
    /\ rules = AllRules
    /\ serving = {} /\ cancelled = FALSE

Running(s) == stage = s /\ exit = "none"

(* The process goes on to a stage, or ends. *)
GoTo(s) == stage' = s /\ UNCHANGED exit
End(how) == exit' = how /\ UNCHANGED stage
GoToOrEnd(condition, s, how) == IF condition THEN GoTo(s) ELSE End(how)

(* A process starts: on the same file, under the sandbox of its parent. *)
StartProcess(p) ==
    /\ program' = p /\ stage' = "load" /\ UNCHANGED exit
    /\ phase' = "parse" /\ config' = <<>> /\ UNCHANGED <<section, request>>
    /\ peers' = <<>> /\ routines' = <<>>
    /\ UNCHANGED <<inputs, rules, servingVars>>

---------------------------------------------------------------------------
(* ParseConfig. *)

ParseInterface ==
    /\ Running("load")
    /\ IF Loadable(file) /\ Loadable(wgFile) /\ InterfaceReadable(wgFile)
       THEN /\ ParseASecConfig
            /\ GoToOrEnd(phase' # "refused", "asec", "refused")
       ELSE End("refused") /\ UNCHANGED vars
    /\ UNCHANGED <<inputs, program, peers, routines, rules, servingVars>>

ValidateParsedASec ==
    /\ Running("asec")
    /\ ValidateASecConfig
    /\ GoToOrEnd(phase' # "refused", "peers", "refused")
    /\ UNCHANGED <<inputs, program, peers, routines, rules, servingVars>>

ParsePeers ==
    /\ Running("peers")
    /\ \/ /\ PeersReadable(wgFile)
          /\ peers' = PeersOf(wgFile) /\ GoTo("routines")
       \/ /\ PeersReadable(wgFile) => NeedsNames(PeersOf(wgFile))
          /\ End("refused") /\ UNCHANGED peers
    /\ UNCHANGED <<vars, inputs, program, routines, rules, servingVars>>

ParseRoutinesConfig ==
    /\ Running("routines")
    /\ IF \A h \in RoutinesAt(file) : RoutineReadable(file, h)
       THEN routines' = [h \in RoutinesAt(file) |-> RoutineOf(file, h)] /\ GoTo("parsed")
       ELSE End("refused") /\ UNCHANGED routines
    /\ UNCHANGED <<vars, inputs, program, peers, rules, servingVars>>

---------------------------------------------------------------------------
(* main. *)

(* -n ends here.  After an import the file is put in place and started. *)
ConfigTest ==
    /\ Running("parsed") /\ program = "validator"
    /\ \/ /\ given.import /\ given.mode # "test"
          /\ StartProcess("wireproxy")
       \/ /\ ~(given.import /\ given.mode # "test")
          /\ End("ok")
          /\ UNCHANGED <<vars, inputs, program, peers, routines, rules, servingVars>>

(* extractPort knows numbers only, and cuts them to 16 bits. *)
HasNumber(text) == text \in PortNumbers \cup {TooLarge}
ExtractPort(text) == IF text = TooLarge THEN "0" ELSE text

AskedTexts ==
    {routines[r].bind :
        r \in {r \in DOMAIN routines : routines[r].kind \in {"Socks5", "http"}}}
        \cup {routines[r].target :
                 r \in {r \in DOMAIN routines : routines[r].kind = "TCPServerTunnel"}}
        \cup ({given.info} \ {""})

RulesOf(op, kind, key) ==
    {<<op, ExtractPort(routines[r][key])>> :
        r \in {r \in DOMAIN routines : routines[r].kind = kind}}

InfoRule == IF given.info = "" THEN {} ELSE {<<"bind", ExtractPort(given.info)>>}

(* The address a TCPClientTunnel listens on is an address already. *)
ClientRules ==
    {<<"connect", PortOf(routines[r].bind)>> :
        r \in {r \in DOMAIN routines : routines[r].kind = "TCPClientTunnel"}}

(* A bug: the http proxy has no rule. *)
NetworkRulesWithoutHttp ==
    InfoRule \cup RulesOf("connect", "TCPServerTunnel", "target") \cup ClientRules
        \cup RulesOf("bind", "Socks5", "bind")

NetworkRules ==
    InfoRule \cup RulesOf("connect", "TCPServerTunnel", "target") \cup ClientRules
        \cup RulesOf("bind", "Socks5", "bind") \cup RulesOf("bind", "http", "bind")

(* Rules add to the ones the process has: only what both allow is allowed. *)
LockNetwork ==
    /\ Running("parsed") /\ program # "validator"
    /\ IF given.platform = "android"
       THEN GoTo("locked") /\ UNCHANGED rules
       ELSE IF \A text \in AskedTexts : HasNumber(text)
       THEN /\ GoTo("locked")
            /\ rules' = IF given.platform = "linux" THEN rules \cap NetworkRules ELSE rules
       ELSE End("panic") /\ UNCHANGED rules
    /\ UNCHANGED <<vars, inputs, program, peers, routines, servingVars>>

(* -d: the child begins anew; what the parent has parsed is lost.  Where the *)
(* sandbox of main is in force nothing below "/" is open for writing, so    *)
(* that exec.Cmd does not get /dev/null for the child's output, and there   *)
(* is none; before landlock knew TCP there may be a sandbox or not.         *)
ExecDaemon ==
    /\ Running("locked") /\ program = "wireproxy" /\ given.mode = "daemon"
    /\ \/ given.platform # "linux" /\ StartProcess("daemon")
       \/ /\ End("noChild")
          /\ UNCHANGED <<vars, inputs, program, peers, routines, rules, servingVars>>

(* The process that is to serve. *)
Final == program = "daemon" \/ (program = "wireproxy" /\ given.mode = "run")

(* The health server counts as a routine. *)
HealthServer == [kind |-> "info", bind |-> given.info, target |-> "", username |-> ""]

AllRoutines ==
    [r \in DOMAIN routines \cup (IF given.info = "" THEN {} ELSE {0}) |->
        IF r = 0 THEN HealthServer ELSE routines[r]]

(* Any of the calls for the network stack, the device and its request may   *)
(* fail.                                                                   *)
StartWireguard ==
    /\ Running("locked") /\ Final
    /\ CreateIPCRequest
    /\ ipcRequest' = PeersRequest(peers)
    /\ \/ GoTo("up") /\ routines' = AllRoutines
       \/ End("noDevice") /\ UNCHANGED routines
    /\ UNCHANGED <<inputs, program, peers, rules, serving, cancelled>>

---------------------------------------------------------------------------
(* SpawnRoutine, one goroutine each. *)

(* parseAddressPort, of those that call it. *)
TargetOk(r) ==
    r.kind \in {"TCPClientTunnel", "STDIOTunnel", "TCPServerTunnel"} => r.target \in PortNumbers

(* Where a routine listens: a server tunnel does in the network of the tunnel. *)
NetworkOf(r) ==
    CASE r.kind = "TCPServerTunnel" -> "tunnel"
      [] r.kind = "UDPProxyTunnel" -> "udp"
      [] r.kind = "STDIOTunnel" -> "none"
      [] OTHER -> "tcp"

InUse(r) ==
    {PortOf(routines[s].bind) : s \in {s \in serving : NetworkOf(routines[s]) = NetworkOf(r)}}
        \cup IF NetworkOf(r) = "tcp" THEN given.taken ELSE {}

CanListen(r) ==
    \/ NetworkOf(r) = "none"
    \/ /\ IsAddress(r.bind)
       /\ PortOf(r.bind) \notin InUse(r) \ {"0"}
       /\ NetworkOf(r) = "tcp" => <<"bind", PortOf(r.bind)>> \in rules

(* One that fails ends the process, and all others with it. *)
SpawnRoutine(id) ==
    /\ Running("up") /\ id \in DOMAIN routines \ serving
    /\ IF TargetOk(routines[id]) /\ CanListen(routines[id])
       THEN serving' = serving \cup {id} /\ UNCHANGED exit
       ELSE exit' = "fatal" /\ UNCHANGED serving
    /\ UNCHANGED <<vars, inputs, program, stage, peers, routines, rules, ipcRequest, cancelled>>

(* SIGINT, SIGQUIT *)
Interrupt ==
    /\ exit = "none" /\ Final /\ ~cancelled
    /\ cancelled' = TRUE
    /\ UNCHANGED <<vars, inputs, program, stage, exit, peers, routines, rules, ipcRequest, serving>>

(* main waits for the signal once everything is spawned. *)
Return ==
    /\ Running("up") /\ cancelled
    /\ End("ok")
    /\ UNCHANGED <<vars, inputs, program, peers, routines, rules, servingVars>>

Main ==
    \/ ParseInterface \/ ValidateParsedASec \/ ParsePeers \/ ParseRoutinesConfig
    \/ ConfigTest \/ LockNetwork \/ ExecDaemon \/ StartWireguard
    \/ Return

StartupNext ==
    \/ Main
    \/ \E id \in DOMAIN routines : SpawnRoutine(id)
    \/ Interrupt

(* Every step of main changes one of the three, every routine's one of two. *)
StartupSpec ==
    /\ StartupInit /\ [][StartupNext]_startupVars
    /\ WF_<<program, stage, exit>>(Main)
    /\ WF_<<serving, exit>>(\E id \in DOMAIN routines : SpawnRoutine(id))

---------------------------------------------------------------------------
(* Properties. *)

(* What is read has the types Configuration gives it, whatever the file.    *)
StartupTypeOK ==
    /\ TypeOK
    /\ program \in {"validator", "wireproxy", "daemon"}
    /\ stage \in {"load", "asec", "peers", "routines", "parsed", "locked", "up"}
    /\ exit \in {"none", "ok", "refused", "panic", "noChild", "noDevice", "fatal"}
    /\ \A n \in DOMAIN peers :
          /\ peers[n].publicKey \in KeyTexts
          /\ peers[n].presharedKey \in KeyTexts \cup {ZeroKey}
    /\ \A id \in DOMAIN routines : routines[id].kind \in RoutineKinds \cup {"info"}
    /\ rules \subseteq AllRules
    /\ \A n \in DOMAIN ipcRequest :
          ipcRequest[n][1] = "allowed_ip" => ipcRequest[n][2] \in AllBlocks
    /\ serving \subseteq DOMAIN routines
    /\ cancelled \in BOOLEAN

(* The messenger finds its proxy after an import of any file whose headers  *)
(* stand alone on their lines: what wireproxy reads has one SOCKS5 proxy, on *)
(* the local port and without a password, and the peers and all the other   *)
(* routines are those of the imported file, in their order.                 *)
PreparedServesLocally ==
    (stage = "parsed" /\ given.import /\ \A i \in DOMAIN given.lines :
                                           given.lines[i].type # "annotated") =>
        /\ \E local \in DOMAIN routines :
              /\ {r \in DOMAIN routines : routines[r].kind = "Socks5"} = {local}
              /\ routines[local].bind = LocalPort /\ routines[local].username = ""
        /\ OtherRoutines(file) = OtherRoutines(given.lines)
        /\ peers = PeersOf(DeviceFile(given.lines))

(* The device sends what goes to a block of addresses to the last peer whose *)
(* section claims it (one that claims nothing claims everything), with the  *)
(* preshared key and to the endpoint of that section, unless another        *)
(* section is about the same peer.                                          *)
PeersKeepWhatTheyClaim ==
    LET sections == SectionsByName(wgFile, "Peer")
        V(h, key) == Value(wgFile, h, key)
        Claims(h, block) ==
            IF Parts(V(h, "AllowedIPs")) = <<>>
            THEN \E n \in DOMAIN Everything : Everything[n] = block
            ELSE \E n \in DOMAIN V(h, "AllowedIPs") : V(h, "AllowedIPs")[n] = block
        device == Configured(ipcRequest)
    IN  ipcRequest # <<>> =>
        \A h \in sections, block \in AllBlocks :
            (Claims(h, block) /\ \A other \in sections : Claims(other, block) => other <= h) =>
                LET key == V(h, "PublicKey")[1]
                    Is(field, value) ==
                        {device.settings[what] :
                            what \in {<<key, field>>} \cap DOMAIN device.settings} =
                        {value[n] : n \in DOMAIN value}
                IN  /\ block \in DOMAIN device.owner /\ device.owner[block] = key
                    /\ (\A other \in sections \ {h} : V(other, "PublicKey")[1] # key) =>
                          /\ Is("endpoint", V(h, "Endpoint"))
                          /\ Is("preshared_key", IF V(h, "PreSharedKey") = <<>> THEN <<ZeroKey>>
                                                 ELSE V(h, "PreSharedKey"))

(* Routines as the documentation shows them: ports and targets that are     *)
(* numbers, no port twice and none that is taken.                           *)
Documented ==
    LET Listening == {r \in DOMAIN AllRoutines : NetworkOf(AllRoutines[r]) # "none"}
    IN  /\ \A r \in DOMAIN AllRoutines :
              AllRoutines[r].kind \notin {"Socks5", "http", "info"} =>
                  AllRoutines[r].target \in PortNumbers \ {"0"}
        /\ \A r \in Listening :
              /\ AllRoutines[r].bind \in PortNumbers \ {"0"}
              /\ NetworkOf(AllRoutines[r]) = "tcp" => AllRoutines[r].bind \notin given.taken
        /\ \A r, s \in Listening :
              (r # s /\ NetworkOf(AllRoutines[r]) = NetworkOf(AllRoutines[s])) =>
                  AllRoutines[r].bind # AllRoutines[s].bind

(* What a server tunnel accepts it forwards to its target on this machine. *)
CanForward(r) == r.kind = "TCPServerTunnel" => <<"connect", r.target>> \in rules

(* wireproxy comes up with everything a documented file asks for, and stays *)
(* so until it is interrupted; on Linux with a sandbox for the network,     *)
(* unless the file has a TCPClientTunnel.                                   *)
AllServed ==
    (/\ stage = "parsed" /\ Final /\ Documented
     /\ given.platform = "linux" =>
            \A r \in DOMAIN routines : routines[r].kind # "TCPClientTunnel")
        ~> [](\/ cancelled \/ exit = "noDevice"
              \/ /\ exit = "none" /\ serving = DOMAIN routines
                 /\ \A r \in serving : CanForward(routines[r]))

(* wireproxy's README.md says of every kind of routine that it listens, or  *)
(* connects: a documented file ends neither main nor a routine.             *)
DocumentedNeverFails == exit \in {"panic", "fatal"} => ~Documented

=============================================================================
