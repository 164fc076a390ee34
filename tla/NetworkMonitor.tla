--------------------------- MODULE NetworkMonitor ---------------------------
(***************************************************************************)
(* How ProxyService decides that a network change calls for a restart:     *)
(* NetworkChangeDetector (what changed), NetworkRestartGate (is a link     *)
(* change still part of the last network change) and the callbacks that    *)
(* feed them, on Android N and later or, if legacy, the connectivity       *)
(* broadcast of older versions.  The system appears through the order of   *)
(* its callbacks: a network that becomes the default is announced by       *)
(* onAvailable and then its link properties, a later change of them by     *)
(* onLinkPropertiesChanged, the loss of the last network by onLost; a      *)
(* switch to another network announces the new one only.                   *)
(* The restart itself is ProxyService's; here it is one step, taken at any *)
(* time after it was requested.                                            *)
(***************************************************************************)
EXTENDS Naturals, Sequences

CONSTANTS
    Networks,     \* identities of networks, Network.toString()
    Links,        \* link fingerprints: interface, addresses, DNS servers, MTU
    Nothing,      \* no network; null in the detector
    MaxChanges,   \* changes of the system's network or link
    Versions      \* of Android, that is, what legacy below can be

ASSUME NetworkAssumption ==
    /\ Nothing \notin Networks
    /\ Nothing \notin Links
    /\ MaxChanges \in Nat
    /\ Versions \subseteq BOOLEAN

VARIABLES
    network, link,      \* the default network and its link properties
    events,             \* callbacks the system has sent, oldest first
    initialized, activeNetwork, linkFingerprint,    \* NetworkChangeDetector
    settling,           \* NetworkRestartGate: "never" a change, inside the
                        \* settle "window" after it, or the window is "over"
    wanted,             \* the user started the proxy
    tunnel,             \* what network and link the running process was started on
    restartPending,     \* a network restart was scheduled
    coalesced,          \* since that start, the gate refused a link change
    legacy,             \* Android before N: the broadcast, not the callbacks
    changes, requests   \* how many changes there were, and restarts requested

systemVars == <<network, link, events, changes, legacy>>
detectorVars == <<initialized, activeNetwork, linkFingerprint>>
tunnelVars == <<wanted, tunnel>>
vars == <<systemVars, detectorVars, settling, tunnelVars, restartPending,
          coalesced, requests>>

Events == [kind : {"available", "link", "lost", "broadcast"},
           network : Networks \cup {Nothing}, link : Links \cup {Nothing}]

TypeOK ==
    /\ network \in Networks \cup {Nothing}
    /\ link \in Links \cup {Nothing}
    /\ events \in Seq(Events)
    /\ initialized \in BOOLEAN
    /\ activeNetwork \in Networks \cup {Nothing}
    /\ linkFingerprint \in Links \cup {Nothing}
    /\ settling \in {"never", "window", "over"}
    /\ wanted \in BOOLEAN
    /\ tunnel \in [network : Networks \cup {Nothing}, link : Links \cup {Nothing}]
    /\ restartPending \in BOOLEAN
    /\ coalesced \in BOOLEAN
    /\ legacy \in BOOLEAN
    /\ changes \in 0..MaxChanges
    /\ requests \in Nat
    /\ activeNetwork = Nothing => linkFingerprint = Nothing

Event(kind, n, l) == [kind |-> kind, network |-> n, link |-> l]

\* What the system sends when n with properties l becomes the default network.
Announcement(n, l) ==
    IF legacy THEN <<Event("broadcast", Nothing, Nothing)>>
    ELSE <<Event("available", n, Nothing), Event("link", n, l)>>

\* The moment registerNetworkMonitoring has run: a network that is there
\* already is announced, and the legacy handler has looked at it once, at its
\* link properties too if the system told them.
Init ==
    /\ legacy \in Versions
    /\ \/ network = Nothing /\ link = Nothing /\ events = <<>>
       \/ /\ network \in Networks /\ link \in Links
          /\ events = Announcement(network, link)
    /\ initialized = (legacy /\ network # Nothing)
    /\ activeNetwork = IF initialized THEN network ELSE Nothing
    /\ linkFingerprint \in IF initialized THEN {link, Nothing} ELSE {Nothing}
    /\ settling = "never"
    /\ wanted = FALSE /\ tunnel = [network |-> Nothing, link |-> Nothing]
    /\ restartPending = FALSE /\ coalesced = FALSE
    /\ changes = 0 /\ requests = 0

-----------------------------------------------------------------------------
(* The detector: operators that give its verdict, and its next state.      *)

\* onAvailable asks for a restart ...
NetworkDiffers(n) == initialized /\ n # activeNetwork

\* A bug: the fingerprint of the previous network is kept.
RememberNetworkOnly(n) ==
    /\ initialized' = TRUE
    /\ activeNetwork' = n
    /\ UNCHANGED linkFingerprint

\* ... and forgets the link properties of another network.
RememberNetwork(n) ==
    /\ initialized' = TRUE
    /\ activeNetwork' = n
    /\ linkFingerprint' = IF initialized /\ n = activeNetwork
                          THEN linkFingerprint ELSE Nothing

\* onLinkProperties asks for a restart unless these are the first properties
\* of the active network, or the ones it had.
LinkDiffers(n, l) ==
    /\ initialized
    /\ \/ n # activeNetwork
       \/ linkFingerprint # Nothing /\ l # linkFingerprint

RememberLink(n, l) ==
    /\ initialized' = TRUE
    /\ activeNetwork' = n
    /\ linkFingerprint' = l

\* A bug: the link properties outlive their network.
ForgetNetworkOnly(n) ==
    /\ UNCHANGED <<initialized, linkFingerprint>>
    /\ activeNetwork' = IF n = activeNetwork THEN Nothing ELSE activeNetwork

\* onLost.
ForgetNetwork(n) ==
    /\ UNCHANGED initialized
    /\ IF n = activeNetwork
       THEN activeNetwork' = Nothing /\ linkFingerprint' = Nothing
       ELSE UNCHANGED <<activeNetwork, linkFingerprint>>

-----------------------------------------------------------------------------
(* The gate and the request.                                               *)

\* shouldRestartForLinkChange.
GateOpen == settling \in {"never", "over"}

\* scheduleNetworkRestart, which does nothing unless the proxy is to run.
RequestRestart ==
    /\ restartPending' = wanted
    /\ requests' = requests + 1

NoRequest == UNCHANGED <<restartPending, requests>>

\* A link change the gate lets through, or keeps back.
LinkVerdict(differs) ==
    \/ /\ differs /\ GateOpen
       /\ RequestRestart
       /\ UNCHANGED coalesced
    \/ /\ differs /\ ~GateOpen
       /\ NoRequest
       /\ coalesced' = TRUE
    \/ /\ ~differs
       /\ NoRequest
       /\ UNCHANGED coalesced

-----------------------------------------------------------------------------
(* The callbacks.                                                          *)

Delivered(kind) == events # <<>> /\ Head(events).kind = kind /\ events' = Tail(events)

OnAvailable ==
    /\ Delivered("available")
    /\ LET n == Head(events).network IN
         /\ RememberNetwork(n)
         /\ \/ NetworkDiffers(n) /\ settling' = "window" /\ RequestRestart
            \/ ~NetworkDiffers(n) /\ UNCHANGED settling /\ NoRequest
    /\ UNCHANGED <<network, link, changes, legacy, tunnelVars, coalesced>>

OnLinkPropertiesChanged ==
    /\ Delivered("link")
    /\ LET e == Head(events) IN
         /\ RememberLink(e.network, e.link)
         /\ LinkVerdict(LinkDiffers(e.network, e.link))
    /\ UNCHANGED <<network, link, changes, legacy, settling, tunnelVars>>

\* A bug: a loss leaves the detector alone.
OnLostIgnored ==
    /\ Delivered("lost")
    /\ NoRequest
    /\ UNCHANGED <<network, link, changes, legacy, detectorVars, settling, tunnelVars, coalesced>>

OnLost ==
    /\ Delivered("lost")
    /\ ForgetNetwork(Head(events).network)
    /\ NoRequest
    /\ UNCHANGED <<network, link, changes, legacy, settling, tunnelVars, coalesced>>

\* handleLegacyNetworkChange looks at the network of the moment, and does
\* nothing when there is none.  The system may not tell its link properties, as
\* when it is just going: then the detector hears of the network alone.  Both
\* detector calls are made before either restart is scheduled, and the network
\* change prevails; the fingerprint is new to a network that is.
HandleLegacyNetworkChange ==
    /\ Delivered("broadcast")
    /\ \/ /\ network = Nothing
          /\ NoRequest
          /\ UNCHANGED <<detectorVars, settling, coalesced>>
       \/ /\ network # Nothing /\ NetworkDiffers(network)
          /\ RememberLink(network, link) \/ RememberNetwork(network)
          /\ settling' = "window"
          /\ RequestRestart
          /\ UNCHANGED coalesced
       \/ /\ network # Nothing /\ ~NetworkDiffers(network)
          /\ \/ RememberLink(network, link) /\ LinkVerdict(LinkDiffers(network, link))
             \/ RememberNetwork(network) /\ NoRequest /\ UNCHANGED coalesced
          /\ UNCHANGED settling
    /\ UNCHANGED <<network, link, changes, legacy, tunnelVars>>

Callback == OnAvailable \/ OnLinkPropertiesChanged \/ OnLost \/ HandleLegacyNetworkChange

\* NETWORK_SETTLE_WINDOW_MS have passed since the last network change.
SettleWindowEnds ==
    /\ settling = "window"
    /\ settling' = "over"
    /\ UNCHANGED <<systemVars, detectorVars, tunnelVars, restartPending, coalesced,
                   requests>>

-----------------------------------------------------------------------------
(* The proxy and the system.                                               *)

\* A process started now uses the network and link of the moment.
Now == [network |-> network, link |-> link]

StartProxy ==
    /\ ~wanted
    /\ wanted' = TRUE
    /\ tunnel' = Now
    /\ coalesced' = FALSE
    /\ UNCHANGED <<systemVars, detectorVars, settling, restartPending, requests>>

RestartProxy ==
    /\ restartPending
    /\ restartPending' = FALSE
    /\ tunnel' = Now
    /\ coalesced' = FALSE
    /\ UNCHANGED <<systemVars, detectorVars, settling, wanted, requests>>

Change == changes < MaxChanges /\ changes' = changes + 1

Undisturbed == UNCHANGED <<legacy, detectorVars, settling, tunnelVars, restartPending, coalesced,
                           requests>>

\* Another network becomes the default one, with or without one before it.
NetworkAppears ==
    /\ Change
    /\ \E n \in Networks \ {network}, l \in Links :
         /\ network' = n
         /\ link' = l
         /\ events' = events \o Announcement(n, l)
    /\ Undisturbed

\* The only network is lost.
NetworkLost ==
    /\ network # Nothing
    /\ Change
    /\ network' = Nothing
    /\ link' = Nothing
    /\ events' = Append(events, IF legacy THEN Event("broadcast", Nothing, Nothing)
                                ELSE Event("lost", network, Nothing))
    /\ Undisturbed

\* The network stays, its address, DNS servers or MTU change.  The legacy
\* broadcast tells of the connection, but not of such a change.
LinkChanges ==
    /\ network # Nothing
    /\ Change
    /\ link' \in Links \ {link}
    /\ events' = IF legacy THEN events ELSE Append(events, Event("link", network, link'))
    /\ UNCHANGED network
    /\ Undisturbed

Next ==
    \/ Callback \/ SettleWindowEnds
    \/ StartProxy \/ RestartProxy
    \/ NetworkAppears \/ NetworkLost \/ LinkChanges

Spec == Init /\ [][Next]_vars

-----------------------------------------------------------------------------
(* Properties.                                                             *)

\* Every callback was delivered and every restart done.
Settled == events = <<>> /\ ~restartPending

\* The tunnel follows the default network: when the callbacks are delivered and
\* the restarts done, the process that runs was started on the network of the
\* moment, and on its link, but for the changes the gate kept back.  Excepted are
\* Android versions before N, whose handler compares with the network it looked
\* at last, not with the one the process was started on, and a process started
\* before there was any network, since the first network is not a change
\* (onAvailable).
TunnelFollowsNetwork ==
    wanted /\ Settled /\ ~legacy /\ network # Nothing =>
        \/ tunnel.network = network /\ (tunnel.link = link \/ coalesced)
        \/ tunnel.network = Nothing /\ requests = 0

\* A change is answered by at most one restart, although it is announced by
\* several callbacks, and the network present from the start by none.
OneRestartPerChange == requests <= changes
=============================================================================
