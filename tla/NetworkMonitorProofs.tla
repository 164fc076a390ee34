------------------------ MODULE NetworkMonitorProofs ------------------------
(***************************************************************************)
(* Theorems about NetworkMonitor: any networks and links, any number of    *)
(* changes, and any number of callbacks still on their way.                *)
(***************************************************************************)
EXTENDS NetworkMonitor, SequenceTheorems, TLAPS

-----------------------------------------------------------------------------
(* What the queue of callbacks can hold, from Android N on.                *)

\* The network in effect once e was delivered.
NetworkAfter(e) == IF e.kind = "lost" THEN Nothing ELSE e.network

\* What a callback carries.
Shape(e) ==
    /\ e.kind \in {"available", "link", "lost"}
    /\ e.network \in Networks
    /\ e.kind = "link" => e.link \in Links

\* What the system sends next after e: a network becomes the default one if it
\* was not, its properties are announced at once, and change later.
Consecutive(e, f) ==
    /\ e.kind = "available" => f.kind = "link"
    /\ f.kind = "available" => NetworkAfter(e) # f.network
    /\ f.kind \in {"link", "lost"} => NetworkAfter(e) = f.network
    /\ f.kind = "link" => e.kind = "available" \/ e.link # f.link

\* The same of the first callback on its way and what the detector knows.
Expected(f) ==
    /\ f.kind = "available" => activeNetwork # f.network
    /\ f.kind \in {"link", "lost"} => activeNetwork = f.network
    /\ f.kind = "link" => linkFingerprint # f.link

\* The last one tells of the network and link of the moment.
Latest(e) ==
    /\ e.kind # "available"
    /\ NetworkAfter(e) = network
    /\ e.kind = "link" => e.link = link

InOrder(q) ==
    /\ \A i \in DOMAIN q : Shape(q[i])
    /\ \A i \in DOMAIN q : i + 1 \in DOMAIN q => Consecutive(q[i], q[i + 1])
    /\ q # <<>> => Expected(q[1])

CallbacksInOrder ==
    /\ InOrder(events)
    /\ IF events = <<>> THEN activeNetwork = network /\ linkFingerprint = link
                        ELSE Latest(events[Len(events)])

\* A network has a link, and the detector knows nothing before the first callback.
NetworksHaveLinks == network = Nothing <=> link = Nothing
UninitializedKnowsNothing ==
    ~initialized => activeNetwork = Nothing /\ linkFingerprint = Nothing /\ requests = 0

QueueInv ==
    IF legacy THEN \A i \in DOMAIN events : events[i].kind = "broadcast"
              ELSE CallbacksInOrder /\ UninitializedKnowsNothing

-----------------------------------------------------------------------------
(* At most one restart for each change.                                    *)

\* The callbacks that can request a restart: not the announcement of the first
\* network, nor the first link properties of any, which come with it.
Counts(i) ==
    \/ events[i].kind = "available" /\ (initialized \/ i > 1)
    \/ /\ events[i].kind = "link"
       /\ IF i = 1 THEN linkFingerprint # Nothing ELSE events[i - 1].kind # "available"

\* Each of them can be given a change of its own, later than those answered.
Numbers(c) ==
    /\ \A i \in DOMAIN events : Counts(i) => requests < c[i] /\ c[i] <= changes
    /\ \A i, j \in DOMAIN events : Counts(i) /\ Counts(j) /\ i < j => c[i] < c[j]

\* Before N a restart is requested only for what changed since the handler looked.
ChangedSinceLooked ==
    /\ initialized /\ network # Nothing
    /\ \/ network # activeNetwork
       \/ linkFingerprint # Nothing /\ link # linkFingerprint

RequestsInv ==
    /\ requests <= changes
    /\ ~legacy => \E c \in [DOMAIN events -> Nat] : Numbers(c)
    /\ legacy /\ ChangedSinceLooked => requests < changes

-----------------------------------------------------------------------------
(* The tunnel follows the network.                                         *)

\* What leads to a restart of a tunnel that lags behind, or excuses it.
AvailableToCome == \E i \in DOMAIN events : events[i].kind = "available" /\ Counts(i)
LinkToCome == \E i \in DOMAIN events : events[i].kind = "link" /\ Counts(i)

TunnelInv ==
    wanted /\ ~restartPending /\ ~legacy =>
        \/ AvailableToCome
        \/ tunnel.network = Nothing /\ requests = 0
        \/ tunnel.network = network /\ (tunnel.link = link \/ coalesced \/ LinkToCome)
        \/ network = Nothing /\ (initialized \/ events # <<>>)

-----------------------------------------------------------------------------
(* Types, and what the queue gives a callback to work on.                  *)

\* What a delivery takes from the queue and what it leaves.
LEMMA Deliver ==
    ASSUME NEW S, NEW q \in Seq(S), q # <<>>
    PROVE  /\ Head(q) = q[1] /\ q[1] \in S
           /\ Tail(q) \in Seq(S) /\ Len(q) \in Nat \ {0}
           /\ DOMAIN q = 1..Len(q) /\ DOMAIN Tail(q) = 1..(Len(q) - 1)
           /\ Len(Tail(q)) = Len(q) - 1
           /\ \A i \in 1..(Len(q) - 1) : Tail(q)[i] = q[i + 1]
  BY HeadTailProperties

\* A callback of the system is one of Events.
LEMMA AnnouncementType ==
    ASSUME NEW n \in Networks, NEW l \in Links
    PROVE  Announcement(n, l) \in Seq(Events)
<1> DEFINE b == Event("broadcast", Nothing, Nothing)
           a == Event("available", n, Nothing)
           f == Event("link", n, l)
<1>1. b \in Events /\ a \in Events /\ f \in Events
  BY DEF Event, Events
<1>2. Announcement(n, l) = IF legacy THEN <<b>> ELSE <<a, f>>
  BY DEF Announcement
<1> HIDE DEF a, b, f
<1> QED BY <1>1, <1>2

\* Every behaviour begins in the types, with a link for every network.
LEMMA InitTypeOK == Init => TypeOK /\ NetworksHaveLinks
<1> SUFFICES ASSUME Init PROVE TypeOK /\ NetworksHaveLinks
  OBVIOUS
<1> USE NetworkAssumption
<1>1. network \in Networks \cup {Nothing} /\ link \in Links \cup {Nothing} /\ NetworksHaveLinks
  BY DEF Init, NetworksHaveLinks
<1>2. events \in Seq(Events)
  <2>1. CASE network = Nothing /\ link = Nothing /\ events = <<>>
    BY <2>1
  <2>2. CASE network \in Networks /\ link \in Links /\ events = Announcement(network, link)
    BY <2>2, AnnouncementType
  <2> QED BY <2>1, <2>2 DEF Init
<1>3. initialized \in BOOLEAN /\ legacy \in BOOLEAN /\ (~initialized => activeNetwork = Nothing /\ linkFingerprint = Nothing)
  BY DEF Init
<1>4. initialized => network # Nothing /\ activeNetwork = network /\ linkFingerprint \in {link, Nothing}
  BY DEF Init
<1>5. tunnel \in [network : Networks \cup {Nothing}, link : Links \cup {Nothing}]
  BY DEF Init
<1>6. /\ settling \in {"never", "window", "over"} /\ wanted \in BOOLEAN
      /\ restartPending \in BOOLEAN /\ coalesced \in BOOLEAN
      /\ changes \in 0..MaxChanges /\ requests \in Nat
  <2>1. /\ settling = "never" /\ wanted = FALSE /\ restartPending = FALSE
        /\ coalesced = FALSE /\ changes = 0 /\ requests = 0
    BY DEF Init
  <2>2. changes \in 0..MaxChanges /\ requests \in Nat
    BY <2>1
  <2>3. /\ settling \in {"never", "window", "over"} /\ wanted \in BOOLEAN
        /\ restartPending \in BOOLEAN /\ coalesced \in BOOLEAN
    BY <2>1, Zenon
  <2> QED BY <2>2, <2>3
<1> QED BY <1>1, <1>2, <1>3, <1>4, <1>5, <1>6 DEF TypeOK, NetworksHaveLinks

\* A delivery keeps the types.
LEMMA CallbackTypeOK ==
    TypeOK /\ NetworksHaveLinks /\ QueueInv /\ Callback => TypeOK' /\ NetworksHaveLinks'
<1> SUFFICES ASSUME TypeOK, NetworksHaveLinks, QueueInv, Callback PROVE TypeOK' /\ NetworksHaveLinks'
  OBVIOUS
<1> USE NetworkAssumption
<1>1. events # <<>> /\ events' = Tail(events)
  BY DEF Callback, OnAvailable, OnLinkPropertiesChanged, OnLost, HandleLegacyNetworkChange, Delivered
<1> DEFINE e == Head(events)
<1>2. /\ events' \in Seq(Events)
      /\ e = events[1] /\ e \in Events /\ 1 \in DOMAIN events
  <2>1. events \in Seq(Events)
    BY DEF TypeOK
  <2> QED BY <1>1, <2>1, Deliver
<1>3. e.network \in Networks \cup {Nothing} /\ e.link \in Links \cup {Nothing}
  BY <1>2 DEF Events
<1>4. e.kind = "link" => e.network \in Networks
  BY <1>2 DEF QueueInv, CallbacksInOrder, InOrder, Shape
<1>5. /\ UNCHANGED <<network, link, changes, legacy, wanted, tunnel>>
      /\ settling' \in {"never", "window", "over"}
  <2>1. CASE OnAvailable
    BY <2>1 DEF OnAvailable, tunnelVars, TypeOK
  <2>2. CASE OnLinkPropertiesChanged
    BY <2>2 DEF OnLinkPropertiesChanged, tunnelVars, TypeOK
  <2>3. CASE OnLost
    BY <2>3 DEF OnLost, tunnelVars, TypeOK
  <2>4. CASE HandleLegacyNetworkChange
    BY <2>4 DEF HandleLegacyNetworkChange, tunnelVars, TypeOK
  <2> QED BY <2>1, <2>2, <2>3, <2>4 DEF Callback
<1>6. restartPending' \in BOOLEAN /\ coalesced' \in BOOLEAN /\ requests' \in Nat
  <2>1. /\ RequestRestart \/ NoRequest
        /\ coalesced' = TRUE \/ UNCHANGED coalesced
    <3>1. CASE OnAvailable
      BY <3>1 DEF OnAvailable
    <3>2. CASE OnLinkPropertiesChanged
      BY <3>2 DEF OnLinkPropertiesChanged, LinkVerdict
    <3>3. CASE OnLost
      BY <3>3 DEF OnLost
    <3>4. CASE HandleLegacyNetworkChange
      BY <3>4 DEF HandleLegacyNetworkChange, LinkVerdict
    <3> QED BY <3>1, <3>2, <3>3, <3>4 DEF Callback
  <2>2. requests' \in Nat
    BY <2>1 DEF TypeOK, RequestRestart, NoRequest
  <2>3. restartPending' \in BOOLEAN /\ coalesced' \in BOOLEAN
    BY <2>1, Zenon DEF TypeOK, RequestRestart, NoRequest
  <2> QED BY <2>2, <2>3
<1>7. /\ initialized' \in BOOLEAN
      /\ activeNetwork' \in Networks \cup {Nothing}
      /\ linkFingerprint' \in Links \cup {Nothing}
      /\ activeNetwork' = Nothing => linkFingerprint' = Nothing
  <2>1. CASE OnAvailable
    <3>1. initialized' = TRUE /\ activeNetwork' = e.network
      BY <2>1 DEF OnAvailable, RememberNetwork
    <3>2. linkFingerprint' = IF initialized /\ e.network = activeNetwork
                             THEN linkFingerprint ELSE Nothing
      BY <2>1 DEF OnAvailable, RememberNetwork
    <3> HIDE DEF e
    <3> QED BY <3>1, <3>2, <1>3 DEF TypeOK
  <2>2. CASE OnLinkPropertiesChanged
    <3>1. initialized' = TRUE /\ activeNetwork' = e.network /\ linkFingerprint' = e.link /\ e.kind = "link"
      BY <2>2 DEF OnLinkPropertiesChanged, RememberLink, Delivered
    <3> HIDE DEF e
    <3> QED BY <3>1, <1>3, <1>4 DEF TypeOK
  <2>3. CASE OnLost
    BY <2>3, <1>3 DEF TypeOK, OnLost, ForgetNetwork
  <2>4. CASE HandleLegacyNetworkChange
    <3>1. CASE network = Nothing
      BY <2>4, <3>1 DEF TypeOK, HandleLegacyNetworkChange, detectorVars
    <3>2. CASE network # Nothing /\ RememberLink(network, link)
      BY <3>2 DEF TypeOK, RememberLink, NetworksHaveLinks
    <3>3. CASE network # Nothing /\ RememberNetwork(network)
      BY <3>3 DEF TypeOK, RememberNetwork
    <3> QED BY <2>4, <3>1, <3>2, <3>3 DEF HandleLegacyNetworkChange
  <2> QED BY <2>1, <2>2, <2>3, <2>4 DEF Callback
<1>8. NetworksHaveLinks'
  BY <1>5 DEF NetworksHaveLinks
<1> QED
  <2> HIDE DEF e
  <2> QED BY <1>2, <1>5, <1>6, <1>7, <1>8 DEF TypeOK

\* Every step keeps the types.
LEMMA StepTypeOK ==
    TypeOK /\ NetworksHaveLinks /\ QueueInv /\ [Next]_vars => TypeOK' /\ NetworksHaveLinks'
<1> SUFFICES ASSUME TypeOK, NetworksHaveLinks, QueueInv, [Next]_vars PROVE TypeOK' /\ NetworksHaveLinks'
  OBVIOUS
<1> USE NetworkAssumption
<1>1. CASE Callback
  BY <1>1, CallbackTypeOK
<1>2. CASE SettleWindowEnds \/ UNCHANGED vars
  BY <1>2 DEF SettleWindowEnds, vars, systemVars, detectorVars, tunnelVars, TypeOK, NetworksHaveLinks
<1>4. CASE StartProxy \/ RestartProxy
  <2>1. Now \in [network : Networks \cup {Nothing}, link : Links \cup {Nothing}]
    BY DEF Now, TypeOK
  <2>2. UNCHANGED <<systemVars, detectorVars, settling, requests>> /\ tunnel' = Now
    BY <1>4 DEF StartProxy, RestartProxy
  <2>3. wanted' \in BOOLEAN /\ restartPending' \in BOOLEAN /\ coalesced' \in BOOLEAN
    BY <1>4 DEF StartProxy, RestartProxy, TypeOK
  <2> HIDE DEF Now
  <2> QED BY <2>1, <2>2, <2>3 DEF systemVars, detectorVars, TypeOK, NetworksHaveLinks
<1>3. CASE NetworkAppears \/ NetworkLost \/ LinkChanges
  <2>1. /\ network' \in Networks \cup {Nothing} /\ link' \in Links \cup {Nothing}
        /\ network' = Nothing <=> link' = Nothing
    BY <1>3 DEF NetworkAppears, NetworkLost, LinkChanges, TypeOK, NetworksHaveLinks
  <2>2. changes' \in 0..MaxChanges
    BY <1>3 DEF NetworkAppears, NetworkLost, LinkChanges, Change, TypeOK
  <2>3. events' \in Seq(Events)
    <3>0. events \in Seq(Events)
      BY DEF TypeOK
    <3>1. CASE NetworkAppears
      BY <3>0, <3>1, AnnouncementType, ConcatProperties DEF NetworkAppears
    <3>2. CASE NetworkLost
      <4> DEFINE e == IF legacy THEN Event("broadcast", Nothing, Nothing)
                      ELSE Event("lost", network, Nothing)
      <4>1. e \in Events
        BY DEF Event, Events, TypeOK
      <4>2. events' = Append(events, e)
        BY <3>2 DEF NetworkLost
      <4> HIDE DEF e
      <4> QED BY <3>0, <4>1, <4>2, AppendProperties
    <3>3. CASE LinkChanges
      <4> DEFINE e == Event("link", network, link')
      <4>1. e \in Events
        BY <2>1, <3>3 DEF Event, Events, TypeOK, LinkChanges
      <4>2. events' = IF legacy THEN events ELSE Append(events, e)
        BY <3>3 DEF LinkChanges
      <4> HIDE DEF e
      <4> QED BY <3>0, <4>1, <4>2, AppendProperties
    <3> QED BY <1>3, <3>1, <3>2, <3>3
  <2>4. Undisturbed
    BY <1>3 DEF NetworkAppears, NetworkLost, LinkChanges
  <2> QED BY <2>1, <2>2, <2>3, <2>4 DEF TypeOK, NetworksHaveLinks, Undisturbed, detectorVars, tunnelVars
<1> QED BY <1>1, <1>2, <1>3, <1>4 DEF Next

-----------------------------------------------------------------------------
(* What a callback does from Android N on, and what it leaves in order.    *)

\* The next callback tells of a network, and is what the detector expects.
LEMMA NextIsExpected ==
    ASSUME TypeOK, QueueInv, ~legacy, events # <<>>
    PROVE  /\ Head(events) = events[1] /\ events[1] \in Events
           /\ Shape(events[1]) /\ Expected(events[1])
  <1>1. events \in Seq(Events)
    BY DEF TypeOK
  <1>2. Head(events) = events[1] /\ events[1] \in Events /\ 1 \in DOMAIN events
    BY <1>1, Deliver
  <1> QED BY <1>2 DEF QueueInv, CallbacksInOrder, InOrder

\* The detector knows what the callback told; a restart is requested if the
\* callback counts, unless the gate keeps a link change back.
LEMMA Delivers ==
    ASSUME TypeOK, QueueInv, ~legacy, Callback
    PROVE  /\ events # <<>> /\ events' = Tail(events)
           /\ UNCHANGED <<network, link, changes, legacy, wanted, tunnel>>
           /\ initialized'
           /\ activeNetwork' = NetworkAfter(events[1])
           /\ linkFingerprint' = IF events[1].kind = "link" THEN events[1].link ELSE Nothing
           /\ \/ RequestRestart /\ Counts(1) /\ UNCHANGED coalesced
              \/ NoRequest /\ ~Counts(1) /\ UNCHANGED coalesced
              \/ NoRequest /\ Counts(1) /\ events[1].kind = "link" /\ coalesced'
<1> USE NetworkAssumption
<1> DEFINE e == events[1]
<1>1. events # <<>> /\ events' = Tail(events)
  BY DEF Callback, OnAvailable, OnLinkPropertiesChanged, OnLost, HandleLegacyNetworkChange, Delivered
<1>2. Head(events) = e /\ Shape(e) /\ Expected(e)
  BY <1>1, NextIsExpected
<1>3. ~initialized => activeNetwork = Nothing /\ linkFingerprint = Nothing
  BY Zenon DEF QueueInv, UninitializedKnowsNothing
<1>4. CASE OnAvailable
  <2>1. e.kind = "available" /\ e.network # activeNetwork
    BY <1>2, <1>4 DEF OnAvailable, Delivered, Expected
  <2>2. Counts(1) <=> initialized
    BY <2>1 DEF Counts
  <2>3. RememberNetwork(e.network)
    BY <1>2, <1>4 DEF OnAvailable
  <2>4. UNCHANGED <<network, link, changes, legacy, wanted, tunnel, coalesced>>
    BY <1>4 DEF OnAvailable, tunnelVars
  <2>5. (initialized /\ RequestRestart) \/ (~initialized /\ NoRequest)
    <3>1. \/ NetworkDiffers(e.network) /\ RequestRestart
          \/ ~NetworkDiffers(e.network) /\ NoRequest
      BY <1>2, <1>4 DEF OnAvailable
    <3> QED BY <2>1, <3>1, Zenon DEF NetworkDiffers
  <2> HIDE DEF e
  <2>6. /\ initialized' /\ activeNetwork' = NetworkAfter(e) /\ linkFingerprint' = Nothing
        /\ e.kind # "link"
    BY <2>1, <2>3 DEF RememberNetwork, NetworkAfter
  <2> QED BY <1>1, <2>2, <2>4, <2>5, <2>6 DEF e
<1>5. CASE OnLinkPropertiesChanged
  <2>1. e.kind = "link" /\ e.network = activeNetwork /\ linkFingerprint # e.link
    BY <1>2, <1>5 DEF OnLinkPropertiesChanged, Delivered, Expected
  <2>2. Counts(1) <=> linkFingerprint # Nothing
    BY <2>1 DEF Counts
  <2>3. RememberLink(e.network, e.link) /\ LinkVerdict(LinkDiffers(e.network, e.link))
    BY <1>2, <1>5 DEF OnLinkPropertiesChanged
  <2>4. UNCHANGED <<network, link, changes, legacy, wanted, tunnel>>
    BY <1>5 DEF OnLinkPropertiesChanged, tunnelVars
  <2> HIDE DEF e
  <2>5. LinkDiffers(e.network, e.link) <=> Counts(1)
    BY <1>3, <2>1, <2>2 DEF LinkDiffers
  <2>6. initialized' /\ activeNetwork' = NetworkAfter(e) /\ linkFingerprint' = e.link
    BY <2>1, <2>3 DEF RememberLink, NetworkAfter
  <2>7. \/ RequestRestart /\ Counts(1) /\ UNCHANGED coalesced
        \/ NoRequest /\ ~Counts(1) /\ UNCHANGED coalesced
        \/ NoRequest /\ Counts(1) /\ coalesced'
    BY <2>3, <2>5 DEF LinkVerdict
  <2> QED BY <1>1, <2>1, <2>4, <2>6, <2>7 DEF e
<1>6. CASE OnLost
  <2>1. e.kind = "lost" /\ e.network = activeNetwork /\ e.network \in Networks
    BY <1>2, <1>6 DEF OnLost, Delivered, Expected, Shape
  <2>2. ~Counts(1)
    BY <2>1 DEF Counts
  <2>3. ForgetNetwork(e.network)
    BY <1>2, <1>6 DEF OnLost
  <2>4. UNCHANGED <<network, link, changes, legacy, wanted, tunnel, coalesced>> /\ NoRequest
    BY <1>6 DEF OnLost, tunnelVars
  <2> HIDE DEF e
  <2>5. initialized
    BY <1>3, <2>1
  <2>6. /\ initialized' /\ activeNetwork' = NetworkAfter(e) /\ linkFingerprint' = Nothing
        /\ e.kind # "link"
    BY <2>1, <2>3, <2>5 DEF ForgetNetwork, NetworkAfter
  <2> QED BY <1>1, <2>2, <2>4, <2>6 DEF e
<1>7. CASE HandleLegacyNetworkChange
  <2>1. e.kind = "broadcast"
    BY <1>2, <1>7 DEF HandleLegacyNetworkChange, Delivered
  <2> HIDE DEF e
  <2> QED BY <1>2, <2>1 DEF Shape
<1> QED BY <1>4, <1>5, <1>6, <1>7 DEF Callback

\* What is left on its way is in order for what the detector knows then.
LEMMA DeliveredInOrder ==
    ASSUME TypeOK, NetworksHaveLinks, QueueInv, ~legacy, Callback
    PROVE  QueueInv'
<1> USE NetworkAssumption
<1> DEFINE q == events
           t == events'
<1>1. q \in Seq(Events)
  BY DEF TypeOK
<1>2. /\ q # <<>> /\ t = Tail(q)
      /\ UNCHANGED <<network, link, legacy>>
      /\ initialized'
      /\ activeNetwork' = NetworkAfter(q[1])
      /\ linkFingerprint' = IF q[1].kind = "link" THEN q[1].link ELSE Nothing
  BY Delivers
<1>3. /\ Len(q) \in Nat \ {0} /\ DOMAIN q = 1..Len(q)
      /\ DOMAIN t = 1..(Len(q) - 1) /\ Len(t) = Len(q) - 1
      /\ t \in Seq(Events)
      /\ \A i \in 1..(Len(q) - 1) : t[i] = q[i + 1]
  BY <1>1, <1>2, Deliver
<1>4. /\ \A i \in DOMAIN q : Shape(q[i])
      /\ \A i \in DOMAIN q : i + 1 \in DOMAIN q => Consecutive(q[i], q[i + 1])
      /\ Latest(q[Len(q)])
  BY <1>2 DEF QueueInv, CallbacksInOrder, InOrder
<1> HIDE DEF q, t
<1>5. \A i \in DOMAIN t : Shape(t[i])
  BY <1>3, <1>4
<1>6. \A i \in DOMAIN t : i + 1 \in DOMAIN t => Consecutive(t[i], t[i + 1])
  <2> SUFFICES ASSUME NEW i \in DOMAIN t, i + 1 \in DOMAIN t PROVE Consecutive(t[i], t[i + 1])
    OBVIOUS
  <2>1. i + 1 \in DOMAIN q /\ (i + 1) + 1 \in DOMAIN q /\ t[i] = q[i + 1] /\ t[i + 1] = q[(i + 1) + 1]
    BY <1>3
  <2> QED BY <1>4, <2>1
<1>7. t # <<>> => Expected(events[1])'
  <2> SUFFICES ASSUME t # <<>> PROVE Expected(events[1])'
    OBVIOUS
  <2>1. 1 \in DOMAIN q /\ 1 + 1 \in DOMAIN q /\ t[1] = q[1 + 1]
    <3>1. Len(t) # 0
      BY <1>3, EmptySeq
    <3> QED BY <1>3, <3>1
  <2>2. Consecutive(q[1], t[1]) /\ Shape(q[1]) /\ Shape(t[1])
    BY <1>4, <2>1
  <2> DEFINE a == q[1]
             f == t[1]
  <2>3. /\ Consecutive(a, f) /\ Shape(a) /\ Shape(f)
        /\ activeNetwork' = NetworkAfter(a)
        /\ linkFingerprint' = IF a.kind = "link" THEN a.link ELSE Nothing
    BY <1>2, <2>2
  <2>4. ASSUME NEW g, g = f
        PROVE  /\ g.kind = "available" => activeNetwork' # g.network
               /\ g.kind \in {"link", "lost"} => activeNetwork' = g.network
               /\ g.kind = "link" => linkFingerprint' # g.link
    <3> HIDE DEF a, f
    <3>1. f.kind = "link" => linkFingerprint' # f.link
      BY <2>3 DEF Consecutive, Shape
    <3> QED BY <2>3, <2>4, <3>1 DEF Consecutive
  <2>5. t[1] = events'[1]
    BY DEF t
  <2> QED BY <2>4, <2>5 DEF Expected
<1>8. IF t = <<>> THEN activeNetwork' = network' /\ linkFingerprint' = link'
      ELSE Latest(events[Len(events)])'
  <2>1. CASE t = <<>>
    <3>1. Len(q) = 1
      <4>1. Len(t) = 0 /\ Len(t) = Len(q) - 1 /\ Len(q) \in Nat
        BY <1>3, <2>1
      <4> QED BY <4>1
    <3> DEFINE a == q[1]
    <3>2. /\ Latest(a) /\ Shape(a)
          /\ activeNetwork' = NetworkAfter(a)
          /\ linkFingerprint' = IF a.kind = "link" THEN a.link ELSE Nothing
      BY <1>2, <1>3, <1>4, <3>1
    <3> HIDE DEF a
    <3> QED BY <1>2, <2>1, <3>2 DEF Latest, Shape, NetworkAfter, NetworksHaveLinks
  <2>2. CASE t # <<>>
    <3>1. Len(t) # 0
      BY <1>3, <2>2, EmptySeq
    <3>2. t[Len(t)] = q[Len(q)]
      BY <1>3, <3>1
    <3>3. Latest(q[Len(q)])
      BY <1>4
    <3> QED BY <1>2, <2>2, <3>2, <3>3 DEF Latest, t
  <2> QED BY <2>1, <2>2
<1>9. InOrder(events)'
  BY <1>5, <1>6, <1>7 DEF InOrder, t
<1>10. CallbacksInOrder'
  BY <1>8, <1>9 DEF CallbacksInOrder, t
<1> QED BY <1>2, <1>10 DEF QueueInv, UninitializedKnowsNothing

-----------------------------------------------------------------------------
(* What the system adds to the queue, and how it stays in order.           *)

\* One more callback that follows the last one, or what the detector knows.
LEMMA InOrderAppend ==
    ASSUME NEW q \in Seq(Events), NEW e \in Events, InOrder(q), Shape(e),
           q = <<>> => Expected(e),
           q # <<>> => Consecutive(q[Len(q)], e)
    PROVE  InOrder(Append(q, e)) /\ Append(q, e) # <<>>
<1> DEFINE t == Append(q, e)
<1>1. /\ t \in Seq(Events) /\ Len(q) \in Nat
      /\ DOMAIN q = 1..Len(q) /\ DOMAIN t = 1..(Len(q) + 1)
      /\ \A i \in 1..Len(q) : t[i] = q[i]
      /\ t[Len(q) + 1] = e
      /\ t # <<>>
  BY AppendProperties, LenProperties
<1> HIDE DEF t
<1>2. \A i \in DOMAIN t : Shape(t[i])
  <2> SUFFICES ASSUME NEW i \in DOMAIN t PROVE Shape(t[i])
    OBVIOUS
  <2>1. CASE i \in 1..Len(q)
    BY <1>1, <2>1 DEF InOrder
  <2>2. CASE i = Len(q) + 1
    BY <1>1, <2>2
  <2> QED BY <1>1, <2>1, <2>2
<1>3. \A i \in DOMAIN t : i + 1 \in DOMAIN t => Consecutive(t[i], t[i + 1])
  <2> SUFFICES ASSUME NEW i \in DOMAIN t, i + 1 \in DOMAIN t PROVE Consecutive(t[i], t[i + 1])
    OBVIOUS
  <2> DEFINE j == i + 1
  <2>1. CASE j \in 1..Len(q)
    <3>1. i \in DOMAIN q /\ j \in DOMAIN q /\ t[i] = q[i] /\ t[j] = q[j]
      BY <1>1, <2>1
    <3> QED BY <3>1 DEF InOrder
  <2>2. CASE j = Len(q) + 1
    <3>1. i = Len(q) /\ i \in 1..Len(q) /\ q # <<>>
      BY <1>1, <2>2
    <3>2. t[i] = q[Len(q)] /\ t[j] = e
      BY <1>1, <2>2, <3>1
    <3> QED BY <3>1, <3>2
  <2> QED BY <1>1, <2>1, <2>2
<1>4. Expected(t[1])
  <2>1. CASE q = <<>>
    <3>1. Len(q) = 0
      BY <2>1
    <3>2. t[1] = e
      BY <1>1, <3>1
    <3> QED BY <2>1, <3>2
  <2>2. CASE q # <<>>
    <3>1. Len(q) # 0
      BY <2>2, EmptySeq
    <3>2. t[1] = q[1]
      BY <1>1, <3>1
    <3> QED BY <2>2, <3>2 DEF InOrder
  <2> QED BY <2>1, <2>2
<1> QED BY <1>1, <1>2, <1>3, <1>4 DEF InOrder, t

\* A change adds its callbacks at the end: one, or the announcement of a network.
LEMMA ChangeAdds ==
    ASSUME TypeOK, NetworksHaveLinks, QueueInv, ~legacy,
           NetworkAppears \/ NetworkLost \/ LinkChanges
    PROVE  \E e \in Events :
             /\ \/ events' = Append(events, e) /\ e.kind # "available"
                \/ /\ e.kind = "available"
                   /\ \E f \in Events : /\ events' = Append(Append(events, e), f)
                                        /\ f.kind = "link"
             /\ InOrder(events')
             /\ events' # <<>>
             /\ Latest(events[Len(events)])'
             /\ NetworkAppears => e.kind = "available"
             /\ LinkChanges => e.kind = "link"
<1> USE NetworkAssumption
<1>1. events \in Seq(Events) /\ InOrder(events)
  BY DEF TypeOK, QueueInv, CallbacksInOrder
<1>2. events = <<>> => activeNetwork = network /\ linkFingerprint = link
  BY DEF QueueInv, CallbacksInOrder
<1>3. events # <<>> => Latest(events[Len(events)]) /\ Shape(events[Len(events)])
  <2> SUFFICES ASSUME events # <<>> PROVE Latest(events[Len(events)]) /\ Shape(events[Len(events)])
    OBVIOUS
  <2>1. Len(events) \in DOMAIN events
    BY <1>1, Deliver
  <2> QED BY <2>1 DEF QueueInv, CallbacksInOrder, InOrder
<1> DEFINE z == events[Len(events)]
<1>4. CASE NetworkAppears
  <2>1. PICK n \in Networks \ {network}, l \in Links :
           network' = n /\ link' = l /\ events' = events \o Announcement(n, l)
    BY <1>4 DEF NetworkAppears
  <2> DEFINE a == Event("available", n, Nothing)
             f == Event("link", n, l)
  <2>2. /\ a \in Events /\ f \in Events /\ Shape(a) /\ Shape(f) /\ Consecutive(a, f)
        /\ a.kind = "available" /\ f.kind = "link" /\ a.network = n /\ f.network = n /\ f.link = l
    BY DEF Event, Events, Shape, Consecutive, NetworkAfter
  <2>3. events' = events \o <<a, f>>
    BY <2>1 DEF Announcement
  <2> HIDE DEF a, f
  <2>4. events' = Append(Append(events, a), f)
    BY <1>1, <2>2, <2>3
  <2>5. InOrder(Append(events, a)) /\ Append(events, a) # <<>>
    <3>1. events = <<>> => Expected(a)
      BY <1>2, <2>2 DEF Expected
    <3>2. events # <<>> => Consecutive(z, a)
      <4> HIDE DEF z
      <4> QED BY <1>3, <2>2 DEF Consecutive, Latest, z
    <3> HIDE DEF z
    <3> QED BY <1>1, <2>2, <3>1, <3>2, InOrderAppend DEF z
  <2>6. Append(events, a) \in Seq(Events) /\ Append(events, a)[Len(Append(events, a))] = a
    BY <1>1, <2>2, AppendProperties
  <2>7. InOrder(events') /\ events' # <<>>
    BY <2>2, <2>4, <2>5, <2>6, InOrderAppend
  <2>8. Latest(events[Len(events)])'
    <3>1. events'[Len(events')] = f
      BY <2>2, <2>4, <2>6, AppendProperties
    <3> QED BY <2>1, <2>2, <3>1 DEF Latest, NetworkAfter
  <2>9. ~LinkChanges
    BY <1>4, <2>1 DEF LinkChanges
  <2> QED BY <1>4, <2>2, <2>4, <2>7, <2>8, <2>9
<1>5. CASE NetworkLost \/ LinkChanges
  <2> DEFINE e == IF LinkChanges THEN Event("link", network, link') ELSE Event("lost", network, Nothing)
  <2>1. /\ network \in Networks /\ link \in Links
        /\ events' = Append(events, e)
        /\ LinkChanges => /\ link' \in Links /\ link' # link
                          /\ network' = network
        /\ ~LinkChanges => network' = Nothing
    BY <1>5 DEF NetworkLost, LinkChanges, TypeOK, NetworksHaveLinks
  <2>2. /\ e \in Events /\ e.network = network
        /\ e.kind = IF LinkChanges THEN "link" ELSE "lost"
        /\ LinkChanges => e.link = link'
    BY <2>1 DEF Event, Events
  <2> HIDE DEF e
  <2>3. Shape(e)
    BY <2>1, <2>2 DEF Shape
  <2>4. events = <<>> => Expected(e)
    BY <1>2, <2>1, <2>2 DEF Expected
  <2>5. events # <<>> => Consecutive(z, e)
    <3> SUFFICES ASSUME events # <<>> PROVE Consecutive(z, e)
      OBVIOUS
    <3>1. Latest(z) /\ Shape(z)
      BY <1>3
    <3> HIDE DEF z
    <3>2. NetworkAfter(z) = network /\ z.kind # "available" /\ z.kind # "lost" /\ z.kind = "link" /\ z.link = link
      BY <2>1, <3>1 DEF Latest, Shape, NetworkAfter
    <3> QED BY <2>1, <2>2, <3>2 DEF Consecutive
  <2>6. InOrder(events') /\ events' # <<>>
    <3> HIDE DEF z
    <3> QED BY <1>1, <2>1, <2>2, <2>3, <2>4, <2>5, InOrderAppend DEF z
  <2>7. Latest(events[Len(events)])'
    <3>1. events'[Len(events')] = e
      BY <1>1, <2>1, <2>2, AppendProperties
    <3> QED BY <2>1, <2>2, <3>1 DEF Latest, NetworkAfter
  <2>8. e.kind # "available" /\ (NetworkAppears => e.kind = "available")
    <3>1. NetworkAppears => network' # network /\ network' \in Networks
      BY DEF NetworkAppears
    <3> QED BY <2>1, <2>2, <3>1
  <2> QED BY <2>1, <2>2, <2>6, <2>7, <2>8
<1> QED BY <1>4, <1>5

\* The version of Android stays what it is.
LEMMA StepLegacy == [Next]_vars => UNCHANGED legacy
  BY DEF Next, vars, systemVars, Callback, OnAvailable, OnLinkPropertiesChanged, OnLost,
         HandleLegacyNetworkChange, SettleWindowEnds, StartProxy, RestartProxy,
         NetworkAppears, NetworkLost, LinkChanges, Undisturbed

\* Every step leaves the callbacks in order.
LEMMA StepQueueInv ==
    ASSUME TypeOK, NetworksHaveLinks, QueueInv, [Next]_vars
    PROVE  QueueInv'
<1> USE NetworkAssumption
<1>1. CASE legacy
  <2>1. events \in Seq(Events) /\ UNCHANGED legacy
    BY StepLegacy DEF TypeOK
  <2> SUFFICES \A i \in DOMAIN events' : events'[i].kind = "broadcast"
    BY <1>1, <2>1 DEF QueueInv
  <2> DEFINE b == Event("broadcast", Nothing, Nothing)
  <2>2. b \in Events /\ b.kind = "broadcast"
    BY DEF Event, Events
  <2>3. \A i \in DOMAIN events : events[i].kind = "broadcast"
    BY <1>1 DEF QueueInv
  <2>4. CASE Callback
    <3>1. events # <<>> /\ events' = Tail(events)
      BY <2>4 DEF Callback, OnAvailable, OnLinkPropertiesChanged, OnLost, HandleLegacyNetworkChange, Delivered
    <3>2. /\ DOMAIN events = 1..Len(events) /\ Len(events) \in Nat
          /\ DOMAIN events' = 1..(Len(events) - 1)
          /\ \A i \in 1..(Len(events) - 1) : events'[i] = events[i + 1]
      BY <2>1, <3>1, Deliver
    <3> QED BY <2>3, <3>2
  <2>5. CASE events' = events
    BY <2>3, <2>5
  <2>6. CASE events' = Append(events, b)
    <3> HIDE DEF b
    <3>1. /\ DOMAIN events' = 1..(Len(events) + 1) /\ DOMAIN events = 1..Len(events)
          /\ \A i \in 1..Len(events) : events'[i] = events[i]
          /\ events'[Len(events) + 1] = b
          /\ Len(events) \in Nat
      BY <2>1, <2>2, <2>6, AppendProperties, LenProperties
    <3> QED BY <2>2, <2>3, <3>1
  <2>7. NetworkAppears => events' = Append(events, b)
    <3> SUFFICES ASSUME NetworkAppears PROVE events' = Append(events, b)
      OBVIOUS
    <3>1. events' = events \o <<b>>
      BY <1>1 DEF NetworkAppears, Announcement
    <3> HIDE DEF b
    <3> QED BY <2>1, <2>2, <3>1
  <2>8. NetworkLost => events' = Append(events, b)
    BY <1>1 DEF NetworkLost
  <2>9. SettleWindowEnds \/ StartProxy \/ RestartProxy \/ LinkChanges \/ UNCHANGED vars => events' = events
    BY <1>1 DEF SettleWindowEnds, StartProxy, RestartProxy, LinkChanges, vars, systemVars
  <2> QED BY <2>4, <2>5, <2>6, <2>7, <2>8, <2>9 DEF Next
<1>2. CASE ~legacy
  <2>1. CASE Callback
    BY <1>2, <2>1, DeliveredInOrder
  <2>2. CASE SettleWindowEnds \/ StartProxy \/ RestartProxy \/ UNCHANGED vars
    <3>1. UNCHANGED <<network, link, events, legacy, initialized, activeNetwork, linkFingerprint, requests>>
      BY <2>2 DEF SettleWindowEnds, StartProxy, RestartProxy, vars, systemVars, detectorVars
    <3> QED BY <3>1 DEF QueueInv, CallbacksInOrder, UninitializedKnowsNothing, InOrder, Expected, Latest
  <2>3. CASE NetworkAppears \/ NetworkLost \/ LinkChanges
    <3>1. InOrder(events') /\ events' # <<>> /\ Latest(events[Len(events)])'
      BY <1>2, <2>3, ChangeAdds
    <3>2. UNCHANGED <<legacy, initialized, activeNetwork, linkFingerprint, requests>>
      BY <2>3 DEF NetworkAppears, NetworkLost, LinkChanges, Undisturbed, detectorVars
    <3>3. InOrder(events)'
      BY <3>1, <3>2 DEF InOrder, Expected
    <3>4. CallbacksInOrder'
      BY <3>1, <3>3 DEF CallbacksInOrder
    <3>5. UninitializedKnowsNothing'
      BY <1>2, <3>2 DEF QueueInv, UninitializedKnowsNothing
    <3> QED BY <1>2, <3>2, <3>4, <3>5 DEF QueueInv
  <2> QED BY <2>1, <2>2, <2>3 DEF Next
<1> QED BY <1>1, <1>2

\* The announcement of the network there is at the start is in order.
LEMMA InitQueueInv == Init => QueueInv
<1> SUFFICES ASSUME Init PROVE QueueInv
  OBVIOUS
<1> USE NetworkAssumption
<1>1. CASE legacy
  <2>1. events = <<>> \/ events = <<Event("broadcast", Nothing, Nothing)>>
    BY <1>1 DEF Init, Announcement
  <2> QED BY <1>1, <2>1 DEF QueueInv, Event
<1>2. CASE ~legacy
  <2>1. /\ initialized = FALSE /\ activeNetwork = Nothing /\ linkFingerprint = Nothing
        /\ requests = 0
    BY <1>2 DEF Init
  <2>2. CASE network = Nothing /\ link = Nothing /\ events = <<>>
    BY <1>2, <2>1, <2>2 DEF QueueInv, CallbacksInOrder, InOrder, UninitializedKnowsNothing
  <2>3. CASE network \in Networks /\ link \in Links /\ events = Announcement(network, link)
    <3> DEFINE a == Event("available", network, Nothing)
               f == Event("link", network, link)
    <3>1. /\ Shape(a) /\ Shape(f) /\ Consecutive(a, f) /\ Expected(a) /\ Latest(f)
      BY <2>1, <2>3 DEF Event, Shape, Consecutive, Expected, Latest, NetworkAfter
    <3>2. events = <<a, f>>
      BY <1>2, <2>3 DEF Announcement
    <3> HIDE DEF a, f
    <3>3. /\ DOMAIN events = {1, 2} /\ Len(events) = 2 /\ events[1] = a /\ events[2] = f
          /\ events # <<>>
      BY <3>2
    <3>4. \A i \in DOMAIN events : i + 1 \in DOMAIN events => i = 1 /\ i + 1 = 2
      BY <3>3
    <3>5. InOrder(events)
      BY <3>1, <3>3, <3>4 DEF InOrder
    <3> QED BY <1>2, <2>1, <3>1, <3>3, <3>5 DEF QueueInv, CallbacksInOrder, UninitializedKnowsNothing
  <2> QED BY <2>2, <2>3 DEF Init
<1> QED BY <1>1, <1>2

\* Every variable stays in its type (TypeOK).
THEOREM TypeCorrect == Spec => []TypeOK
<1> DEFINE Inv == TypeOK /\ NetworksHaveLinks /\ QueueInv
<1>1. Init => Inv
  BY InitTypeOK, InitQueueInv
<1>2. Inv /\ [Next]_vars => Inv'
  BY StepTypeOK, StepQueueInv
<1> QED BY <1>1, <1>2, PTL DEF Spec

-----------------------------------------------------------------------------
(* Which callbacks can request a restart, before and after a step.         *)

\* A delivery moves the others one place forward.
LEMMA DeliveredCounts ==
    ASSUME TypeOK, NetworksHaveLinks, QueueInv, ~legacy, Callback
    PROVE  /\ DOMAIN events \subseteq Nat \ {0} /\ DOMAIN events' \subseteq Nat \ {0}
           /\ 1 \in DOMAIN events
           /\ \A j \in DOMAIN events \ {1} : j - 1 \in DOMAIN events'
           /\ \A i \in DOMAIN events' : /\ i + 1 \in DOMAIN events
                                        /\ events'[i] = events[i + 1]
                                        /\ Counts(i)' <=> Counts(i + 1)
<1> USE NetworkAssumption
<1>1. events \in Seq(Events)
  BY DEF TypeOK
<1>2. /\ events # <<>> /\ events' = Tail(events)
      /\ initialized'
      /\ linkFingerprint' = IF events[1].kind = "link" THEN events[1].link ELSE Nothing
  BY Delivers
<1>3. /\ Len(events) \in Nat \ {0} /\ DOMAIN events = 1..Len(events)
      /\ DOMAIN events' = 1..(Len(events) - 1)
      /\ \A i \in 1..(Len(events) - 1) : events'[i] = events[i + 1]
  BY <1>1, <1>2, Deliver
<1>4. ASSUME NEW i \in DOMAIN events'
      PROVE  Counts(i)' <=> Counts(i + 1)
  <2> DEFINE j == i + 1
  <2>1. /\ i \in DOMAIN events /\ j \in DOMAIN events /\ events'[i] = events[j] /\ j > 1 /\ j - 1 = i
        /\ i > 1 => events'[i - 1] = events[i] /\ i \in Nat
    BY <1>3
  <2>2. CASE i > 1
    <3> HIDE DEF j
    <3> QED BY <1>2, <2>1, <2>2 DEF Counts
  <2>3. CASE i = 1
    <3>1. Consecutive(events[i], events[j]) /\ Shape(events[i]) /\ Shape(events[j])
      BY <2>1 DEF QueueInv, CallbacksInOrder, InOrder
    <3> HIDE DEF j
    <3>2. Counts(j) <=> \/ events[j].kind = "available"
                        \/ events[j].kind = "link" /\ events[i].kind # "available"
      BY <2>1, <2>3 DEF Counts
    <3>3. Counts(i)' <=> \/ events[j].kind = "available"
                         \/ events[j].kind = "link" /\ linkFingerprint' # Nothing
      BY <1>2, <2>1, <2>3 DEF Counts
    <3>4. events[j].kind = "link" => (linkFingerprint' # Nothing <=> events[i].kind # "available")
      <4> DEFINE a == events[i]
                 f == events[j]
      <4>1. linkFingerprint' = IF a.kind = "link" THEN a.link ELSE Nothing
        BY <1>2, <2>3
      <4>2. Consecutive(a, f) /\ Shape(a) /\ Shape(f)
        BY <3>1
      <4> HIDE DEF a, f
      <4>3. f.kind = "link" => (linkFingerprint' # Nothing <=> a.kind # "available")
        BY <4>1, <4>2 DEF Consecutive, Shape, NetworkAfter
      <4> QED BY <4>3 DEF a, f
    <3>5. Counts(i)' <=> Counts(j)
      BY <3>2, <3>3, <3>4
    <3> QED BY <3>5 DEF j
  <2> QED BY <1>3, <2>2, <2>3
<1> QED BY <1>3, <1>4

\* A change leaves those on their way alone, and adds one that counts at most:
\* the first that it adds.
LEMMA AddedCounts ==
    ASSUME TypeOK, NetworksHaveLinks, QueueInv, ~legacy,
           NetworkAppears \/ NetworkLost \/ LinkChanges
    PROVE  /\ Len(events) \in Nat /\ DOMAIN events = 1..Len(events)
           /\ Len(events) + 1 \in DOMAIN events' /\ DOMAIN events' \subseteq Nat \ {0}
           /\ \A i \in DOMAIN events : /\ i \in DOMAIN events'
                                       /\ events'[i] = events[i]
                                       /\ Counts(i)' <=> Counts(i)
           /\ \A i \in DOMAIN events' : Counts(i)' => i <= Len(events) + 1
           /\ NetworkAppears => events'[Len(events) + 1].kind = "available"
           /\ LinkChanges => events'[Len(events) + 1].kind = "link"
<1>1. events \in Seq(Events)
  BY DEF TypeOK
<1>2. PICK e \in Events :
          /\ \/ events' = Append(events, e) /\ e.kind # "available"
             \/ /\ e.kind = "available"
                /\ \E f \in Events : /\ events' = Append(Append(events, e), f)
                                     /\ f.kind = "link"
          /\ NetworkAppears => e.kind = "available"
          /\ LinkChanges => e.kind = "link"
  BY ChangeAdds
<1>3. /\ Len(events) \in Nat /\ DOMAIN events = 1..Len(events)
      /\ DOMAIN events' \in {1..(Len(events) + 1), 1..(Len(events) + 2)}
      /\ \A i \in 1..Len(events) : events'[i] = events[i]
      /\ events'[Len(events) + 1] = e
      /\ Len(events) + 2 \in DOMAIN events' => events'[Len(events) + 2].kind = "link" /\ e.kind = "available"
  <2>1. CASE events' = Append(events, e)
    BY <1>1, <2>1, AppendProperties, LenProperties
  <2>2. CASE e.kind = "available"
    <3>0. PICK f \in Events : events' = Append(Append(events, e), f) /\ f.kind = "link"
      BY <1>2, <2>2
    <3> DEFINE t == Append(events, e)
    <3>1. /\ t \in Seq(Events) /\ Len(t) = Len(events) + 1 /\ Len(events) \in Nat
          /\ DOMAIN events = 1..Len(events)
          /\ \A i \in 1..Len(events) : t[i] = events[i]
          /\ t[Len(events) + 1] = e
      BY <1>1, AppendProperties, LenProperties
    <3> HIDE DEF t
    <3>2. /\ DOMAIN events' = 1..(Len(t) + 1)
          /\ \A i \in 1..Len(t) : events'[i] = t[i]
          /\ events'[Len(t) + 1] = f
      BY <3>0, <3>1, AppendProperties, LenProperties DEF t
    <3> QED BY <2>2, <3>0, <3>1, <3>2
  <2> QED BY <1>2, <2>1, <2>2
<1>4. UNCHANGED <<initialized, linkFingerprint>>
  BY DEF NetworkAppears, NetworkLost, LinkChanges, Undisturbed, detectorVars
<1>5. ASSUME NEW i \in DOMAIN events
      PROVE  Counts(i)' <=> Counts(i)
  <2>1. events'[i] = events[i] /\ (i # 1 => events'[i - 1] = events[i - 1])
    BY <1>3
  <2> QED BY <1>4, <2>1 DEF Counts
<1>6. ASSUME NEW i \in DOMAIN events', Counts(i)'
      PROVE  i <= Len(events) + 1
  <2> SUFFICES ASSUME i = Len(events) + 2 PROVE FALSE
    BY <1>3
  <2>1. i # 1 /\ i - 1 = Len(events) + 1
    BY <1>3
  <2>2. events'[i].kind = "link" /\ events'[i - 1].kind = "available"
    BY <1>3, <2>1
  <2> QED BY <1>6, <2>1, <2>2 DEF Counts
<1> QED BY <1>2, <1>3, <1>5, <1>6

-----------------------------------------------------------------------------
(* Restarts requested, and the tunnel.                                     *)

\* The steps that are neither a callback nor a change touch neither the queue
\* nor what the detector knows.
LEMMA OtherSteps ==
    ASSUME SettleWindowEnds \/ StartProxy \/ RestartProxy \/ UNCHANGED vars
    PROVE  UNCHANGED <<network, link, events, changes, legacy, initialized, activeNetwork,
                       linkFingerprint, requests>>
  BY DEF SettleWindowEnds, StartProxy, RestartProxy, vars, systemVars, detectorVars

\* Every step keeps the requests behind the changes: from Android N on.
LEMMA StepRequests ==
    ASSUME TypeOK, NetworksHaveLinks, QueueInv, RequestsInv, ~legacy, [Next]_vars
    PROVE  RequestsInv'
<1>1. requests \in Nat /\ changes \in Nat
  BY NetworkAssumption DEF TypeOK
<1>2. PICK c \in [DOMAIN events -> Nat] : Numbers(c)
  BY DEF RequestsInv
<1>3. CASE Callback
  <2>1. /\ UNCHANGED <<changes, legacy>>
        /\ (RequestRestart /\ Counts(1)) \/ NoRequest
    BY <1>3, Delivers
  <2>2. requests' = requests \/ (requests' = requests + 1 /\ Counts(1))
    BY <2>1 DEF RequestRestart, NoRequest
  <2>3. /\ DOMAIN events' \subseteq Nat \ {0} /\ 1 \in DOMAIN events
        /\ \A i \in DOMAIN events' : /\ i + 1 \in DOMAIN events
                                     /\ events'[i] = events[i + 1]
                                     /\ Counts(i)' <=> Counts(i + 1)
    BY <1>3, DeliveredCounts
  <2>4. PICK d \in [DOMAIN events' -> Nat] : \A i \in DOMAIN events' : d[i] = c[i + 1]
    <3> DEFINE b == [i \in DOMAIN events' |-> c[i + 1]]
    <3>1. b \in [DOMAIN events' -> Nat] /\ \A i \in DOMAIN events' : b[i] = c[i + 1]
      BY <2>3
    <3> QED BY <3>1
  <2>5. ASSUME NEW i \in DOMAIN events', Counts(i)'
        PROVE  requests' < d[i] /\ d[i] <= changes'
    <3> DEFINE k == i + 1
    <3>1. k \in DOMAIN events /\ Counts(k) /\ d[i] = c[k] /\ 1 < k
      BY <2>3, <2>4, <2>5
    <3>2. c[k] \in Nat /\ c[1] \in Nat
      BY <1>2, <2>3, <3>1
    <3> HIDE DEF k
    <3>3. requests < c[k] /\ c[k] <= changes
      BY <1>2, <3>1 DEF Numbers
    <3>4. Counts(1) => requests < c[1] /\ c[1] < c[k]
      BY <1>2, <2>3, <3>1 DEF Numbers
    <3> QED BY <1>1, <2>1, <2>2, <3>1, <3>2, <3>3, <3>4
  <2>6. ASSUME NEW i \in DOMAIN events', NEW j \in DOMAIN events', Counts(i)', Counts(j)', i < j
        PROVE  d[i] < d[j]
    <3> DEFINE k == i + 1
               m == j + 1
    <3>1. /\ k \in DOMAIN events /\ m \in DOMAIN events /\ Counts(k) /\ Counts(m)
          /\ d[i] = c[k] /\ d[j] = c[m] /\ k < m
      BY <2>3, <2>4, <2>6
    <3> HIDE DEF k, m
    <3> QED BY <1>2, <3>1 DEF Numbers
  <2>7. Numbers(d)'
    BY <2>5, <2>6 DEF Numbers
  <2>8. requests' <= changes'
    <3>1. Counts(1) => requests < c[1] /\ c[1] <= changes
      BY <1>2, <2>3 DEF Numbers
    <3>2. c[1] \in Nat /\ requests <= changes
      BY <1>2, <2>3 DEF RequestsInv
    <3> QED BY <1>1, <2>1, <2>2, <3>1, <3>2
  <2> QED BY <2>1, <2>4, <2>7, <2>8 DEF RequestsInv
<1>4. CASE NetworkAppears \/ NetworkLost \/ LinkChanges
  <2>1. UNCHANGED <<legacy, requests>> /\ changes' = changes + 1
    BY <1>4 DEF NetworkAppears, NetworkLost, LinkChanges, Undisturbed, Change
  <2>2. requests <= changes
    BY DEF RequestsInv
  <2>3. /\ Len(events) \in Nat /\ DOMAIN events = 1..Len(events)
        /\ DOMAIN events' \subseteq Nat \ {0}
        /\ \A i \in DOMAIN events : /\ i \in DOMAIN events'
                                    /\ events'[i] = events[i]
                                    /\ Counts(i)' <=> Counts(i)
        /\ \A i \in DOMAIN events' : Counts(i)' => i <= Len(events) + 1
    BY <1>4, AddedCounts
  <2>4. PICK d \in [DOMAIN events' -> Nat] :
           /\ \A i \in DOMAIN events : d[i] = c[i] /\ c[i] \in Nat
           /\ \A i \in DOMAIN events' : i \notin DOMAIN events => d[i] = changes + 1
    <3> DEFINE b == [i \in DOMAIN events' |-> IF i \in DOMAIN events THEN c[i] ELSE changes + 1]
    <3>1. /\ b \in [DOMAIN events' -> Nat]
          /\ \A i \in DOMAIN events : b[i] = c[i] /\ c[i] \in Nat
          /\ \A i \in DOMAIN events' : i \notin DOMAIN events => b[i] = changes + 1
      BY <1>1, <1>2, <2>3
    <3> QED BY <3>1
  <2>5. ASSUME NEW i \in DOMAIN events', Counts(i)'
        PROVE  requests' < d[i] /\ d[i] <= changes'
    <3>1. CASE i \in DOMAIN events
      <4>1. requests < c[i] /\ c[i] <= changes /\ d[i] = c[i] /\ c[i] \in Nat
        BY <1>2, <2>3, <2>4, <2>5, <3>1 DEF Numbers
      <4> QED BY <1>1, <2>1, <4>1
    <3>2. CASE i \notin DOMAIN events
      BY <1>1, <2>1, <2>2, <2>4, <3>2
    <3> QED BY <3>1, <3>2
  <2>6. ASSUME NEW i \in DOMAIN events', NEW j \in DOMAIN events', Counts(i)', Counts(j)', i < j
        PROVE  d[i] < d[j]
    <3>1. i \in DOMAIN events
      BY <2>3, <2>6
    <3>2. d[i] = c[i] /\ c[i] \in Nat /\ c[i] <= changes /\ Counts(i)
      BY <1>2, <2>3, <2>4, <2>6, <3>1 DEF Numbers
    <3>3. CASE j \in DOMAIN events
      BY <1>2, <2>3, <2>4, <2>6, <3>1, <3>2, <3>3 DEF Numbers
    <3>4. CASE j \notin DOMAIN events
      BY <1>1, <2>4, <3>2, <3>4
    <3> QED BY <3>3, <3>4
  <2>7. Numbers(d)'
    BY <2>5, <2>6 DEF Numbers
  <2>8. requests' <= changes'
    BY <1>1, <2>1, <2>2
  <2> QED BY <2>1, <2>4, <2>7, <2>8 DEF RequestsInv
<1>5. CASE SettleWindowEnds \/ StartProxy \/ RestartProxy \/ UNCHANGED vars
  <2>1. UNCHANGED <<events, changes, legacy, initialized, linkFingerprint, requests>>
    BY <1>5, OtherSteps
  <2>2. Numbers(c)'
    BY <1>2, <2>1 DEF Numbers, Counts
  <2> QED BY <1>2, <2>1, <2>2 DEF RequestsInv
<1> QED BY <1>3, <1>4, <1>5 DEF Next

\* The same before N: the handler requests only for what changed.
LEMMA StepLegacyRequests ==
    ASSUME TypeOK, QueueInv, RequestsInv, legacy, [Next]_vars
    PROVE  RequestsInv'
<1>1. requests \in Nat /\ changes \in Nat /\ requests <= changes
  BY NetworkAssumption DEF TypeOK, RequestsInv
<1>2. UNCHANGED legacy
  BY StepLegacy
<1>3. CASE Callback
  <2>1. events # <<>> /\ Head(events).kind = "broadcast"
    <3>1. events # <<>>
      BY <1>3 DEF Callback, OnAvailable, OnLinkPropertiesChanged, OnLost, HandleLegacyNetworkChange, Delivered
    <3>2. Head(events) = events[1] /\ 1 \in DOMAIN events
      BY <3>1, Deliver DEF TypeOK
    <3> QED BY <3>1, <3>2 DEF QueueInv
  <2>2. HandleLegacyNetworkChange
    BY <1>3, <2>1 DEF Callback, OnAvailable, OnLinkPropertiesChanged, OnLost, Delivered
  <2>3. UNCHANGED <<network, link, changes>>
    BY <2>2 DEF HandleLegacyNetworkChange
  <2>4. ~ChangedSinceLooked' \/ (NoRequest /\ (ChangedSinceLooked' => ChangedSinceLooked))
    <3>1. CASE network = Nothing
      BY <2>2, <2>3, <3>1 DEF HandleLegacyNetworkChange, ChangedSinceLooked, detectorVars
    <3>2. CASE network # Nothing /\ RememberLink(network, link)
      BY <2>3, <3>2 DEF RememberLink, ChangedSinceLooked
    <3>3. CASE network # Nothing /\ RememberNetwork(network)
      <4>1. NetworkDiffers(network) \/ ~initialized => ~ChangedSinceLooked'
        BY <2>3, <3>3 DEF RememberNetwork, NetworkDiffers, ChangedSinceLooked
      <4>2. ~NetworkDiffers(network) => RememberLink(network, link) \/ NoRequest
        BY <2>2, <3>3 DEF HandleLegacyNetworkChange
      <4>3. initialized /\ ~NetworkDiffers(network) =>
              (ChangedSinceLooked' => ChangedSinceLooked)
        BY <2>3, <3>3 DEF RememberNetwork, NetworkDiffers, ChangedSinceLooked
      <4> QED BY <3>2, <3>3, <4>1, <4>2, <4>3
    <3> QED BY <2>2, <3>1, <3>2, <3>3 DEF HandleLegacyNetworkChange
  <2>5. requests' = requests \/ (requests' = requests + 1 /\ ChangedSinceLooked)
    <3>1. NoRequest \/ (RequestRestart /\ network # Nothing /\ (NetworkDiffers(network) \/ LinkDiffers(network, link)))
      BY <2>2 DEF HandleLegacyNetworkChange, LinkVerdict
    <3>2. RequestRestart => ChangedSinceLooked \/ NoRequest
      <4>1. NetworkDiffers(network) \/ LinkDiffers(network, link) =>
              (network # Nothing => ChangedSinceLooked)
        BY DEF NetworkDiffers, LinkDiffers, ChangedSinceLooked
      <4> QED BY <3>1, <4>1
    <3> QED BY <3>1, <3>2 DEF RequestRestart, NoRequest
  <2>6. requests' <= changes'
    BY <1>1, <2>3, <2>5 DEF RequestsInv
  <2>7. ChangedSinceLooked' => requests' < changes'
    BY <1>1, <2>3, <2>4 DEF RequestsInv, NoRequest
  <2> QED BY <1>2, <2>6, <2>7 DEF RequestsInv
<1>4. CASE NetworkAppears \/ NetworkLost \/ LinkChanges
  <2>1. UNCHANGED requests /\ changes' = changes + 1
    BY <1>4 DEF NetworkAppears, NetworkLost, LinkChanges, Undisturbed, Change
  <2> QED BY <1>1, <1>2, <2>1 DEF RequestsInv
<1>5. CASE SettleWindowEnds \/ StartProxy \/ RestartProxy \/ UNCHANGED vars
  <2>1. UNCHANGED <<network, link, changes, legacy, initialized, activeNetwork, linkFingerprint, requests>>
    BY <1>5, OtherSteps
  <2> QED BY <2>1 DEF RequestsInv, ChangedSinceLooked
<1> QED BY <1>3, <1>4, <1>5 DEF Next

\* Nothing was requested at the start, and the announcement does not count.
LEMMA InitRequests == Init => RequestsInv
<1> SUFFICES ASSUME Init PROVE RequestsInv
  OBVIOUS
<1>1. requests = 0 /\ changes = 0
  BY DEF Init
<1>2. legacy => ~ChangedSinceLooked
  BY DEF Init, ChangedSinceLooked
<1>3. ASSUME ~legacy
      PROVE  \E c \in [DOMAIN events -> Nat] : Numbers(c)
  <2> DEFINE c == [i \in DOMAIN events |-> 0]
  <2>1. ~initialized /\ linkFingerprint = Nothing
    BY <1>3 DEF Init
  <2>2. \A i \in DOMAIN events : ~Counts(i)
    <3>1. CASE events = <<>>
      BY <3>1
    <3>2. CASE events = Announcement(network, link)
      <4> DEFINE a == Event("available", network, Nothing)
                 f == Event("link", network, link)
      <4>1. a.kind = "available" /\ f.kind = "link"
        BY DEF Event
      <4>2. events = <<a, f>>
        BY <1>3, <3>2 DEF Announcement
      <4> HIDE DEF a, f
      <4>3. /\ \A i \in DOMAIN events : i = 1 \/ i = 2
            /\ events[1] = a /\ events[2] = f
        BY <4>2
      <4>4. ~Counts(1)
        BY <2>1, <4>1, <4>3 DEF Counts
      <4>5. ~Counts(2)
        BY <4>1, <4>3 DEF Counts
      <4> QED BY <4>3, <4>4, <4>5
    <3> QED BY <3>1, <3>2 DEF Init
  <2>3. c \in [DOMAIN events -> Nat]
    OBVIOUS
  <2> QED BY <2>2, <2>3 DEF Numbers
<1> QED BY <1>1, <1>2, <1>3 DEF RequestsInv

\* A change is answered by at most one restart, and the network present from
\* the start by none (OneRestartPerChange), however many callbacks tell of it
\* and however late they come.
THEOREM OneRestartForEachChange == Spec => []OneRestartPerChange
<1> DEFINE Inv == TypeOK /\ NetworksHaveLinks /\ QueueInv /\ RequestsInv
<1>1. Init => Inv
  BY InitTypeOK, InitQueueInv, InitRequests
<1>2. Inv /\ [Next]_vars => Inv'
  BY StepTypeOK, StepQueueInv, StepRequests, StepLegacyRequests
<1>3. Inv => OneRestartPerChange
  BY DEF RequestsInv, OneRestartPerChange
<1> QED BY <1>1, <1>2, <1>3, PTL DEF Spec

\* A callback that counts brings the restart, or a link change the gate keeps
\* back; after any other, what was to come is still to come.
LEMMA CallbackKeepsTunnel ==
    ASSUME TypeOK, NetworksHaveLinks, QueueInv, TunnelInv, ~legacy, Callback
    PROVE  TunnelInv'
<1>1. /\ UNCHANGED <<network, link, legacy, wanted, tunnel>> /\ initialized'
      /\ \/ RequestRestart
         \/ NoRequest /\ ~Counts(1) /\ UNCHANGED coalesced
         \/ NoRequest /\ Counts(1) /\ events[1].kind = "link" /\ coalesced'
  BY Delivers
<1>2. /\ DOMAIN events \subseteq Nat \ {0} /\ 1 \in DOMAIN events
      /\ \A j \in DOMAIN events \ {1} : j - 1 \in DOMAIN events'
      /\ \A i \in DOMAIN events' : /\ i + 1 \in DOMAIN events
                                   /\ events'[i] = events[i + 1]
                                   /\ Counts(i)' <=> Counts(i + 1)
  BY DeliveredCounts
<1>3. ASSUME NEW j \in DOMAIN events, j # 1, Counts(j)
      PROVE  \E i \in DOMAIN events' : events'[i] = events[j] /\ Counts(i)'
  <2> DEFINE i == j - 1
  <2>1. i \in DOMAIN events' /\ i + 1 = j
    BY <1>2, <1>3
  <2>2. events'[i] = events[i + 1] /\ (Counts(i)' <=> Counts(i + 1))
    BY <1>2, <2>1
  <2> HIDE DEF i
  <2>3. events'[i] = events[j] /\ Counts(i)'
    BY <1>3, <2>1, <2>2
  <2> QED BY <2>1, <2>3
<1> SUFFICES ASSUME wanted', ~restartPending', ~legacy'
             PROVE  \/ AvailableToCome'
                    \/ tunnel'.network = Nothing /\ requests' = 0
                    \/ tunnel'.network = network' /\ (tunnel'.link = link' \/ coalesced' \/ LinkToCome')
                    \/ network' = Nothing /\ (initialized' \/ events' # <<>>)
  BY DEF TunnelInv
<1>4. NoRequest /\ wanted /\ ~restartPending
  <2>1. wanted' = wanted
    BY <1>1
  <2>2. ~RequestRestart
    BY <2>1, Zenon DEF RequestRestart
  <2>3. NoRequest
    BY <1>1, <2>2
  <2>4. restartPending' = restartPending
    BY <2>3 DEF NoRequest
  <2> QED BY <2>1, <2>3, <2>4
<1>5. CASE AvailableToCome
  <2>1. PICK j \in DOMAIN events : events[j].kind = "available" /\ Counts(j)
    BY <1>5 DEF AvailableToCome
  <2>2. j # 1
    BY <1>1, <1>4, <2>1 DEF RequestRestart, NoRequest
  <2>3. PICK i \in DOMAIN events' : events'[i] = events[j] /\ Counts(i)'
    BY <1>3, <2>1, <2>2
  <2>4. AvailableToCome'
    BY <2>1, <2>3 DEF AvailableToCome
  <2> QED BY <2>4
<1>6. CASE tunnel.network = Nothing /\ requests = 0
  BY <1>1, <1>4, <1>6 DEF NoRequest
<1>7. CASE tunnel.network = network /\ (tunnel.link = link \/ coalesced \/ LinkToCome)
  <2>1. CASE tunnel.link = link
    BY <1>1, <1>7, <2>1
  <2>2. CASE coalesced
    <3>1. coalesced'
      BY <1>1, <1>4, <2>2, Zenon DEF RequestRestart, NoRequest
    <3> QED BY <1>1, <1>7, <3>1
  <2>3. CASE LinkToCome
    <3>1. PICK j \in DOMAIN events : events[j].kind = "link" /\ Counts(j)
      BY <2>3 DEF LinkToCome
    <3>2. CASE j = 1
      <4>1. coalesced'
        BY <1>1, <1>4, <3>1, <3>2, Zenon DEF RequestRestart, NoRequest
      <4> QED BY <1>1, <1>7, <4>1
    <3>3. CASE j # 1
      <4>1. PICK i \in DOMAIN events' : events'[i] = events[j] /\ Counts(i)'
        BY <1>3, <3>1, <3>3
      <4>2. LinkToCome'
        BY <3>1, <4>1 DEF LinkToCome
      <4> QED BY <1>1, <1>7, <4>2
    <3> QED BY <3>2, <3>3
  <2> QED BY <1>7, <2>1, <2>2, <2>3
<1>8. CASE network = Nothing /\ (initialized \/ events # <<>>)
  BY <1>1, <1>8
<1> QED BY <1>4, <1>5, <1>6, <1>7, <1>8 DEF TunnelInv

\* A change brings a callback that counts, unless it is the first network.
LEMMA ChangeKeepsTunnel ==
    ASSUME TypeOK, NetworksHaveLinks, QueueInv, TunnelInv, ~legacy,
           NetworkAppears \/ NetworkLost \/ LinkChanges
    PROVE  TunnelInv'
<1> USE NetworkAssumption
<1> DEFINE last == Len(events)
<1>0. PICK new : new = last + 1
  OBVIOUS
<1>1. /\ last \in Nat /\ DOMAIN events = 1..last /\ new \in DOMAIN events'
      /\ \A i \in DOMAIN events : /\ i \in DOMAIN events'
                                  /\ events'[i] = events[i]
                                  /\ Counts(i)' <=> Counts(i)
      /\ NetworkAppears => events'[new].kind = "available"
      /\ LinkChanges => events'[new].kind = "link"
  BY <1>0, AddedCounts
<1>2. UNCHANGED <<legacy, wanted, tunnel, restartPending, coalesced, requests, initialized, linkFingerprint>>
  BY DEF NetworkAppears, NetworkLost, LinkChanges, Undisturbed, tunnelVars, detectorVars
<1>3. AvailableToCome => AvailableToCome'
  BY <1>1 DEF AvailableToCome
<1>4. events = <<>> <=> new = 1
  <2>1. events = <<>> => last = 0
    OBVIOUS
  <2>2. last = 0 => events = <<>>
    BY EmptySeq DEF TypeOK
  <2> QED BY <1>0, <1>1, <2>1, <2>2
<1>5. /\ events = <<>> => activeNetwork = network /\ linkFingerprint = link
      /\ ~initialized => activeNetwork = Nothing /\ requests = 0
      /\ events # <<>> => events[last].kind # "available"
  BY DEF QueueInv, CallbacksInOrder, UninitializedKnowsNothing, Latest
<1>6. events' # <<>>
  BY ChangeAdds
<1> SUFFICES ASSUME wanted, ~restartPending
             PROVE  \/ AvailableToCome'
                    \/ tunnel.network = Nothing /\ requests = 0
                    \/ tunnel.network = network' /\ (coalesced \/ LinkToCome')
                    \/ network' = Nothing
  BY <1>2, <1>6 DEF TunnelInv
<1>7. \/ AvailableToCome
      \/ tunnel.network = Nothing /\ requests = 0
      \/ tunnel.network = network
      \/ network = Nothing /\ (initialized \/ events # <<>>)
  BY DEF TunnelInv
<1>8. CASE NetworkAppears
  <2>1. new # 1 \/ initialized => AvailableToCome'
    <3> SUFFICES ASSUME new # 1 \/ initialized PROVE AvailableToCome'
      OBVIOUS
    <3>1. new # 1 => new > 1
      BY <1>0, <1>1
    <3>2. Counts(new)'
      BY <1>1, <1>2, <1>8, <3>1 DEF Counts
    <3> QED BY <1>1, <1>8, <3>2 DEF AvailableToCome
  <2>2. CASE new = 1 /\ ~initialized
    <3>1. network = Nothing /\ requests = 0 /\ ~AvailableToCome
      BY <1>1, <1>4, <1>5, <2>2 DEF AvailableToCome
    <3> QED BY <1>4, <1>7, <2>2, <3>1
  <2> QED BY <2>1, <2>2
<1>9. CASE NetworkLost
  BY <1>9 DEF NetworkLost
<1>10. CASE LinkChanges
  <2>1. network # Nothing /\ network' = network
    BY <1>10 DEF LinkChanges
  <2>2. Counts(new)'
    <3>1. CASE new = 1
      BY <1>1, <1>2, <1>4, <1>5, <1>10, <2>1, <3>1 DEF Counts, NetworksHaveLinks
    <3>2. CASE new # 1
      <4>1. new - 1 = last /\ last \in DOMAIN events /\ events # <<>>
        BY <1>0, <1>1, <1>4, <3>2
      <4>2. events'[new - 1].kind # "available"
        BY <1>1, <1>5, <4>1
      <4> QED BY <1>1, <1>10, <3>2, <4>2 DEF Counts
    <3> QED BY <3>1, <3>2
  <2>3. LinkToCome'
    BY <1>1, <1>10, <2>2 DEF LinkToCome
  <2> QED BY <1>3, <1>7, <2>1, <2>3
<1> QED BY <1>8, <1>9, <1>10

\* Every step keeps the tunnel on the network, or on its way there.
LEMMA StepTunnel ==
    ASSUME TypeOK, NetworksHaveLinks, QueueInv, TunnelInv, [Next]_vars
    PROVE  TunnelInv'
<1>1. UNCHANGED legacy
  BY StepLegacy
<1>2. CASE legacy
  BY <1>1, <1>2 DEF TunnelInv
<1>3. CASE ~legacy
  <2>1. CASE Callback
    BY <1>3, <2>1, CallbackKeepsTunnel
  <2>2. CASE NetworkAppears \/ NetworkLost \/ LinkChanges
    BY <1>3, <2>2, ChangeKeepsTunnel
  <2>3. CASE StartProxy \/ RestartProxy
    <3>1. tunnel'.network = network' /\ tunnel'.link = link'
      BY <2>3 DEF StartProxy, RestartProxy, Now, systemVars
    <3> QED BY <3>1 DEF TunnelInv
  <2>4. CASE SettleWindowEnds \/ UNCHANGED vars
    <3>1. UNCHANGED <<network, link, events, legacy, initialized, linkFingerprint, requests>>
      BY <2>4, OtherSteps
    <3>2. UNCHANGED <<wanted, tunnel, restartPending, coalesced>>
      BY <2>4 DEF SettleWindowEnds, vars, tunnelVars
    <3> QED BY <3>1, <3>2 DEF TunnelInv, AvailableToCome, LinkToCome, Counts
  <2> QED BY <2>1, <2>2, <2>3, <2>4 DEF Next
<1> QED BY <1>2, <1>3

\* When the callbacks are delivered and the restarts done, the process that runs
\* was started on the network of the moment, and on its link but for the changes
\* the gate kept back (TunnelFollowsNetwork).
THEOREM TunnelKeepsUp == Spec => []TunnelFollowsNetwork
<1> DEFINE Inv == TypeOK /\ NetworksHaveLinks /\ QueueInv /\ TunnelInv
<1>1. Init => Inv
  <2>1. Init => TunnelInv
    BY DEF Init, TunnelInv
  <2> QED BY <2>1, InitTypeOK, InitQueueInv
<1>2. Inv /\ [Next]_vars => Inv'
  BY StepTypeOK, StepQueueInv, StepTunnel
<1>3. Inv => TunnelFollowsNetwork
  <2>1. events = <<>> => ~AvailableToCome /\ ~LinkToCome
    BY DEF AvailableToCome, LinkToCome
  <2> QED BY <2>1 DEF TunnelInv, TunnelFollowsNetwork, Settled
<1> QED BY <1>1, <1>2, <1>3, PTL DEF Spec
=============================================================================
