----------------------------- MODULE AwgConfig -----------------------------
(***************************************************************************)
(* The AmneziaWG parameters of an [Interface] section: what wireproxy reads *)
(* (awg_config.go), which values it accepts, and what it hands to the      *)
(* device (CreateIPCRequest in wireguard.go).  AmneziaWG disguises the four *)
(* kinds of WireGuard packets: it pads them (S1-S4) and replaces the type  *)
(* in their header by a number, or one out of a range of numbers (H1-H4).  *)
(* The receiver has to tell the kinds apart again.                         *)
(*                                                                         *)
(* The value of a magic header is the sequence of the parts between its    *)
(* "-" signs; a part that is empty or no number is NotANumber.             *)
(***************************************************************************)
EXTENDS Integers, Sequences

CONSTANTS
    Sections,      \* the sections to read: see IsSection
    MaxHeader,     \* 2^32 - 1
    MaxJc, MaxJmax,
    BaseSize,      \* what each of S1-S4 is added to: 148, 92, 64 and 32
    Absent,        \* there is no such key
    NotANumber

VARIABLES
    section,       \* the section that is read
    phase,         \* "parse", "validate", "accepted", "sent" or "refused"
    config,        \* ASecConfigType
    request        \* the lines of the request to the device

vars == <<section, phase, config, request>>

JunkKeys == {"Jc", "Jmin", "Jmax"}
SizeKeys == {"S1", "S2", "S3", "S4"}
NumberKeys == JunkKeys \cup SizeKeys
HeaderKeys == {"H1", "H2", "H3", "H4"}
ItemKeys == {"I1", "I2", "I3", "I4", "I5"}
Keys == NumberKeys \cup HeaderKeys \cup ItemKeys

DefaultHeader == [H1 |-> 1, H2 |-> 2, H3 |-> 3, H4 |-> 4]

IsSection(s) ==
    /\ DOMAIN s = Keys
    /\ \A k \in NumberKeys : s[k] \in Int \cup {Absent, NotANumber}
    /\ \A k \in HeaderKeys :
          s[k] = Absent \/ (s[k] \in Seq(Nat \cup {NotANumber}) /\ s[k] # <<>>)

ASSUME AwgAssumption ==
    /\ \A s \in Sections : IsSection(s)
    /\ MaxHeader \in Nat /\ MaxHeader >= 4
    /\ MaxJc \in Nat /\ MaxJmax \in Nat
    /\ BaseSize \in [SizeKeys -> Nat]
    /\ Absent \notin Int /\ NotANumber \notin Int /\ Absent # NotANumber
    /\ \A lo, hi \in 0..MaxHeader : Absent # [min |-> lo, max |-> hi]

Unread == phase = "parse" /\ config = <<>> /\ request = <<>>

Init == section \in Sections /\ Unread

---------------------------------------------------------------------------
(* Reading. *)

IsHeader(part) == part # NotANumber /\ part <= MaxHeader

(* A number, or two with "-" in between, the second not below the first. *)
IsRange(parts) ==
    /\ Len(parts) \in 1..2
    /\ \A i \in DOMAIN parts : IsHeader(parts[i])
    /\ parts[1] <= parts[Len(parts)]

(* parseMagicHeaderInterval, of a range. *)
HeaderInterval(parts) == [min |-> parts[1], max |-> parts[Len(parts)]]

Readable(s) ==
    /\ \A k \in NumberKeys : s[k] # NotANumber
    /\ \A k \in HeaderKeys : s[k] # Absent => IsRange(s[k])

(* What is absent stays absent: the has... fields, and the nil pointers. *)
ParsedSection(s) ==
    [k \in Keys |-> IF k \in HeaderKeys /\ s[k] # Absent THEN HeaderInterval(s[k])
                                                         ELSE s[k]]

ParseASecConfig ==
    /\ phase = "parse"
    /\ IF Readable(section)
       THEN phase' = "validate" /\ config' = ParsedSection(section)
       ELSE phase' = "refused" /\ UNCHANGED config
    /\ UNCHANGED <<section, request>>

---------------------------------------------------------------------------
(* ValidateASecConfig. *)

Given(k) == config[k] # Absent

JunkInRange ==
    /\ Given("Jc") => config["Jc"] \in 1..MaxJc
    /\ (Given("Jmin") /\ Given("Jmax")) => config["Jmin"] <= config["Jmax"]
    /\ Given("Jmax") => config["Jmax"] <= MaxJmax

PacketSize(k) == BaseSize[k] + config[k]

(* A bug: only S1 and S2 are compared, as before AmneziaWG 2. *)
FirstTwoSizesDiffer ==
    (Given("S1") /\ Given("S2")) => PacketSize("S1") # PacketSize("S2")

(* Sizes that are not given are not looked at. *)
PacketSizesDiffer ==
    \A k, l \in {k \in SizeKeys : Given(k)} : k # l => PacketSize(k) # PacketSize(l)

(* collectEffectiveHeaderIntervals *)
EffectiveHeaderIntervals ==
    [k \in HeaderKeys |-> IF Given(k) THEN config[k]
                          ELSE [min |-> DefaultHeader[k], max |-> DefaultHeader[k]]]

Overlap(left, right) == left.min <= right.max /\ right.min <= left.max

IntervalsInvalid ==
    \E k \in HeaderKeys : EffectiveHeaderIntervals[k].min > EffectiveHeaderIntervals[k].max

HasOverlappingHeaderIntervals ==
    LET intervals == EffectiveHeaderIntervals
        order == [H1 |-> 1, H2 |-> 2, H3 |-> 3, H4 |-> 4]
    IN  \E k, l \in DOMAIN intervals :
            order[k] < order[l] /\ Overlap(intervals[k], intervals[l])

(* With no parameter at all there is no configuration to validate. *)
Valid ==
    \/ \A k \in Keys : ~Given(k)
    \/ /\ JunkInRange /\ PacketSizesDiffer
       /\ ~IntervalsInvalid /\ ~HasOverlappingHeaderIntervals

ValidateASecConfig ==
    /\ phase = "validate"
    /\ phase' = IF Valid THEN "accepted" ELSE "refused"
    /\ UNCHANGED <<section, config, request>>

---------------------------------------------------------------------------
(* CreateIPCRequest. *)

(* A bug: the upper bound of a range is left out. *)
FormatLowerBound(interval) == <<interval.min>>

FormatMagicHeaderInterval(interval) ==
    IF interval.min = interval.max THEN <<interval.min>>
                                   ELSE <<interval.min, interval.max>>

Lines == [k \in {k \in Keys : Given(k)} |->
            IF k \in HeaderKeys THEN FormatMagicHeaderInterval(config[k]) ELSE config[k]]

CreateIPCRequest ==
    /\ phase = "accepted"
    /\ phase' = "sent"
    /\ request' = Lines
    /\ UNCHANGED <<section, config>>

Next == ParseASecConfig \/ ValidateASecConfig \/ CreateIPCRequest

Spec == Init /\ [][Next]_vars

---------------------------------------------------------------------------
(* Properties. *)

(* A section that is read becomes intervals and numbers. *)
TypeOK ==
    /\ IsSection(section)
    /\ phase \in {"parse", "validate", "accepted", "sent", "refused"}
    /\ phase \in {"validate", "accepted", "sent"} =>
          /\ DOMAIN config = Keys
          /\ \A k \in NumberKeys : config[k] \in Int \cup {Absent}
          /\ \A k \in HeaderKeys : Given(k) =>
                config[k].min \in 0..MaxHeader /\ config[k].max \in config[k].min..MaxHeader
    /\ phase = "sent" => DOMAIN request \subseteq Keys

(* The headers a request makes the device use for a kind of packet: any     *)
(* number from the first part to the last, or the default.                  *)
Headers(k) ==
    IF k \in DOMAIN request THEN request[k][1]..request[k][Len(request[k])]
                            ELSE {DefaultHeader[k]}

(* A received packet tells its kind: what was sent to the device gives every *)
(* kind a header, none to two kinds, and different sizes to two kinds whose *)
(* padding is given.                                                        *)
KindsStayApart ==
    phase = "sent" =>
        /\ \A k \in HeaderKeys : Headers(k) # {}
        /\ \A k, l \in HeaderKeys : k # l => Headers(k) \cap Headers(l) = {}
        /\ \A k, l \in SizeKeys \cap DOMAIN request :
              k # l => BaseSize[k] + request[k] # BaseSize[l] + request[l]

(* The device gets what the section says: the same keys, the same numbers,  *)
(* and for a header that reads the same as its text did.                    *)
RequestSaysWhatSectionSays ==
    phase = "sent" =>
        /\ DOMAIN request = {k \in Keys : section[k] # Absent}
        /\ \A k \in DOMAIN request :
              IF k \in HeaderKeys
              THEN IsRange(request[k]) /\ HeaderInterval(request[k]) = HeaderInterval(section[k])
              ELSE request[k] = section[k]

=============================================================================
