------------------------------ MODULE ClientIp ------------------------------
(***************************************************************************)
(* Whose request this is: http/proxy.ts and http/ip_canonical.ts.          *)
(*                                                                         *)
(* A request comes through a chain of proxies, each of which appends the   *)
(* address it was called from to X-Forwarded-For.  The middleware reads    *)
(* the list from its end, past the proxies that it trusts, and what it     *)
(* finds is the key of the limiters and the client of the audit rows.      *)
(*                                                                         *)
(* An address is a sequence of groups, two of them (IPv4) or eight (IPv6), *)
(* and a group has two bits where the code has sixteen (or, in IPv4, two   *)
(* octets).  An IPv6 address that maps an IPv4 one is that address.  A     *)
(* text is the parts of an address as they are written: the groups, the    *)
(* "::" between them, and what makes two texts of an address differ.       *)
(***************************************************************************)
EXTENDS Naturals, Sequences, SequencesExt

CONSTANTS MaxHops

VARIABLES
    trusted_proxies,    \* the parsed entries, or "refused"
    path,               \* the addresses the request passed, its sender first
    forwarded_for,      \* the header: texts
    vouched,            \* whether each trusted hop wrote a bare address
    found               \* on arrival: the sender, the client ip and the limiters' key

client_vars == <<trusted_proxies, path, forwarded_for, vouched, found>>

Ones == 3
Zeros(n) == [i \in 1..n |-> 0]

\* The groups of an IPv6 address that maps an IPv4 address.
Mapping(address) == Zeros(5) \o <<Ones>> \o address

Text(head, gap, tail, dotted) ==
    [head |-> head, gap |-> gap, tail |-> tail, dotted |-> dotted, form |-> "plain", after |-> "nothing"]

Dotted(address) == Text(<<>>, FALSE, address, TRUE)

\* What is no address: a word, and an entry of blanks.
Unknown == [Dotted(<<>>) EXCEPT !.after = "word"]
Blank == [Dotted(<<>>) EXCEPT !.after = "blank"]

------------------------------------------------------------------------------
(***************************************************************************)
(* Canonical addresses.                                                    *)
(***************************************************************************)

Malformed == <<>>

LiteralChars(text) == text.after = "nothing"

\* An octet has no leading zero.
ParseIpv4Bits(text) ==
    IF LiteralChars(text) /\ text.dotted /\ ~text.gap /\ text.head = <<>> /\ text.form # "padded"
    THEN text.tail ELSE Malformed

\* A group may; two groups may be written as an IPv4 address at the end.
ParseIpv6Bits(text) ==
    LET written == Len(text.head) + Len(text.tail)
    IN  IF \/ ~LiteralChars(text)
           \/ text.dotted /\ text.form = "padded"
           \/ IF text.gap THEN written > 7 ELSE written # 8
        THEN Malformed
        ELSE text.head \o Zeros(8 - written) \o text.tail

\* The first longest run of zero groups: where it starts and its length.
BestRun(groups) ==
    LET zero(i) == i \in 1..8 /\ groups[i] = 0
        starts == {i \in 1..8 : zero(i) /\ ~zero(i - 1)}
        length(i) == CHOOSE n \in 1..9 - i : ~zero(i + n) /\ \A k \in 0..n - 1 : zero(i + k)
    IN  IF starts = {} THEN <<1, 0>>
        ELSE LET best == CHOOSE i \in starts :
                            \A k \in starts : length(k) < length(i) \/ (length(k) = length(i) /\ i <= k)
             IN  <<best, length(best)>>

\* A mapped address is written with its prefix and the IPv4 address.
Ipv6ToCanonical(groups) ==
    LET best == BestRun(groups)
    IN  IF SubSeq(groups, 1, 6) = Mapping(<<>>) THEN Text(<<>>, TRUE, SubSeq(groups, 6, 8), TRUE)
        ELSE IF best[2] < 2 THEN Text(groups, FALSE, <<>>, FALSE)
        ELSE Text(SubSeq(groups, 1, best[1] - 1), TRUE, SubSeq(groups, best[1] + best[2], 8), FALSE)

Lowered(text) == IF text.form = "upper" THEN [text EXCEPT !.form = "plain"] ELSE text

\* A mutation: the prefix is stripped from the text, before it is canonical.
CanonicalizeIpOfStripped(text) ==
    LET lowered == Lowered(text)
        groups == ParseIpv6Bits(lowered)
    IN  IF ParseIpv4Bits(lowered) # Malformed \/ groups = Malformed THEN lowered
        ELSE IF lowered.dotted /\ Ipv6ToCanonical(groups).dotted THEN Dotted(SubSeq(groups, 7, 8))
        ELSE Ipv6ToCanonical(groups)

CanonicalizeIp(text) ==
    LET lowered == Lowered(text)
        groups == ParseIpv6Bits(lowered)
    IN  IF ParseIpv4Bits(lowered) # Malformed \/ groups = Malformed THEN lowered
        ELSE IF Ipv6ToCanonical(groups).dotted THEN Dotted(SubSeq(groups, 7, 8))
        ELSE Ipv6ToCanonical(groups)

\* The key of the limiters: an IPv6 address counts as its upper half.
RateLimitIpKey(ip) ==
    LET canonical == CanonicalizeIp(IF ip.after = "zone" THEN [ip EXCEPT !.after = "nothing"] ELSE ip)
        groups == ParseIpv6Bits(canonical)
    IN  IF ParseIpv4Bits(canonical) # Malformed THEN [net |-> FALSE, ip |-> canonical]
        ELSE IF groups = Malformed THEN [net |-> FALSE, ip |-> ip]
        ELSE [net |-> TRUE, ip |-> Ipv6ToCanonical(SubSeq(groups, 1, 4) \o Zeros(4))]

------------------------------------------------------------------------------
(***************************************************************************)
(* Trusted proxies.                                                        *)
(***************************************************************************)

\* The bits of an address, the highest first.
Bits(groups) == [i \in 1..2 * Len(groups) |-> (groups[(i + 1) \div 2] \div (IF i % 2 = 1 THEN 2 ELSE 1)) % 2]

\* The groups of what is an address, and nothing else.
StrictBits(text) ==
    IF ParseIpv4Bits(text) # Malformed THEN ParseIpv4Bits(text) ELSE ParseIpv6Bits(text)

Refused == [type |-> "refused"]

\* An entry without a prefix has the prefix 99.  A network is read as it is written: one
\* that is written as a mapped address is of IPv6.
ParseProxyEntry(entry) ==
    LET network == StrictBits(entry.text)
        address == StrictBits(CanonicalizeIp(entry.text))
    IN  IF entry.prefix = 99
        THEN IF address = Malformed THEN Refused ELSE [type |-> "ip", address |-> CanonicalizeIp(entry.text)]
        ELSE IF \/ network = Malformed \/ entry.prefix = 0 \/ entry.prefix > 2 * Len(network)
                \/ \E i \in entry.prefix + 1..2 * Len(network) : Bits(network)[i] # 0
             THEN Refused
             ELSE [type |-> "cidr", network |-> network, prefix |-> entry.prefix]

CidrContains(bits, network, prefix) ==
    Len(bits) = Len(network) /\ SubSeq(Bits(bits), 1, prefix) = SubSeq(Bits(network), 1, prefix)

IsTrustedIp(ip) ==
    LET normalized == CanonicalizeIp(ip)
    IN  /\ StrictBits(normalized) # Malformed
        /\ \E proxy \in trusted_proxies :
            IF proxy.type = "ip" THEN proxy.address = normalized
            ELSE CidrContains(StrictBits(normalized), proxy.network, proxy.prefix)

\* A mutation: what is no address is passed over, as a proxy is.
ResolveClientIpSkipping(header) ==
    LET entries == [i \in DOMAIN header |-> CanonicalizeIp(header[i])]
        candidates == {i \in DOMAIN entries :
                        StrictBits(entries[i]) # Malformed /\ ~IsTrustedIp(entries[i])}
    IN  IF candidates = {} THEN Unknown
        ELSE entries[CHOOSE i \in candidates : \A j \in candidates : j <= i]

\* The last entry that is not a trusted proxy, unless it is no address; Unknown if the
\* header has none.
ResolveClientIp(header) ==
    LET written == SelectSeq(header, LAMBDA text : text # Blank)
        entries == [i \in DOMAIN written |-> CanonicalizeIp(written[i])]
        stops == {i \in DOMAIN entries : ~IsTrustedIp(entries[i])}
        stop == CHOOSE i \in stops : \A j \in stops : j <= i
    IN  IF entries = <<>> THEN Unknown
        ELSE IF stops = {} THEN entries[1]
        ELSE IF StrictBits(entries[stop]) = Malformed THEN Unknown
        ELSE entries[stop]

\* The middleware; the runtime may not know who is connected.
ResolvedClientIp(connection_ip, header) ==
    IF header = <<>> \/ ~IsTrustedIp(connection_ip) \/ ResolveClientIp(header) = Unknown
    THEN CanonicalizeIp(connection_ip)
    ELSE ResolveClientIp(header)

------------------------------------------------------------------------------
(***************************************************************************)
(* The network.                                                            *)
(***************************************************************************)

Senders ==
    {<<1, 2>>, <<1, 3>>,
     <<1, 0, 0, 2, 0, 0, 0, 1>>, <<1, 0, 0, 2, 0, 3, 0, 0>>, <<1, 0, 0, 3, 0, 0, 0, 1>>,
     <<1, 0, 0, 2, 0, 0, 3, 1>>, <<0, 0, 0, 0, 0, 0, 3, 1>>}

Proxies == {<<2, 0>>, <<0, 0, 0, 0, 0, 0, 0, 1>>}

Full(address) == Text(address, FALSE, <<>>, FALSE)

TextsOfGroups(groups) ==
    {Full(groups), [Full(groups) EXCEPT !.form = "upper"], [Full(groups) EXCEPT !.form = "padded"],
     Text(SubSeq(groups, 1, 6), FALSE, SubSeq(groups, 7, 8), TRUE)}
    \cup {Text(SubSeq(groups, 1, n - 1), TRUE, SubSeq(groups, n + 1, 8), FALSE) :
            n \in {n \in 1..8 : groups[n] = 0 /\ (n = 1 \/ groups[n - 1] # 0)}}

\* How an address may be written, by a proxy or the runtime.
Texts(address) ==
    IF Len(address) = 2
    THEN {Dotted(address), Text(<<>>, TRUE, <<Ones>> \o address, TRUE), Full(Mapping(address))}
    ELSE TextsOfGroups(address)

\* What a sender writes into the header before the first proxy adds to it.
Forged == {Dotted(<<1, 1>>), Dotted(<<2, 0>>), Unknown, Blank}

Entry(text, prefix) == [text |-> text, prefix |-> prefix]

\* The proxies, as they may be configured: with their addresses or with networks that
\* hold them; and entries to refuse, too wide or not aligned.
EntryLists ==
    {{Entry(Full(Mapping(<<2, 0>>)), 99),
      Entry([Full(Zeros(7) \o <<1>>) EXCEPT !.form = "padded"], 99)},
     {Entry(Dotted(<<2, 0>>), 3), Entry(Text(<<>>, TRUE, <<>>, FALSE), 14)},
     {Entry(Dotted(<<2, 0>>), 0)}, {Entry(Dotted(<<2, 1>>), 3)}, {Entry(Unknown, 99)},
     {Entry(Dotted(<<2, 0>>), 5)}}

ClientInit ==
    /\ \E entries \in EntryLists :
        LET parsed == {ParseProxyEntry(e) : e \in entries}
        IN  trusted_proxies = IF Refused \in parsed THEN {} ELSE parsed
    /\ path = <<>> /\ forwarded_for = <<>> /\ vouched = TRUE
    /\ found = {}

Send ==
    /\ path = <<>> /\ found = {} /\ trusted_proxies # {}
    /\ \E sender \in Senders : path' = <<sender>>
    /\ forwarded_for' \in {<<>>} \cup {<<text>> : text \in Forged} \cup {<<Unknown, Dotted(<<2, 0>>)>>}
    /\ UNCHANGED <<trusted_proxies, vouched, found>>

\* A proxy that is ours appends the address it is called from, or, as some do, what is no
\* bare address.
Forward ==
    /\ path # <<>> /\ Len(path) < MaxHops
    /\ \E hop \in Proxies : path' = Append(path, hop)
    /\ \/ \E text \in Texts(Last(path)) : forwarded_for' = Append(forwarded_for, text) /\ UNCHANGED vouched
       \/ forwarded_for' = Append(forwarded_for, Unknown) /\ vouched' = FALSE
    /\ UNCHANGED <<trusted_proxies, found>>

\* The address of a local link comes with its zone.
ConnectionTexts(address) ==
    Texts(address)
    \cup (IF Len(address) = 2 THEN {} ELSE {[Full(address) EXCEPT !.after = "zone"]})

Arrive ==
    /\ path # <<>> /\ found = {}
    /\ \E connection_ip \in ConnectionTexts(Last(path)) :
        LET client_ip == ResolvedClientIp(connection_ip, forwarded_for)
        IN  found' =
            {[sender |-> IF vouched /\ LiteralChars(connection_ip) THEN Head(path) ELSE Last(path),
              ip |-> client_ip, key |-> RateLimitIpKey(client_ip)]}
    /\ path' = <<>> /\ forwarded_for' = <<>> /\ vouched' = TRUE
    /\ UNCHANGED trusted_proxies

ClientNext == Send \/ Forward \/ Arrive

ClientSpec == ClientInit /\ [][ClientNext]_client_vars

------------------------------------------------------------------------------

Written(address) == IF Len(address) = 2 THEN Dotted(address) ELSE Full(address)

Network(address) == IF Len(address) = 2 THEN address ELSE SubSeq(address, 1, 4) \o Zeros(4)

\* Whatever a sender writes into the header, and however the proxies and the runtime write
\* addresses: a sender has one client ip, which says its address, and counts under one key,
\* which says its address or its IPv6 network.  Behind a proxy that appends no bare
\* address, or is named with a zone, that proxy stands for the sender.
ClientsAreToldApart ==
    \A f \in found :
        /\ LiteralChars(f.ip) =>
            StrictBits(f.ip) = f.sender /\ f.ip = CanonicalizeIp(Written(f.sender))
        /\ StrictBits(f.key.ip) = Network(f.sender)
        /\ f.key = RateLimitIpKey(Written(f.sender))

=============================================================================
