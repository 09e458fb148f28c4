----------------------------- MODULE Mld2Report ----------------------------
(***************************************************************************)
(* How mld2_send_report packs the subscriptions of the other interfaces    *)
(* into MLDv2 reports, and what the receiver of these packets, which walks *)
(* the records as l4_ipv6_icmpv6_mld2_report does, makes of them.          *)
(*                                                                         *)
(* The buffer is kept word by word (4 bytes), because it is not cleared    *)
(* when a report is split and a source is looked for in words that an      *)
(* earlier record left behind.  Two different addresses are taken to       *)
(* differ in every word.  Stores behind the buffer are kept too: the       *)
(* program goes on after them, unless it is aborted for what they hit.     *)
(***************************************************************************)
EXTENDS Integers, FiniteSets, Sequences

CONSTANTS
    Groups, Sources,
    Any,           \* the unspecified address ::
    None,
    Others,        \* how many other interfaces can be in a group
    Mtus,          \* sizes of the buffer, in words
    Orders,        \* byte orders of the host
    MaxWishes      \* bound: subscriptions per report

Header == 14       \* the packet up to its first record: 56 bytes
Ip6    == 10       \* of which the IPv6 header has 40
Grec   == 5        \* a record without sources: 20 bytes
In6    == 4        \* an address: 16 bytes
Options == 2       \* the hop-by-hop header with the router alert
Mld2r  == 2        \* the ICMPv6 header with the count of records

\* int_create refuses an MTU below 1280 bytes; the bounds only have to leave
\* room for a first record and a source, with the header counted twice.
ASSUME MtuAssumption ==
    Mtus \subseteq {n \in Nat : n >= Header + Ip6 + Grec + In6}

\* On a little-endian host a record has room for less than 256 sources (an MTU
\* of up to 4171 bytes): above that the place of a next record, which is
\* computed from a swapped count, can be inside the buffer again.
ASSUME SwapAssumption ==
    "little" \in Orders => \A n \in Mtus : n < Header + Grec + In6 * 256

ASSUME AddressAssumption ==
    Any \notin Sources /\ None \notin Groups /\ Orders \subseteq {"big", "little"}

Addr == Sources \cup {Any}

VARIABLES
    mtu, order,    \* of the interface and of the host
    at,            \* where the loops over groups and interfaces are
    wanted,        \* the <<group, address>> walked over up to now
    wishes,        \* how many subscriptions that were
    pack,          \* the packet that is being filled
    sent,          \* the packets sent
    pc             \* "walk", "done", or "crashed" after a store behind the buffer

mvars == <<mtu, order, at, wanted, wishes, pack, sent, pc>>

----------------------------------------------------------------------------
(* The buffer.                                                             *)

Word(of, val, part) == [of |-> of, val |-> val, part |-> part]
Zero == Word("zero", None, 0)
Head0(type, nsrcs, aux) == Word("head", [type |-> type, nsrcs |-> nsrcs, aux |-> aux], 0)

\* grec and src are offsets, 0 for NULL.
EmptyPack(size) ==
    [buf |-> [o \in Header .. size - 1 |-> Zero], ngrec |-> 0, grec |-> 0, src |-> 0, any |-> FALSE]

head(p) == p.buf[p.grec].val

\* Where the n-th source (from 0) of the record at o is.
SourceSlot(o, n) == o + Grec + In6 * n

\* The packet ends behind the sources of its last record.
Size(p) == SourceSlot(p.grec, head(p).nsrcs)

\* htons on a 16-bit count.
Htons(n) == IF order = "little" THEN 256 * (n % 256) + n \div 256 ELSE n

\* The fit test, and one that forgets the IPv6 header which length leaves out:
\* a record that has to be started behind another one is not
\* counted, and neither is a source when the previous record was for any.
Fits_payload(p, a) ==
    LET length == IF p.grec # 0 THEN Size(p) - Ip6 ELSE Header
    IN length + (IF p.grec # 0 THEN 0 ELSE Grec) + (IF p.any \/ a = Any THEN 0 ELSE In6) <= mtu
Fits(p, a) ==
    LET length == IF p.grec # 0 THEN Size(p) ELSE Header + Ip6
    IN length + (IF p.grec # 0 THEN 0 ELSE Grec) + (IF p.any \/ a = Any THEN 0 ELSE In6) <= mtu

\* Duplicates are looked for in the place where the next source would go.
\* Memory behind the buffer that no report stored to holds no address.
Duplicate_unmatched(p, a) == ~p.any /\ head(p).nsrcs > 0
Duplicate(p, a) ==
    /\ ~p.any /\ head(p).nsrcs > 0
    /\ \A k \in 0 .. In6 - 1 :
          LET o == SourceSlot(p.grec, head(p).nsrcs) + k
          IN o \in DOMAIN p.buf /\ p.buf[o] = Word("src", a, k)

\* The next record's place is computed from the count after its htons.
NextGrec(p) == IF p.grec = 0 THEN Header ELSE SourceSlot(p.grec, Htons(head(p).nsrcs))

Emptied(p) == [p EXCEPT !.ngrec = 0, !.grec = 0, !.src = 0]

\* The count of auxiliary words is the one field of a record that is not
\* written: it is what the memory holds there, 1 for a part of an address.
StaleAux(buf, o) ==
    IF o \in DOMAIN buf /\ (buf[o].of \in {"mca", "src"} \/ (buf[o].of = "head" /\ buf[o].val.aux = 1))
    THEN 1 ELSE 0

\* A record and a source are stored wherever their place is, behind the
\* buffer too.
StartRecord(p, m, o) ==
    [p EXCEPT !.ngrec = @ + 1, !.grec = o, !.any = FALSE,
              !.buf = [k \in DOMAIN @ \cup (o .. o + Grec - 1) |->
                         IF k = o THEN Head0("IS_EX", 0, StaleAux(@, o))
                         ELSE IF k \in o + 1 .. o + Grec - 1 THEN Word("mca", m, k - o)
                         ELSE @[k]]]

AddSource(p, a) ==
    LET o == SourceSlot(p.grec, head(p).nsrcs)
    IN [p EXCEPT !.src = o,
                 !.buf = [k \in DOMAIN @ \cup (o .. o + In6 - 1) |->
                            IF k = p.grec THEN Head0("IS_IN", head(p).nsrcs + 1, head(p).aux)
                            ELSE IF k \in o .. o + In6 - 1 THEN Word("src", a, k - o)
                            ELSE @[k]]]

\* An any-source wish replaces the sources of the record it meets.
DropSources(p) ==
    [p EXCEPT !.src = 0, !.any = TRUE, !.buf[p.grec] = Head0("IS_EX", 0, head(p).aux)]

----------------------------------------------------------------------------
(* The receiver.                                                           *)

\* The places of the records, walked from count to count.  The receiver also
\* skips the auxiliary words: see Accepted.
Places(p) ==
    LET place[k \in 1 .. p.ngrec] ==
          IF k = 1 THEN Header ELSE SourceSlot(place[k - 1], p.buf[place[k - 1]].val.nsrcs)
    IN place

\* l3_ipv6 takes the hop-by-hop header off the payload length.
Plen(size) == size - Ip6 - Options

\* The kernel refuses to send a packet larger than the MTU (sendpacket6 logs
\* it).  The receiver gives up on a packet that is too short for its records,
\* and on the rest of one at a record that starts or ends behind it.  Behind
\* a record with a stale count of auxiliary words it looks for the next one
\* as many bytes further on as some part of an old address says: what it
\* finds there is not followed.
Accepted(p, size) ==
    {k \in 1 .. p.ngrec :
        /\ size <= mtu /\ Mld2r + Grec * p.ngrec <= Plen(size)
        /\ \A j \in 1 .. k :
              LET o == Places(p)[j]
                  n == p.buf[o].val.nsrcs
              IN /\ o - (Header - Mld2r) <= Plen(size)
                 /\ n > 0 => SourceSlot(o, n) - (Header - Mld2r) <= Plen(size)
                 /\ j < k => p.buf[o].val.aux = 0}

Records(p, size) ==
    [k \in Accepted(p, size) |->
        LET o == Places(p)[k]
            h == p.buf[o].val
        IN [mca |-> p.buf[o + 1].val, type |-> h.type,
            srcs |-> {p.buf[SourceSlot(o, n)].val : n \in 0 .. h.nsrcs - 1}]]

\* What is sent, and what is read from it.
Packet(p) == [size |-> Size(p), ngrec |-> p.ngrec, recs |-> Records(p, Size(p))]

\* What the receiver subscribes to: no sources to exclude is any source.
Learnt(r) ==
    IF r.type = "IS_EX" THEN (IF r.srcs = {} THEN {<<r.mca, Any>>} ELSE {})
                        ELSE {<<r.mca, a>> : a \in r.srcs}

Told == UNION {UNION {Learnt(sent[j].recs[k]) : k \in DOMAIN sent[j].recs} : j \in DOMAIN sent}

\* Each packet went out and is read to its last record.
Readable == \A j \in DOMAIN sent : DOMAIN sent[j].recs = 1 .. sent[j].ngrec

----------------------------------------------------------------------------
(* The loops.                                                              *)

\* src is cleared when a group begins.
Begun_kept(m) == pack
Begun(m) == IF m = at.mca THEN pack ELSE [pack EXCEPT !.src = 0]

\* The next including subscription that the loops meet: one more of the same
\* interface, the first of a later interface, or the first of a later group.
\* Excluding subscriptions, the sending interface and groups without
\* interfaces are passed over and change nothing.
Wish(m, a) ==
    /\ pc = "walk" /\ wishes < MaxWishes
    /\ \E k \in 1 .. Others :
          /\ \/ m = at.mca /\ k = at.other /\ a \notin at.used
             \/ m = at.mca /\ k > at.other
             \/ m # at.mca /\ m \notin at.past
          /\ at' = [mca |-> m, other |-> k,
                    used |-> IF m = at.mca /\ k = at.other THEN at.used \cup {a} ELSE {a},
                    past |-> at.past \cup {m}]
    /\ wanted' = wanted \cup {<<m, a>>} /\ wishes' = wishes + 1
    /\ UNCHANGED <<mtu, order>>

AnyAfterSources(m) ==
    /\ Wish(m, Any)
    /\ Begun(m).src # 0
    /\ pack' = DropSources(Begun(m))
    /\ UNCHANGED <<sent, pc>>

DuplicateSource(m, a) ==
    /\ Wish(m, a) /\ a # Any
    /\ Begun(m).src # 0 /\ Duplicate(Begun(m), a)
    /\ pack' = [Begun(m) EXCEPT !.src = 0]
    /\ UNCHANGED <<sent, pc>>

\* The packet is sent if the wish does not fit, a record is started if there
\* is none for this group, and the source goes into it.
AddWish(m, a) ==
    /\ Wish(m, a)
    /\ Begun(m).src # 0 => a # Any /\ ~Duplicate(Begun(m), a)
    /\ LET split == ~Fits(Begun(m), a)
           p     == IF split THEN Emptied(Begun(m)) ELSE Begun(m)
           q     == IF p.src = 0 THEN StartRecord(p, m, NextGrec(p)) ELSE p
       IN /\ sent' = IF split THEN Append(sent, Packet(Begun(m))) ELSE sent
          /\ pack' = IF a = Any THEN [q EXCEPT !.any = TRUE] ELSE AddSource(q, a)
    /\ UNCHANGED pc

\* Once a store went behind the buffer, the allocator (or whoever owns what
\* was hit) may end the program.
Overrun == DOMAIN pack.buf # Header .. mtu - 1

Crash ==
    /\ pc = "walk" /\ Overrun
    /\ pc' = "crashed"
    /\ UNCHANGED <<mtu, order, at, wanted, wishes, pack, sent>>

\* Whatever is in the packet at the end is sent.
Leftover_some(p) == p.ngrec > 1
Leftover(p) == p.ngrec > 0

Finish ==
    /\ pc = "walk" /\ pc' = "done"
    /\ sent' = IF Leftover(pack) THEN Append(sent, Packet(pack)) ELSE sent
    /\ UNCHANGED <<mtu, order, at, wanted, wishes, pack>>

Finished == pc # "walk" /\ UNCHANGED mvars

ReportInit ==
    /\ mtu \in Mtus /\ order \in Orders
    /\ at = [mca |-> None, other |-> 0, used |-> {}, past |-> {}]
    /\ wanted = {} /\ wishes = 0
    /\ pack = EmptyPack(mtu) /\ sent = <<>>
    /\ pc = "walk"

ReportNext ==
    \/ \E m \in Groups : AnyAfterSources(m)
    \/ \E m \in Groups, a \in Addr : DuplicateSource(m, a)
    \/ \E m \in Groups, a \in Addr : AddWish(m, a)
    \/ Crash
    \/ Finish
    \/ Finished

ReportSpec == ReportInit /\ [][ReportNext]_mvars

----------------------------------------------------------------------------
(* Properties.                                                             *)

\* The count of records, the place of the last one and the buffer agree; of
\* every packet that goes out the receiver reads the first record at least;
\* and where counts are not swapped the fit test keeps every packet within
\* one record with a source of the MTU, over any series of wishes (see
\* WithinMtu for this excess).
PackOK ==
    /\ pc \in {"walk", "done", "crashed"}
    /\ pack.ngrec = 0 <=> pack.grec = 0
    /\ pack.src # 0 => pack.grec # 0 /\ ~pack.any
    /\ pack.grec # 0 => pack.grec \in DOMAIN pack.buf /\ pack.buf[pack.grec].of = "head"
    /\ \A j \in DOMAIN sent :
          /\ sent[j].size > Header /\ (sent[j].size <= mtu => 1 \in DOMAIN sent[j].recs)
          /\ order = "big" => sent[j].size <= mtu + Grec + In6

\* The receiver of the reports never subscribes to a group or a source
\* nobody behind the hub wants, over every order of groups, interfaces and
\* sources, every split, every repetition and every overrun, by a record that
\* it finds in its place (see Accepted for where it loses the place).
NothingUnwanted == Told \subseteq wanted

\* Every group somebody wants reaches the receiver in some packet whose
\* lengths and counts pass its checks, and a wish for any source is not
\* narrowed to a few sources by the packing, if no packet was refused for
\* its size and none has a stale count of auxiliary words.
GroupsNamed ==
    pc = "done" /\ Readable =>
        \A w \in wanted :
            /\ \E a \in Addr : <<w[1], a>> \in Told
            /\ w[2] = Any => w \in Told

\* A report without any-source wishes that fits in one packet is read whole
\* and says exactly what is wanted: a buffer that was not used before makes
\* no source look like a duplicate and no record look longer than it is.
SourcesExact ==
    pc = "done" /\ Len(sent) = 1 /\ sent[1].size <= mtu /\ (\A w \in wanted : w[2] # Any) =>
        Readable /\ Told = wanted

\* ecmh.c:1047: "NOTE, we need to watch the MTU size, as there will be more
\* subscriptions + SSM combo's than the size of one MTU can fit, thus we
\* split it when needed".  The fit test leaves out the record that has to be
\* started, so the last one ends behind the MTU and behind the buffer; and
\* on a little-endian host a record behind one with sources is put
\* kilobytes away.  Both packets are handed to sendpacket6.
WithinMtu == \A j \in DOMAIN sent : sent[j].size <= mtu
=============================================================================
