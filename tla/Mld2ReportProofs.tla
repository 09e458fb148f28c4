-------------------------- MODULE Mld2ReportProofs -------------------------
(***************************************************************************)
(* Proofs about Mld2Report, for any groups, sources, interfaces and sizes  *)
(* of the buffer.  The inductive invariant says where the records of the   *)
(* packet under construction are, that the receiver's walk from count to   *)
(* count finds them there, and what the receiver learns from them.         *)
(***************************************************************************)
EXTENDS Mld2Report, SetInduction, SequenceTheorems

----------------------------------------------------------------------------
(* The records of a packet.                                                *)

Nsrcs(p, o) == p.buf[o].val.nsrcs

\* The record at o ends here.
End(p, o) == SourceSlot(o, Nsrcs(p, o))

\* The record at o as the receiver reads it.
RecordAt(p, o) ==
    [mca |-> p.buf[o + 1].val, type |-> p.buf[o].val.type,
     srcs |-> {p.buf[SourceSlot(o, n)].val : n \in 0 .. Nsrcs(p, o) - 1}]

\* The largest size the fit test allows: one record with a source too many.
Most == mtu + Grec + In6

\* The packet has a record at each of the places f, one behind the other.
Laid(p, f) ==
    /\ p.ngrec \in Nat \ {0} /\ f \in [1 .. p.ngrec -> Nat]
    /\ f[1] = Header /\ f[p.ngrec] = p.grec
    /\ \A k \in 1 .. p.ngrec :
          /\ p.buf[f[k]].of = "head" /\ Nsrcs(p, f[k]) \in Nat
          /\ f[k] >= Header + Grec * (k - 1) /\ End(p, f[k]) <= Most
    /\ Header .. End(p, p.grec) - 1 \subseteq DOMAIN p.buf
    /\ \A k \in 1 .. p.ngrec - 1 : f[k + 1] = End(p, f[k])
    /\ \A j, k \in 1 .. p.ngrec : j < k => End(p, f[j]) <= f[k]

\* What the receiver learns from the first n records, and from all.
ListedTo(p, f, n) == UNION {Learnt(RecordAt(p, f[k])) : k \in 1 .. n}
Listed(p, f) == ListedTo(p, f, p.ngrec)

----------------------------------------------------------------------------
(* The inductive invariant.                                                *)

IsPack(p) ==
    /\ DOMAIN p = {"buf", "ngrec", "grec", "src", "any"}
    /\ DOMAIN p.buf \subseteq Nat

\* While src is set the last record is one with sources, of the group m.
Current(p, m) ==
    p.src # 0 => /\ RecordAt(p, p.grec).type = "IS_IN" /\ RecordAt(p, p.grec).mca = m
                 /\ Nsrcs(p, p.grec) > 0

\* Each group of W is in T, with any source if W says so.
Names(T, W) == \A w \in W : /\ \E a \in Addr : <<w[1], a>> \in T
                            /\ w[2] = Any => w \in T

NoAny(W) == \A w \in W : w[2] # Any

\* Behind the last record the buffer is as it was at the start.
Clean(p) == \A o \in DOMAIN p.buf : o >= End(p, p.grec) => p.buf[o] = Zero

\* No record has a stale count of auxiliary words.
NoAux(p, f) == \A k \in 1 .. p.ngrec : p.buf[f[k]].val.aux = 0

\* A packet that is sent has a record; within the MTU its first one is read.
GoodPacket(x) ==
    /\ x.size \in Nat /\ x.size > Header
    /\ x.size <= mtu => 1 \in DOMAIN x.recs
    /\ order = "big" => x.size <= Most

SentOK ==
    /\ \E S : sent \in Seq(S)
    /\ \A j \in DOMAIN sent : GoodPacket(sent[j])

ReadAll(s) == \A j \in DOMAIN s : DOMAIN s[j].recs = 1 .. s[j].ngrec

\* Nothing was packed yet.
Fresh == pack = EmptyPack(mtu) /\ wanted = {} /\ sent = <<>>

\* The packet p, behind packets that told T, names nothing that is not in W.
Holds(p, f, T, W) == /\ Laid(p, f) /\ (p.src # 0 => ~p.any)
                     /\ Listed(p, f) \cup T \subseteq W

\* If all that was sent is read it names every group of W, and every source
\* if nothing was sent yet.
Complete(p, f, s, T, W) ==
    /\ ReadAll(s) => Names(Listed(p, f) \cup T, W)
    /\ s = <<>> /\ NoAny(W) => Clean(p) /\ NoAux(p, f) /\ W \subseteq Listed(p, f)

Filling(f) ==
    /\ Holds(pack, f, Told, wanted)
    /\ pc = "walk" => Current(pack, at.mca) /\ Complete(pack, f, sent, Told, wanted)

\* The last record is behind the buffer: a swapped count put it there.
Astray(p) ==
    /\ order # "big" /\ p.ngrec \in Nat \ {0} /\ p.grec \in Nat /\ p.grec >= mtu
    /\ p.grec \in DOMAIN p.buf /\ p.buf[p.grec].of = "head" /\ Nsrcs(p, p.grec) \in Nat
    /\ p.src # 0 => ~p.any

RInv ==
    /\ mtu \in Mtus /\ order \in Orders /\ pc \in {"walk", "done", "crashed"}
    /\ IsPack(pack) /\ SentOK /\ wanted \subseteq Groups \X Addr /\ Told \subseteq wanted
    /\ Fresh \/ Astray(pack) \/ \E f : Filling(f)
    /\ pc = "done" /\ ReadAll(sent) => Names(Told, wanted)
    /\ pc = "done" /\ Len(sent) = 1 /\ NoAny(wanted) /\ sent[1].size <= mtu =>
          ReadAll(sent) /\ wanted \subseteq Told

----------------------------------------------------------------------------
(* Records that stay, change and come.                                     *)

USE DEF Header, Ip6, Grec, In6, Options, Mld2r

\* The sizes of the buffers.
LEMMA MtuFacts ==
  ASSUME NEW n \in Mtus
  PROVE  n \in Nat /\ n >= 33
  BY MtuAssumption

\* A record only depends on the words it is made of.
LEMMA SameRecord ==
  ASSUME NEW p, NEW q, NEW o \in Nat, Nsrcs(p, o) \in Nat,
         \A x \in o .. End(p, o) - 1 : q.buf[x] = p.buf[x]
  PROVE  /\ RecordAt(q, o) = RecordAt(p, o) /\ Nsrcs(q, o) = Nsrcs(p, o) /\ End(q, o) = End(p, o)
         /\ q.buf[o] = p.buf[o]
  <1>1. o \in o .. End(p, o) - 1 /\ o + 1 \in o .. End(p, o) - 1
    BY DEF End, SourceSlot
  <1>2. q.buf[o] = p.buf[o] /\ q.buf[o + 1] = p.buf[o + 1]
    BY <1>1
  <1>3. Nsrcs(q, o) = Nsrcs(p, o) /\ End(q, o) = End(p, o)
    BY <1>2 DEF Nsrcs, End
  <1>4. \A n \in 0 .. Nsrcs(p, o) - 1 : q.buf[SourceSlot(o, n)] = p.buf[SourceSlot(o, n)]
    BY DEF End, SourceSlot
  <1>5. {q.buf[SourceSlot(o, n)].val : n \in 0 .. Nsrcs(q, o) - 1}
          = {p.buf[SourceSlot(o, n)].val : n \in 0 .. Nsrcs(p, o) - 1}
    BY <1>3, <1>4
  <1> QED BY <1>2, <1>3, <1>5 DEF RecordAt

\* The places of a packet.
LEMMA LaidFacts ==
  ASSUME mtu \in Nat, NEW p, NEW f, Laid(p, f)
  PROVE  /\ p.ngrec \in Nat /\ p.ngrec >= 1 /\ p.ngrec \in 1 .. p.ngrec
         /\ p.grec \in Nat /\ p.grec >= Header + Grec * (p.ngrec - 1)
         /\ p.buf[p.grec].of = "head" /\ Nsrcs(p, p.grec) \in Nat
         /\ End(p, p.grec) <= Most /\ End(p, p.grec) \in Nat
         /\ Header .. End(p, p.grec) - 1 \subseteq DOMAIN p.buf
         /\ p.grec + Grec <= End(p, p.grec)
         /\ \A k \in 1 .. p.ngrec - 1 :
               k \in 1 .. p.ngrec /\ f[k] \in Nat /\ Nsrcs(p, f[k]) \in Nat
               /\ End(p, f[k]) <= p.grec /\ f[k] >= Header
         /\ Listed(p, f) = ListedTo(p, f, p.ngrec - 1) \cup Learnt(RecordAt(p, p.grec))
  <1>1. p.ngrec \in Nat /\ p.ngrec >= 1 /\ p.ngrec \in 1 .. p.ngrec
    BY DEF Laid
  <1>2. f[p.ngrec] = p.grec /\ f[p.ngrec] \in Nat
    BY <1>1 DEF Laid
  <1>3. /\ p.buf[p.grec].of = "head" /\ Nsrcs(p, p.grec) \in Nat
        /\ p.grec >= Header + Grec * (p.ngrec - 1) /\ End(p, p.grec) <= Most
        /\ Header .. End(p, p.grec) - 1 \subseteq DOMAIN p.buf
    BY <1>1, <1>2 DEF Laid
  <1>4. p.grec + Grec <= End(p, p.grec) /\ End(p, p.grec) \in Nat
    BY <1>2, <1>3 DEF End, SourceSlot
  <1>5. ASSUME NEW k \in 1 .. p.ngrec - 1
        PROVE  /\ k \in 1 .. p.ngrec /\ f[k] \in Nat /\ Nsrcs(p, f[k]) \in Nat
               /\ End(p, f[k]) <= p.grec /\ f[k] >= Header
    <2>1. k \in 1 .. p.ngrec /\ k < p.ngrec /\ Grec * (k - 1) >= 0
      BY <1>1
    <2>2. f[k] >= Header + Grec * (k - 1) /\ f[k] \in Nat /\ Nsrcs(p, f[k]) \in Nat
      BY <2>1 DEF Laid
    <2>3. End(p, f[k]) <= f[p.ngrec]
      BY <1>1, <2>1 DEF Laid
    <2> QED BY <1>2, <2>1, <2>2, <2>3
  <1>6. 1 .. p.ngrec = (1 .. p.ngrec - 1) \cup {p.ngrec}
    BY <1>1
  <1>7. Listed(p, f) = ListedTo(p, f, p.ngrec - 1) \cup Learnt(RecordAt(p, p.grec))
    BY <1>2, <1>6 DEF Listed, ListedTo
  <1> QED BY <1>1, <1>2, <1>3, <1>4, <1>5, <1>7

\* The records before the last one stay when what is behind them changes.
LEMMA ListedSame ==
  ASSUME mtu \in Nat, NEW p, NEW q, NEW f, NEW g, Laid(p, f), NEW n \in 0 .. p.ngrec, NEW top \in Nat,
         \A k \in 1 .. n : g[k] = f[k] /\ End(p, f[k]) <= top,
         \A x \in Header .. top - 1 : q.buf[x] = p.buf[x]
  PROVE  /\ \A k \in 1 .. n : /\ RecordAt(q, g[k]) = RecordAt(p, f[k]) /\ End(q, g[k]) = End(p, f[k])
                              /\ Nsrcs(q, g[k]) = Nsrcs(p, f[k]) /\ q.buf[g[k]] = p.buf[f[k]]
         /\ ListedTo(q, g, n) = ListedTo(p, f, n)
  <1>1. ASSUME NEW k \in 1 .. n
        PROVE  /\ RecordAt(q, g[k]) = RecordAt(p, f[k]) /\ End(q, g[k]) = End(p, f[k])
               /\ Nsrcs(q, g[k]) = Nsrcs(p, f[k]) /\ q.buf[g[k]] = p.buf[f[k]]
    <2>1. p.ngrec \in Nat /\ k \in 1 .. p.ngrec /\ Grec * (k - 1) >= 0
      BY LaidFacts
    <2>2. f[k] \in Nat /\ f[k] >= Header /\ Nsrcs(p, f[k]) \in Nat
      <3>1. f[k] >= Header + Grec * (k - 1) /\ f[k] \in Nat /\ Nsrcs(p, f[k]) \in Nat
        BY <2>1 DEF Laid
      <3> QED BY <2>1, <3>1
    <2>3. End(p, f[k]) \in Nat
      BY <2>2 DEF End, SourceSlot
    <2>4. \A x \in f[k] .. End(p, f[k]) - 1 : q.buf[x] = p.buf[x]
      <3> TAKE x \in f[k] .. End(p, f[k]) - 1
      <3>1. x \in Header .. top - 1
        BY <2>2, <2>3
      <3> QED BY <3>1
    <2> QED BY <2>2, <2>4, SameRecord
  <1>2. ListedTo(q, g, n) = ListedTo(p, f, n)
    BY <1>1 DEF ListedTo
  <1> QED BY <1>1, <1>2

\* The last record is rewritten.
LEMMA LastChanged ==
  ASSUME mtu \in Nat, NEW p, NEW q, NEW f, Laid(p, f), q.ngrec = p.ngrec, q.grec = p.grec,
         \A x \in Header .. p.grec - 1 : q.buf[x] = p.buf[x],
         q.buf[q.grec].of = "head", Nsrcs(q, q.grec) \in Nat, End(q, q.grec) <= Most,
         Header .. End(q, q.grec) - 1 \subseteq DOMAIN q.buf
  PROVE  /\ Laid(q, f)
         /\ Listed(q, f) = ListedTo(p, f, p.ngrec - 1) \cup Learnt(RecordAt(q, q.grec))
         /\ NoAux(p, f) /\ q.buf[q.grec].val.aux = 0 => NoAux(q, f)
  <1> DEFINE n == p.ngrec
  <1>1. /\ n \in Nat /\ n >= 1 /\ n \in 1 .. n /\ p.grec \in Nat
        /\ \A k \in 1 .. n - 1 : k \in 1 .. n /\ f[k] \in Nat /\ Nsrcs(p, f[k]) \in Nat /\ End(p, f[k]) <= p.grec
    BY LaidFacts
  <1>2. n - 1 \in 0 .. p.ngrec
    BY <1>1
  <1>3. /\ \A k \in 1 .. n - 1 : /\ RecordAt(q, f[k]) = RecordAt(p, f[k]) /\ End(q, f[k]) = End(p, f[k])
                                 /\ Nsrcs(q, f[k]) = Nsrcs(p, f[k]) /\ q.buf[f[k]] = p.buf[f[k]]
        /\ ListedTo(q, f, n - 1) = ListedTo(p, f, n - 1)
    BY <1>1, <1>2, ListedSame
  <1>4. f \in [1 .. n -> Nat] /\ f[1] = Header /\ f[n] = p.grec
    BY DEF Laid
  <1>5. \A k \in 1 .. n : k = n \/ k \in 1 .. n - 1
    BY <1>1
  <1>6. ASSUME NEW k \in 1 .. n
        PROVE  /\ q.buf[f[k]].of = "head" /\ Nsrcs(q, f[k]) \in Nat
               /\ f[k] >= Header + Grec * (k - 1) /\ End(q, f[k]) <= Most
    <2>1. CASE k = n
      BY <1>4, <2>1 DEF Laid
    <2>2. CASE k \in 1 .. n - 1
      BY <1>3, <2>2 DEF Laid
    <2> QED BY <1>5, <2>1, <2>2
  <1>7. \A k \in 1 .. n - 1 : f[k + 1] = End(q, f[k])
    BY <1>3 DEF Laid
  <1>8. ASSUME NEW j \in 1 .. n, NEW k \in 1 .. n, j < k PROVE End(q, f[j]) <= f[k]
    <2>1. j \in 1 .. n - 1
      BY <1>1, <1>8
    <2>2. End(p, f[j]) <= f[k]
      BY <1>8 DEF Laid
    <2> QED BY <1>3, <2>1, <2>2
  <1>9. Laid(q, f)
    <2>1. q.ngrec \in Nat \ {0}
      BY <1>1
    <2> QED BY <1>4, <1>6, <1>7, <1>8, <2>1 DEF Laid
  <1>10. Listed(q, f) = ListedTo(q, f, q.ngrec - 1) \cup Learnt(RecordAt(q, q.grec))
    BY <1>9, LaidFacts
  <1>11. ASSUME NoAux(p, f), q.buf[q.grec].val.aux = 0, NEW k \in 1 .. n PROVE q.buf[f[k]].val.aux = 0
    <2>1. CASE k = n
      BY <1>4, <1>11, <2>1
    <2>2. CASE k \in 1 .. n - 1
      BY <1>3, <1>11, <2>2 DEF NoAux
    <2> QED BY <1>5, <2>1, <2>2
  <1>12. NoAux(p, f) /\ q.buf[q.grec].val.aux = 0 => NoAux(q, f)
    BY <1>11 DEF NoAux
  <1> QED BY <1>3, <1>9, <1>10, <1>12

\* A record is put behind the last one.
LEMMA RecordAdded ==
  ASSUME mtu \in Nat, NEW p, NEW q, NEW f, Laid(p, f), q.ngrec = p.ngrec + 1, q.grec = End(p, p.grec),
         \A x \in Header .. q.grec - 1 : q.buf[x] = p.buf[x],
         q.buf[q.grec].of = "head", Nsrcs(q, q.grec) \in Nat, End(q, q.grec) <= Most,
         Header .. End(q, q.grec) - 1 \subseteq DOMAIN q.buf
  PROVE  \E g : /\ Laid(q, g)
                /\ Listed(q, g) = Listed(p, f) \cup Learnt(RecordAt(q, q.grec))
                /\ NoAux(p, f) /\ q.buf[q.grec].val.aux = 0 => NoAux(q, g)
  <1> DEFINE n == p.ngrec
             g == [k \in 1 .. n + 1 |-> IF k = n + 1 THEN q.grec ELSE f[k]]
  <1>1. /\ n \in Nat /\ n >= 1 /\ n \in 1 .. n /\ p.grec \in Nat /\ q.grec \in Nat
        /\ p.grec >= Header + Grec * (n - 1) /\ p.grec + Grec <= q.grec
        /\ \A k \in 1 .. n - 1 : k \in 1 .. n /\ f[k] \in Nat /\ Nsrcs(p, f[k]) \in Nat /\ End(p, f[k]) <= p.grec
    BY LaidFacts
  <1>2. f \in [1 .. n -> Nat] /\ f[1] = Header /\ f[n] = p.grec
    BY DEF Laid
  <1>3. /\ g \in [1 .. n + 1 -> Nat] /\ g[n + 1] = q.grec
        /\ \A k \in 1 .. n : g[k] = f[k]
        /\ g[1] = Header /\ (n + 1) - 1 = n
    <2>1. n + 1 \in 1 .. n + 1 /\ (\A k \in 1 .. n : k \in 1 .. n + 1 /\ k # n + 1) /\ 1 \in 1 .. n
      BY <1>1
    <2>2. g \in [1 .. n + 1 -> Nat]
      <3> HIDE DEF n
      <3> QED BY <1>1, <1>2
    <2>3. g[n + 1] = q.grec /\ \A k \in 1 .. n : g[k] = f[k]
      <3> HIDE DEF n
      <3> QED BY <2>1
    <2> QED BY <1>1, <1>2, <2>1, <2>2, <2>3
  <1> HIDE DEF g
  <1>4. \A k \in 1 .. n : End(p, f[k]) <= q.grec
    <2> TAKE k \in 1 .. n
    <2>1. CASE k = n
      BY <1>1, <1>2, <2>1
    <2>2. CASE k # n
      <3>1. k \in 1 .. n - 1
        BY <1>1, <2>2
      <3>2. End(p, f[k]) <= p.grec /\ End(p, f[k]) \in Int
        BY <1>1, <3>1 DEF End, SourceSlot
      <3> QED BY <1>1, <3>2
    <2> QED BY <2>1, <2>2
  <1>5. /\ \A k \in 1 .. n : /\ RecordAt(q, g[k]) = RecordAt(p, f[k]) /\ End(q, g[k]) = End(p, f[k])
                             /\ Nsrcs(q, g[k]) = Nsrcs(p, f[k]) /\ q.buf[g[k]] = p.buf[f[k]]
        /\ ListedTo(q, g, n) = ListedTo(p, f, n)
    <2>1. n \in 0 .. p.ngrec
      BY <1>1
    <2>2. PICK top \in Nat : top = q.grec
      BY <1>1
    <2>3. \A k \in 1 .. n : g[k] = f[k] /\ End(p, f[k]) <= top
      BY <1>3, <1>4, <2>2
    <2>4. \A x \in Header .. top - 1 : q.buf[x] = p.buf[x]
      BY <2>2
    <2> HIDE DEF n
    <2> QED BY <2>1, <2>3, <2>4, ListedSame
  <1>6. \A k \in 1 .. n + 1 : k = n + 1 \/ k \in 1 .. n
    BY <1>1
  <1>7. ASSUME NEW k \in 1 .. n + 1
        PROVE  /\ q.buf[g[k]].of = "head" /\ Nsrcs(q, g[k]) \in Nat
               /\ g[k] >= Header + Grec * (k - 1) /\ End(q, g[k]) <= Most
    <2>1. CASE k = n + 1
      <3>1. k - 1 = n /\ q.grec >= Header + Grec * n
        BY <1>1, <2>1
      <3> QED BY <1>3, <2>1, <3>1
    <2>2. CASE k \in 1 .. n
      BY <1>3, <1>5, <2>2 DEF Laid
    <2> QED BY <1>6, <2>1, <2>2
  <1>8. \A k \in 1 .. n : g[k + 1] = End(q, g[k])
    <2> TAKE k \in 1 .. n
    <2>1. CASE k = n
      BY <1>2, <1>3, <1>5, <2>1
    <2>2. CASE k # n
      <3>1. k \in 1 .. n - 1 /\ k + 1 \in 1 .. n
        BY <1>1, <2>2
      <3> QED BY <1>3, <1>5, <3>1 DEF Laid
    <2> QED BY <2>1, <2>2
  <1>9. ASSUME NEW j \in 1 .. n + 1, NEW k \in 1 .. n + 1, j < k PROVE End(q, g[j]) <= g[k]
    <2>1. j \in 1 .. n
      BY <1>1, <1>9
    <2>2. CASE k = n + 1
      BY <1>3, <1>4, <1>5, <2>1, <2>2
    <2>3. CASE k \in 1 .. n
      <3>1. End(p, f[j]) <= f[k]
        BY <1>9, <2>1, <2>3 DEF Laid
      <3> QED BY <1>3, <1>5, <2>1, <2>3, <3>1
    <2> QED BY <1>6, <2>2, <2>3
  <1>10. Laid(q, g)
    <2>1. q.ngrec \in Nat \ {0} /\ q.ngrec = n + 1 /\ q.ngrec - 1 = n
      BY <1>1
    <2> QED BY <1>3, <1>7, <1>8, <1>9, <2>1 DEF Laid
  <1>11. Listed(q, g) = ListedTo(q, g, q.ngrec - 1) \cup Learnt(RecordAt(q, q.grec))
    BY <1>10, LaidFacts
  <1>12. q.ngrec - 1 = n
    BY <1>1
  <1>13. Listed(q, g) = Listed(p, f) \cup Learnt(RecordAt(q, q.grec))
    BY <1>5, <1>11, <1>12 DEF Listed
  <1>14. ASSUME NoAux(p, f), q.buf[q.grec].val.aux = 0, NEW k \in 1 .. n + 1 PROVE q.buf[g[k]].val.aux = 0
    <2>1. CASE k = n + 1
      BY <1>3, <1>14, <2>1
    <2>2. CASE k \in 1 .. n
      BY <1>5, <1>14, <2>2 DEF NoAux
    <2> QED BY <1>6, <2>1, <2>2
  <1>15. NoAux(p, f) /\ q.buf[q.grec].val.aux = 0 => NoAux(q, g)
    BY <1>14 DEF NoAux
  <1> QED BY <1>10, <1>13, <1>15

\* A record is put into an empty packet.
LEMMA RecordFirst ==
  ASSUME mtu \in Nat, NEW q, q.ngrec = 1, q.grec = Header,
         q.buf[q.grec].of = "head", Nsrcs(q, q.grec) \in Nat, End(q, q.grec) <= Most,
         Header .. End(q, q.grec) - 1 \subseteq DOMAIN q.buf
  PROVE  \E g : /\ Laid(q, g) /\ Listed(q, g) = Learnt(RecordAt(q, q.grec))
                /\ q.buf[q.grec].val.aux = 0 => NoAux(q, g)
  <1> DEFINE g == [k \in 1 .. 1 |-> Header]
  <1>1. g \in [1 .. 1 -> Nat] /\ g[1] = Header /\ (\A k \in 1 .. 1 : k = 1) /\ 1 .. 1 - 1 = {}
    OBVIOUS
  <1> HIDE DEF g
  <1>2. Laid(q, g)
    BY <1>1 DEF Laid
  <1>3. Listed(q, g) = Learnt(RecordAt(q, q.grec))
    BY <1>1 DEF Listed, ListedTo
  <1>4. q.buf[q.grec].val.aux = 0 => NoAux(q, g)
    BY <1>1 DEF NoAux
  <1> QED BY <1>2, <1>3, <1>4

----------------------------------------------------------------------------
(* The receiver.                                                           *)

\* The receiver, who walks from count to count, finds the records where they
\* were put.  Induction over the records.
LEMMA PlacesLaid ==
  ASSUME mtu \in Nat, NEW p, NEW f, Laid(p, f)
  PROVE  Places(p) = f
  <1> DEFINE K == 1 .. p.ngrec
             w == Places(p)
  <1>1. /\ p.ngrec \in Nat /\ p.ngrec >= 1 /\ f \in [K -> Nat] /\ f[1] = Header
        /\ \A k \in 1 .. p.ngrec - 1 : f[k + 1] = SourceSlot(f[k], p.buf[f[k]].val.nsrcs)
    BY LaidFacts DEF Laid, End, Nsrcs
  <1>2. f = [k \in K |-> IF k = 1 THEN Header ELSE SourceSlot(f[k - 1], p.buf[f[k - 1]].val.nsrcs)]
    <2>1. ASSUME NEW k \in K
          PROVE  f[k] = IF k = 1 THEN Header ELSE SourceSlot(f[k - 1], p.buf[f[k - 1]].val.nsrcs)
      <3>1. CASE k = 1
        BY <1>1, <3>1
      <3>2. CASE k # 1
        <4>1. k - 1 \in 1 .. p.ngrec - 1 /\ (k - 1) + 1 = k
          BY <1>1, <3>2
        <4>2. f[(k - 1) + 1] = SourceSlot(f[k - 1], p.buf[f[k - 1]].val.nsrcs)
          BY <1>1, <4>1
        <4> QED BY <3>2, <4>1, <4>2
      <3> QED BY <3>1, <3>2
    <2>2. f = [k \in K |-> f[k]]
      BY <1>1
    <2> QED BY <2>1, <2>2
  <1>3. w = [k \in K |-> IF k = 1 THEN Header ELSE SourceSlot(w[k - 1], p.buf[w[k - 1]].val.nsrcs)]
    BY <1>2 DEF Places
  <1> HIDE DEF w
  <1> DEFINE S == {k \in 0 .. p.ngrec - 1 : w[k + 1] = f[k + 1]}
  <1>4. 0 \in S
    <2>1. 0 \in 0 .. p.ngrec - 1 /\ 0 + 1 = 1 /\ 1 \in K
      BY <1>1
    <2>2. w[1] = Header
      BY <1>3, <2>1
    <2> QED BY <1>1, <2>1, <2>2
  <1>5. ASSUME NEW k \in 0 .. (p.ngrec - 1) - 1, k \in S PROVE k + 1 \in S
    <2>1. /\ k + 1 \in 0 .. p.ngrec - 1 /\ (k + 1) + 1 \in K /\ (k + 1) + 1 # 1
          /\ ((k + 1) + 1) - 1 = k + 1
      BY <1>1
    <2>2. w[(k + 1) + 1] = SourceSlot(w[k + 1], p.buf[w[k + 1]].val.nsrcs)
      BY <1>3, <2>1
    <2>3. f[(k + 1) + 1] = SourceSlot(f[k + 1], p.buf[f[k + 1]].val.nsrcs)
      BY <1>2, <2>1
    <2>4. w[k + 1] = f[k + 1]
      BY <1>5
    <2> QED BY <2>1, <2>2, <2>3, <2>4
  <1>6. 0 .. p.ngrec - 1 \subseteq S
    <2>1. p.ngrec - 1 \in Nat
      BY <1>1
    <2> HIDE DEF S
    <2> QED BY <1>4, <1>5, <2>1, UpTo
  <1>7. \A k \in K : w[k] = f[k]
    <2> TAKE k \in K
    <2>1. k - 1 \in 0 .. p.ngrec - 1 /\ (k - 1) + 1 = k
      BY <1>1
    <2>2. k - 1 \in S
      BY <1>6, <2>1
    <2>3. w[(k - 1) + 1] = f[(k - 1) + 1]
      BY <2>2
    <2> QED BY <2>1, <2>3
  <1>8. w = [k \in K |-> w[k]] /\ f = [k \in K |-> f[k]]
    BY <1>1, <1>3
  <1>9. w = f
    <2> HIDE DEF K
    <2> QED BY <1>7, <1>8
  <1> QED BY <1>9 DEF w

\* The receiver takes the records of a packet within the MTU, up to the first
\* with a stale count of auxiliary words, as they were put there.
LEMMA PacketFacts ==
  ASSUME mtu \in Nat, NEW p, NEW f, Laid(p, f), NEW x, x = Packet(p)
  PROVE  /\ x.size = End(p, p.grec) /\ x.size \in Nat /\ x.size > Header /\ x.size <= Most
         /\ x.ngrec = p.ngrec
         /\ DOMAIN x.recs \subseteq 1 .. p.ngrec
         /\ \A k \in DOMAIN x.recs : x.recs[k] = RecordAt(p, f[k])
         /\ x.size <= mtu => 1 \in DOMAIN x.recs
         /\ x.size <= mtu /\ NoAux(p, f) => DOMAIN x.recs = 1 .. p.ngrec
         /\ UNION {Learnt(x.recs[k]) : k \in DOMAIN x.recs} \subseteq Listed(p, f)
         /\ DOMAIN x.recs = 1 .. p.ngrec =>
               UNION {Learnt(x.recs[k]) : k \in DOMAIN x.recs} = Listed(p, f)
  <1> DEFINE n == p.ngrec
             size == End(p, p.grec)
  <1>1. /\ n \in Nat /\ n >= 1 /\ n \in 1 .. n /\ p.grec \in Nat /\ size \in Nat /\ size <= Most
        /\ p.grec >= Header + Grec * (n - 1) /\ p.grec + Grec <= size
        /\ Nsrcs(p, p.grec) \in Nat
    BY LaidFacts
  <1>2. Places(p) = f
    BY PlacesLaid
  <1>3. Size(p) = size
    BY DEF Size, head, End, Nsrcs
  <1>4. ASSUME NEW j \in 1 .. n
        PROVE  /\ f[j] \in Nat /\ p.buf[f[j]].val.nsrcs \in Nat
               /\ SourceSlot(f[j], p.buf[f[j]].val.nsrcs) <= size
    <2>1. f[j] \in Nat /\ p.buf[f[j]].val.nsrcs \in Nat
      BY DEF Laid, Nsrcs
    <2>2. CASE j = n
      <3>1. f[j] = p.grec
        BY <2>2 DEF Laid
      <3> QED BY <1>1, <2>1, <3>1 DEF End, Nsrcs
    <2>3. CASE j # n
      <3>1. j \in 1 .. n - 1
        BY <1>1, <2>3
      <3>2. End(p, f[j]) <= p.grec
        BY <3>1, LaidFacts
      <3>3. End(p, f[j]) = SourceSlot(f[j], p.buf[f[j]].val.nsrcs)
        BY DEF End, Nsrcs
      <3> QED BY <1>1, <2>1, <3>2, <3>3 DEF SourceSlot
    <2> QED BY <2>2, <2>3
  <1>5. Mld2r + Grec * n <= Plen(size)
    BY <1>1 DEF Plen
  <1>6. \A j \in 1 .. n : /\ f[j] - (Header - Mld2r) <= Plen(size)
                          /\ SourceSlot(f[j], p.buf[f[j]].val.nsrcs) - (Header - Mld2r) <= Plen(size)
    <2> TAKE j \in 1 .. n
    <2>1. f[j] <= SourceSlot(f[j], p.buf[f[j]].val.nsrcs) /\ SourceSlot(f[j], p.buf[f[j]].val.nsrcs) \in Nat
      BY <1>4 DEF SourceSlot
    <2> QED BY <1>1, <1>4, <2>1 DEF Plen
  <1> DEFINE A == {k \in 1 .. n : size <= mtu /\ \A j \in 1 .. k : j < k => p.buf[f[j]].val.aux = 0}
  <1>7. Accepted(p, size) = A
    <2>1. ASSUME NEW k \in 1 .. n, NEW j \in 1 .. k PROVE j \in 1 .. n
      BY <1>1
    <2> HIDE DEF size
    <2> QED BY <1>2, <1>5, <1>6, <2>1 DEF Accepted
  <1> HIDE DEF size
  <1>8. Records(p, size) = [k \in A |-> RecordAt(p, f[k])]
    <2> HIDE DEF A
    <2> QED BY <1>2, <1>7 DEF Records, RecordAt, Nsrcs
  <1>9. x.size = size /\ x.ngrec = n /\ x.recs = [k \in A |-> RecordAt(p, f[k])]
    BY <1>3, <1>8 DEF Packet
  <1>10. A \subseteq 1 .. n /\ (size <= mtu => 1 \in A)
    <2>1. 1 \in 1 .. n /\ \A j \in 1 .. 1 : ~(j < 1)
      BY <1>1
    <2> QED BY <2>1
  <1>11. size <= mtu /\ NoAux(p, f) => A = 1 .. n
    <2> SUFFICES ASSUME size <= mtu, NoAux(p, f), NEW k \in 1 .. n PROVE k \in A
      BY <1>10
    <2>1. ASSUME NEW j \in 1 .. k PROVE p.buf[f[j]].val.aux = 0
      <3>1. j \in 1 .. n
        BY <1>1
      <3> QED BY <3>1 DEF NoAux
    <2> QED BY <2>1
  <1> HIDE DEF A
  <1>12. DOMAIN x.recs = A /\ \A k \in A : x.recs[k] = RecordAt(p, f[k])
    BY <1>9
  <1>13. UNION {Learnt(x.recs[k]) : k \in DOMAIN x.recs} \subseteq Listed(p, f)
    BY <1>10, <1>12 DEF Listed, ListedTo
  <1>14. A = 1 .. n => UNION {Learnt(x.recs[k]) : k \in DOMAIN x.recs} = Listed(p, f)
    BY <1>12 DEF Listed, ListedTo
  <1>15. size \in Nat /\ size > Header /\ size <= Most
    BY <1>1
  <1> QED BY <1>9, <1>10, <1>11, <1>12, <1>13, <1>14, <1>15 DEF size

\* A packet whose last record is astray is refused for its size.
LEMMA AstrayPacket ==
  ASSUME mtu \in Nat, NEW p, Astray(p), NEW x, x = Packet(p)
  PROVE  /\ x.size \in Nat /\ x.size > mtu /\ x.ngrec = p.ngrec /\ x.ngrec \in Nat \ {0}
         /\ DOMAIN x.recs = {}
  <1>1. Size(p) \in Nat /\ Size(p) > mtu
    BY DEF Astray, Size, SourceSlot, head, Nsrcs
  <1>2. Accepted(p, Size(p)) = {}
    BY <1>1 DEF Accepted
  <1>3. DOMAIN Records(p, Size(p)) = {}
    BY <1>2 DEF Records
  <1> QED BY <1>1, <1>3 DEF Packet, Astray

----------------------------------------------------------------------------
(* The buffer.                                                             *)

\* What a word holds.
LEMMA WordFacts ==
  ASSUME NEW t, NEW n, NEW b, NEW v, NEW k, NEW of
  PROVE  /\ Head0(t, n, b).of = "head" /\ Head0(t, n, b).val.type = t
         /\ Head0(t, n, b).val.nsrcs = n /\ Head0(t, n, b).val.aux = b
         /\ Word(of, v, k).val = v /\ Word(of, v, k).of = of
  BY DEF Head0, Word

\* A record is started: its words are the head and the group.  Its count of
\* auxiliary words is 0 where nothing was stored before.
LEMMA StartFacts ==
  ASSUME NEW p, IsPack(p), NEW m, NEW o \in Nat, NEW q, q = StartRecord(p, m, o)
  PROVE  /\ IsPack(q) /\ DOMAIN q.buf = DOMAIN p.buf \cup (o .. o + Grec - 1)
         /\ q.ngrec = p.ngrec + 1 /\ q.grec = o
         /\ q.src = p.src /\ ~q.any
         /\ q.buf[o].of = "head" /\ q.buf[o].val.type = "IS_EX" /\ q.buf[o].val.nsrcs = 0
         /\ o \notin DOMAIN p.buf \/ p.buf[o] = Zero => q.buf[o].val.aux = 0
         /\ q.buf[o + 1] = Word("mca", m, 1)
         /\ \A x \in DOMAIN p.buf : x < o \/ x >= o + Grec => q.buf[x] = p.buf[x]
  <1> DEFINE D == DOMAIN p.buf \cup (o .. o + Grec - 1)
             c == StaleAux(p.buf, o)
             b == [k \in D |-> IF k = o THEN Head0("IS_EX", 0, c)
                               ELSE IF k \in o + 1 .. o + Grec - 1 THEN Word("mca", m, k - o)
                               ELSE p.buf[k]]
  <1>1. DOMAIN p = {"buf", "ngrec", "grec", "src", "any"} /\ DOMAIN p.buf \subseteq Nat
    BY DEF IsPack
  <1>2. /\ q.ngrec = p.ngrec + 1 /\ q.grec = o /\ q.src = p.src /\ q.any = FALSE /\ q.buf = b
        /\ DOMAIN q = {"buf", "ngrec", "grec", "src", "any"}
    <2> HIDE DEF c
    <2> QED BY <1>1 DEF StartRecord, c
  <1>8. o \notin DOMAIN p.buf \/ p.buf[o] = Zero => c = 0
    <2>1. Zero.of = "zero"
      BY DEF Zero, Word
    <2> QED BY <2>1 DEF StaleAux
  <1> HIDE DEF c
  <1>3. o \in D /\ o + 1 \in D /\ o + 1 # o /\ o + 1 \in o + 1 .. o + Grec - 1 /\ (o + 1) - o = 1
    OBVIOUS
  <1>4. b[o] = Head0("IS_EX", 0, c) /\ b[o + 1] = Word("mca", m, 1)
    BY <1>3
  <1>7. b[o].of = "head" /\ b[o].val.type = "IS_EX" /\ b[o].val.nsrcs = 0 /\ b[o].val.aux = c
    BY <1>4, WordFacts
  <1>5. \A x \in DOMAIN p.buf : x < o \/ x >= o + Grec => b[x] = p.buf[x]
    <2> TAKE x \in DOMAIN p.buf
    <2>1. x \in Nat /\ x \in D
      BY <1>1
    <2>2. x < o \/ x >= o + Grec => x # o /\ x \notin o + 1 .. o + Grec - 1
      BY <2>1
    <2> QED BY <2>1, <2>2
  <1>6. DOMAIN b = D /\ D \subseteq Nat
    BY <1>1
  <1> HIDE DEF b
  <1>9. IsPack(q)
    BY <1>2, <1>6 DEF IsPack
  <1> QED BY <1>2, <1>4, <1>5, <1>6, <1>7, <1>8, <1>9

\* A source is put behind those of the last record.
LEMMA SourceFacts ==
  ASSUME NEW q, IsPack(q), NEW a, NEW o \in Nat, q.grec = o, o \in DOMAIN q.buf,
         Nsrcs(q, o) \in Nat, NEW r, r = AddSource(q, a)
  PROVE  /\ IsPack(r) /\ DOMAIN r.buf = DOMAIN q.buf \cup (End(q, o) .. End(q, o) + In6 - 1)
         /\ r.ngrec = q.ngrec /\ r.grec = o
         /\ r.src = End(q, o) /\ r.any = q.any
         /\ r.buf[o] = Head0("IS_IN", Nsrcs(q, o) + 1, q.buf[o].val.aux)
         /\ r.buf[End(q, o)] = Word("src", a, 0)
         /\ \A x \in DOMAIN q.buf :
               x # o /\ (x < End(q, o) \/ x >= End(q, o) + In6) => r.buf[x] = q.buf[x]
  <1> DEFINE e == SourceSlot(o, head(q).nsrcs)
             D == DOMAIN q.buf \cup (e .. e + In6 - 1)
             b == [k \in D |-> IF k = o THEN Head0("IS_IN", head(q).nsrcs + 1, head(q).aux)
                               ELSE IF k \in e .. e + In6 - 1 THEN Word("src", a, k - e)
                               ELSE q.buf[k]]
  <1>1. DOMAIN q = {"buf", "ngrec", "grec", "src", "any"} /\ DOMAIN q.buf \subseteq Nat
    BY DEF IsPack
  <1>2. /\ e = End(q, o) /\ e \in Nat /\ e >= o + Grec /\ head(q).nsrcs = Nsrcs(q, o)
        /\ head(q).aux = q.buf[o].val.aux
    BY DEF End, Nsrcs, head, SourceSlot
  <1>3. /\ r.ngrec = q.ngrec /\ r.grec = o /\ r.src = e /\ r.any = q.any /\ r.buf = b
        /\ DOMAIN r = {"buf", "ngrec", "grec", "src", "any"}
    BY <1>1 DEF AddSource
  <1> HIDE DEF e
  <1>4. o \in D /\ e \in D /\ e # o /\ e \in e .. e + In6 - 1 /\ e - e = 0
    BY <1>2
  <1>5. b[o] = Head0("IS_IN", Nsrcs(q, o) + 1, q.buf[o].val.aux) /\ b[e] = Word("src", a, 0)
    BY <1>2, <1>4
  <1>6. \A x \in DOMAIN q.buf : x # o /\ (x < e \/ x >= e + In6) => b[x] = q.buf[x]
    <2> TAKE x \in DOMAIN q.buf
    <2>1. x \in Nat /\ x \in D
      BY <1>1
    <2>2. x < e \/ x >= e + In6 => x \notin e .. e + In6 - 1
      BY <1>2, <2>1
    <2> QED BY <2>1, <2>2
  <1>7. DOMAIN b = D /\ D \subseteq Nat
    BY <1>1, <1>2
  <1> HIDE DEF b
  <1>8. IsPack(r)
    BY <1>3, <1>7 DEF IsPack
  <1> QED BY <1>2, <1>3, <1>5, <1>6, <1>7, <1>8

\* The sources of the last record are dropped.
LEMMA DropFacts ==
  ASSUME NEW p, IsPack(p), NEW o \in Nat, p.grec = o, o \in DOMAIN p.buf, NEW r, r = DropSources(p)
  PROVE  /\ IsPack(r) /\ DOMAIN r.buf = DOMAIN p.buf
         /\ r.ngrec = p.ngrec /\ r.grec = o
         /\ r.src = 0
         /\ r.buf[o] = Head0("IS_EX", 0, head(p).aux)
         /\ \A x \in DOMAIN p.buf : x # o => r.buf[x] = p.buf[x]
  <1> DEFINE b == [p.buf EXCEPT ![o] = Head0("IS_EX", 0, head(p).aux)]
  <1>1. DOMAIN p = {"buf", "ngrec", "grec", "src", "any"}
    BY DEF IsPack
  <1>2. /\ r.ngrec = p.ngrec /\ r.grec = o /\ r.src = 0 /\ r.any = TRUE /\ r.buf = b
        /\ DOMAIN r = {"buf", "ngrec", "grec", "src", "any"}
    BY <1>1 DEF DropSources
  <1>3. b[o] = Head0("IS_EX", 0, head(p).aux) /\ \A x \in DOMAIN p.buf : x # o => b[x] = p.buf[x]
    OBVIOUS
  <1>4. DOMAIN b = DOMAIN p.buf
    OBVIOUS
  <1> HIDE DEF b
  <1> QED BY <1>2, <1>3, <1>4 DEF IsPack

----------------------------------------------------------------------------
(* One wish goes into the packet.                                          *)

\* A record with its first source, or for any source.
Started(p, m, a, o) ==
    IF a = Any THEN [StartRecord(p, m, o) EXCEPT !.any = TRUE] ELSE AddSource(StartRecord(p, m, o), a)

\* A record that is started tells the wish it is started for, and only the
\* words of this record change.
LEMMA StartedFacts ==
  ASSUME NEW p, IsPack(p), NEW m, NEW a, NEW o \in Nat, p.src = 0, NEW r, r = Started(p, m, a, o)
  PROVE  /\ IsPack(r) /\ r.ngrec = p.ngrec + 1 /\ r.grec = o /\ (r.src # 0 => ~r.any)
         /\ Current(r, m) /\ o \in DOMAIN r.buf
         /\ r.buf[o].of = "head" /\ Nsrcs(r, o) \in Nat /\ End(r, o) \in Nat
         /\ End(r, o) >= o + Grec /\ End(r, o) <= o + Grec + (IF a = Any THEN 0 ELSE In6)
         /\ DOMAIN r.buf = DOMAIN p.buf \cup (o .. End(r, o) - 1)
         /\ \A x \in DOMAIN p.buf : x < o \/ x >= End(r, o) => r.buf[x] = p.buf[x]
         /\ o \notin DOMAIN p.buf \/ p.buf[o] = Zero => r.buf[o].val.aux = 0
         /\ Learnt(RecordAt(r, o)) = {<<m, a>>}
  <1>0. PICK q : q = StartRecord(p, m, o)
    OBVIOUS
  <1>1. /\ IsPack(q) /\ DOMAIN q.buf = DOMAIN p.buf \cup (o .. o + Grec - 1)
        /\ q.ngrec = p.ngrec + 1 /\ q.grec = o /\ q.src = p.src /\ ~q.any
        /\ q.buf[o].of = "head" /\ q.buf[o].val.type = "IS_EX" /\ q.buf[o].val.nsrcs = 0
        /\ o \notin DOMAIN p.buf \/ p.buf[o] = Zero => q.buf[o].val.aux = 0
        /\ q.buf[o + 1] = Word("mca", m, 1)
        /\ \A x \in DOMAIN p.buf : x < o \/ x >= o + Grec => q.buf[x] = p.buf[x]
    BY <1>0, StartFacts
  <1>2. Nsrcs(q, o) = 0 /\ End(q, o) = o + Grec /\ q.buf[o].val.type = "IS_EX" /\ q.buf[o + 1].val = m
    BY <1>1, WordFacts DEF Nsrcs, End, SourceSlot
  <1>5. o \in DOMAIN q.buf /\ o + 1 \in DOMAIN q.buf /\ DOMAIN p.buf \subseteq Nat
    BY <1>1 DEF IsPack
  <1>3. CASE a = Any
    <2>1. r = [q EXCEPT !.any = TRUE]
      BY <1>0, <1>3 DEF Started
    <2>2. r.buf = q.buf /\ r.ngrec = q.ngrec /\ r.grec = q.grec /\ r.src = q.src /\ DOMAIN r = DOMAIN q
      BY <1>1, <2>1 DEF IsPack
    <2>3. IsPack(r)
      BY <1>1, <2>2 DEF IsPack
    <2>4. Nsrcs(r, o) = 0 /\ End(r, o) = o + Grec /\ r.buf[o] = q.buf[o] /\ r.buf[o + 1] = q.buf[o + 1]
      BY <1>2, <2>2 DEF Nsrcs, End
    <2>5. r.buf[o].of = "head"
      BY <1>1, <2>4, WordFacts
    <2>6. RecordAt(r, o).type = "IS_EX" /\ RecordAt(r, o).mca = m /\ RecordAt(r, o).srcs = {}
      BY <1>2, <2>4 DEF RecordAt
    <2>7. Learnt(RecordAt(r, o)) = {<<m, a>>}
      BY <1>3, <2>6 DEF Learnt
    <2>8. Current(r, m) /\ r.src = 0
      BY <1>1, <2>2 DEF Current
    <2>9. DOMAIN r.buf = DOMAIN p.buf \cup (o .. End(r, o) - 1) /\ o \in DOMAIN r.buf
      BY <1>1, <1>5, <2>2, <2>4
    <2>10. End(r, o) >= o + Grec /\ End(r, o) <= o + Grec + (IF a = Any THEN 0 ELSE In6) /\ End(r, o) \in Nat
      BY <1>3, <2>4
    <2>11. \A x \in DOMAIN p.buf : x < o \/ x >= End(r, o) => r.buf[x] = p.buf[x]
      BY <1>1, <2>2, <2>4
    <2> QED BY <1>1, <2>2, <2>3, <2>4, <2>5, <2>7, <2>8, <2>9, <2>10, <2>11
  <1>4. CASE a # Any
    <2>1. r = AddSource(q, a)
      BY <1>0, <1>4 DEF Started
    <2>2. Nsrcs(q, o) \in Nat /\ End(q, o) = o + Grec
      BY <1>2, <1>4
    <2>3. /\ IsPack(r) /\ DOMAIN r.buf = DOMAIN q.buf \cup (o + Grec .. (o + Grec) + In6 - 1)
          /\ r.ngrec = q.ngrec /\ r.grec = o /\ r.any = q.any
          /\ r.buf[o] = Head0("IS_IN", Nsrcs(q, o) + 1, q.buf[o].val.aux)
          /\ r.buf[o + Grec] = Word("src", a, 0)
          /\ \A x \in DOMAIN q.buf : x # o /\ (x < o + Grec \/ x >= (o + Grec) + In6) => r.buf[x] = q.buf[x]
      BY <1>1, <1>5, <2>1, <2>2, SourceFacts
    <2>4. /\ Nsrcs(r, o) = 1 /\ End(r, o) = o + Grec + In6 /\ r.buf[o].of = "head"
          /\ r.buf[o].val.type = "IS_IN" /\ r.buf[o].val.aux = q.buf[o].val.aux
      BY <1>2, <2>3, WordFacts DEF Nsrcs, End, SourceSlot
    <2>5. r.buf[o + 1].val = m
      <3>1. o + 1 # o /\ o + 1 < o + Grec
        OBVIOUS
      <3> QED BY <1>2, <1>5, <2>3, <3>1
    <2>6. {r.buf[SourceSlot(o, n)].val : n \in 0 .. Nsrcs(r, o) - 1} = {a}
      <3>1. 0 .. Nsrcs(r, o) - 1 = {0} /\ SourceSlot(o, 0) = o + Grec
        BY <2>4 DEF SourceSlot
      <3> QED BY <2>3, <3>1, WordFacts
    <2>7. RecordAt(r, o).type = "IS_IN" /\ RecordAt(r, o).mca = m /\ RecordAt(r, o).srcs = {a}
      BY <2>4, <2>5, <2>6 DEF RecordAt
    <2>8. Learnt(RecordAt(r, o)) = {<<m, a>>}
      BY <2>7 DEF Learnt
    <2>9. ASSUME NEW x \in DOMAIN p.buf, x < o \/ x >= End(r, o) PROVE r.buf[x] = p.buf[x]
      <3>1. x \in Nat /\ x \in DOMAIN q.buf
        BY <1>1, <1>5
      <3>2. x # o /\ (x < o + Grec \/ x >= (o + Grec) + In6) /\ (x < o \/ x >= o + Grec)
        BY <2>4, <2>9, <3>1
      <3> QED BY <1>1, <2>3, <3>1, <3>2
    <2>10. Current(r, m)
      BY <2>3, <2>4, <2>7 DEF Current
    <2>11. DOMAIN r.buf = DOMAIN p.buf \cup (o .. End(r, o) - 1)
      <3>1. o .. End(r, o) - 1 = (o .. o + Grec - 1) \cup (o + Grec .. (o + Grec) + In6 - 1)
        BY <2>4
      <3> QED BY <1>1, <2>3, <3>1
    <2>12. o \in DOMAIN r.buf
      BY <1>5, <2>3
    <2>13. End(r, o) >= o + Grec /\ End(r, o) <= o + Grec + (IF a = Any THEN 0 ELSE In6) /\ End(r, o) \in Nat
      BY <1>4, <2>4
    <2>14. r.src # 0 => ~r.any
      BY <1>1, <2>3
    <2>15. r.ngrec = p.ngrec + 1 /\ (o \notin DOMAIN p.buf \/ p.buf[o] = Zero => r.buf[o].val.aux = 0)
      BY <1>1, <2>3, <2>4
    <2> QED BY <2>3, <2>4, <2>8, <2>9, <2>10, <2>11, <2>12, <2>13, <2>14, <2>15
  <1> QED BY <1>3, <1>4

\* A source that is put into a record is told, with those that were there.
LEMMA SourcedFacts ==
  ASSUME NEW p, IsPack(p), NEW m, NEW a, NEW o \in Nat, p.grec = o,
         Nsrcs(p, o) \in Nat, o .. End(p, o) - 1 \subseteq DOMAIN p.buf, ~p.any,
         RecordAt(p, o).type = "IS_IN", RecordAt(p, o).mca = m, NEW r, r = AddSource(p, a)
  PROVE  /\ IsPack(r) /\ r.ngrec = p.ngrec /\ r.grec = o /\ ~r.any
         /\ Current(r, m)
         /\ r.buf[o].of = "head" /\ Nsrcs(r, o) \in Nat /\ End(r, o) \in Nat
         /\ r.buf[o].val.aux = p.buf[o].val.aux
         /\ End(r, o) = End(p, o) + In6 /\ End(p, o) \in Nat
         /\ DOMAIN r.buf = DOMAIN p.buf \cup (End(p, o) .. End(r, o) - 1)
         /\ \A x \in DOMAIN p.buf : x < o \/ x >= End(r, o) => r.buf[x] = p.buf[x]
         /\ Learnt(RecordAt(r, o)) = Learnt(RecordAt(p, o)) \cup {<<m, a>>}
  <1> DEFINE N == Nsrcs(p, o)
             e == End(p, o)
  <1>2. e = SourceSlot(o, N) /\ e = o + Grec + In6 * N /\ e \in Nat /\ e >= o + Grec
    BY DEF End, SourceSlot
  <1>0. o \in DOMAIN p.buf /\ DOMAIN p.buf \subseteq Nat
    <2> HIDE DEF e
    <2>1. o \in o .. e - 1
      BY <1>2
    <2> QED BY <2>1 DEF e, IsPack
  <1>1. /\ IsPack(r) /\ DOMAIN r.buf = DOMAIN p.buf \cup (e .. e + In6 - 1)
        /\ r.ngrec = p.ngrec /\ r.grec = o /\ r.any = p.any
        /\ r.buf[o] = Head0("IS_IN", N + 1, p.buf[o].val.aux)
        /\ r.buf[e] = Word("src", a, 0)
        /\ \A x \in DOMAIN p.buf : x # o /\ (x < e \/ x >= e + In6) => r.buf[x] = p.buf[x]
    BY <1>0, SourceFacts
  <1>3. /\ Nsrcs(r, o) = N + 1 /\ End(r, o) = e + In6 /\ r.buf[o].of = "head"
        /\ r.buf[o].val.type = "IS_IN" /\ r.buf[o].val.aux = p.buf[o].val.aux
    <2>1. /\ Nsrcs(r, o) = N + 1 /\ r.buf[o].of = "head" /\ r.buf[o].val.type = "IS_IN"
          /\ r.buf[o].val.aux = p.buf[o].val.aux
      BY <1>1, WordFacts DEF Nsrcs
    <2>2. End(r, o) = o + Grec + In6 * (N + 1)
      BY <2>1 DEF End, SourceSlot
    <2> HIDE DEF e
    <2> QED BY <1>2, <2>1, <2>2
  <1>14. o .. e - 1 \subseteq DOMAIN p.buf
    BY DEF e
  <1> HIDE DEF e, N
  <1>4. N \in Nat
    BY DEF N
  <1>5. r.buf[o + 1].val = m
    <2>1. o + 1 \in o .. e - 1 /\ o + 1 # o /\ o + 1 < e
      BY <1>2, <1>4
    <2>2. p.buf[o + 1].val = m
      BY DEF RecordAt
    <2> QED BY <1>1, <1>14, <2>1, <2>2
  <1>6. ASSUME NEW n \in 0 .. N - 1 PROVE r.buf[SourceSlot(o, n)] = p.buf[SourceSlot(o, n)]
    <2>1. SourceSlot(o, n) \in o .. e - 1 /\ SourceSlot(o, n) # o /\ SourceSlot(o, n) < e
      BY <1>2, <1>4 DEF SourceSlot
    <2> QED BY <1>1, <1>14, <2>1
  <1> DEFINE A(b, n) == {b.buf[SourceSlot(o, k)].val : k \in 0 .. n - 1}
  <1>7. A(r, N + 1) = A(p, N) \cup {a}
    <2>1. 0 .. (N + 1) - 1 = (0 .. N - 1) \cup {N}
      BY <1>4
    <2>2. r.buf[SourceSlot(o, N)].val = a
      BY <1>1, <1>2, WordFacts
    <2> QED BY <1>6, <2>1, <2>2
  <1>8. /\ RecordAt(r, o).type = "IS_IN" /\ RecordAt(r, o).mca = m
        /\ RecordAt(r, o).srcs = RecordAt(p, o).srcs \cup {a}
    <2>1. RecordAt(r, o).srcs = A(r, N + 1) /\ RecordAt(p, o).srcs = A(p, N)
      BY <1>3 DEF RecordAt, N
    <2> HIDE DEF A
    <2>2. RecordAt(r, o).type = "IS_IN" /\ RecordAt(r, o).mca = m
      BY <1>3, <1>5 DEF RecordAt
    <2> QED BY <1>7, <2>1, <2>2
  <1>9. Learnt(RecordAt(r, o)) = Learnt(RecordAt(p, o)) \cup {<<m, a>>}
    BY <1>8 DEF Learnt
  <1>10. ASSUME NEW x \in DOMAIN p.buf, x < o \/ x >= End(r, o) PROVE r.buf[x] = p.buf[x]
    <2>0. x \in Nat
      BY <1>0
    <2>1. x # o /\ (x < e \/ x >= e + In6)
      BY <1>2, <1>3, <1>10, <2>0
    <2> QED BY <1>1, <2>1
  <1>11. Current(r, m)
    BY <1>1, <1>3, <1>4, <1>8 DEF Current
  <1>12. ~r.any
    BY <1>1
  <1>13. e = End(p, o)
    BY DEF e
  <1>15. DOMAIN r.buf = DOMAIN p.buf \cup (e .. End(r, o) - 1) /\ End(r, o) \in Nat /\ Nsrcs(r, o) \in Nat
    BY <1>1, <1>2, <1>3, <1>4
  <1> QED BY <1>1, <1>2, <1>3, <1>9, <1>10, <1>11, <1>12, <1>13, <1>15

\* A record that lost its sources tells any source of its group.
LEMMA DroppedFacts ==
  ASSUME NEW p, IsPack(p), NEW o \in Nat, p.grec = o, o \in DOMAIN p.buf, o + 1 \in DOMAIN p.buf,
         NEW r, r = DropSources(p)
  PROVE  /\ IsPack(r) /\ r.ngrec = p.ngrec /\ r.grec = o /\ r.src = 0 /\ DOMAIN r.buf = DOMAIN p.buf
         /\ r.buf[o].of = "head" /\ Nsrcs(r, o) = 0 /\ End(r, o) = o + Grec
         /\ \A x \in DOMAIN p.buf : x # o => r.buf[x] = p.buf[x]
         /\ Learnt(RecordAt(r, o)) = {<<RecordAt(p, o).mca, Any>>}
  <1>1. /\ IsPack(r) /\ r.ngrec = p.ngrec /\ r.grec = o /\ r.src = 0 /\ DOMAIN r.buf = DOMAIN p.buf
        /\ r.buf[o] = Head0("IS_EX", 0, head(p).aux)
        /\ \A x \in DOMAIN p.buf : x # o => r.buf[x] = p.buf[x]
    BY DropFacts
  <1>2. r.buf[o].of = "head" /\ r.buf[o].val.type = "IS_EX" /\ r.buf[o].val.nsrcs = 0
    BY <1>1, WordFacts
  <1>3. Nsrcs(r, o) = 0 /\ End(r, o) = o + Grec
    BY <1>2 DEF Nsrcs, End, SourceSlot
  <1>4. r.buf[o + 1] = p.buf[o + 1]
    <2>1. o + 1 # o
      OBVIOUS
    <2> QED BY <1>1, <2>1
  <1>5. /\ RecordAt(r, o).type = "IS_EX" /\ RecordAt(r, o).srcs = {}
        /\ RecordAt(r, o).mca = RecordAt(p, o).mca
    BY <1>2, <1>3, <1>4 DEF RecordAt
  <1>6. Learnt(RecordAt(r, o)) = {<<RecordAt(p, o).mca, Any>>}
    BY <1>5 DEF Learnt
  <1> QED BY <1>1, <1>2, <1>3, <1>6

\* A set that grows names what it named, and a new wish that is in it.
LEMMA NamesMore ==
  ASSUME NEW T, NEW U, NEW W, Names(T, W), T \subseteq U, NEW m, NEW a \in Addr, <<m, a>> \in U
  PROVE  Names(U, W \cup {<<m, a>>})
  <1>1. ASSUME NEW w \in W
        PROVE  (\E b \in Addr : <<w[1], b>> \in U) /\ (w[2] = Any => w \in U)
    BY DEF Names
  <1>2. ASSUME NEW w, w = <<m, a>>
        PROVE  (\E b \in Addr : <<w[1], b>> \in U) /\ (w[2] = Any => w \in U)
    BY <1>2
  <1> QED BY <1>1, <1>2 DEF Names

\* A record for the wish is started behind the last one.
LEMMA BehindKept ==
  ASSUME mtu \in Nat, NEW p, IsPack(p), NEW f, NEW s, NEW T, NEW W, NEW m, NEW a \in Addr,
         Holds(p, f, T, W), Complete(p, f, s, T, W), p.src = 0,
         NEW o \in Nat, o = End(p, p.grec), o <= mtu,
         NEW r, r = Started(p, m, a, o)
  PROVE  \E g : Holds(r, g, T, W \cup {<<m, a>>}) /\ Complete(r, g, s, T, W \cup {<<m, a>>})
  <1>1. Laid(p, f) /\ Listed(p, f) \cup T \subseteq W
    BY DEF Holds
  <1>2. /\ p.grec \in Nat /\ p.grec >= Header /\ p.grec + Grec <= o /\ Header .. o - 1 \subseteq DOMAIN p.buf
        /\ DOMAIN p.buf \subseteq Nat
    <2>1. /\ p.ngrec \in Nat /\ p.ngrec >= 1 /\ p.grec \in Nat /\ p.grec >= Header + Grec * (p.ngrec - 1)
          /\ p.grec + Grec <= o /\ Header .. o - 1 \subseteq DOMAIN p.buf
      BY <1>1, LaidFacts
    <2> QED BY <2>1 DEF IsPack
  <1>3. /\ r.ngrec = p.ngrec + 1 /\ r.grec = o /\ (r.src # 0 => ~r.any)
        /\ r.buf[o].of = "head" /\ Nsrcs(r, o) \in Nat /\ End(r, o) \in Nat
        /\ End(r, o) >= o + Grec /\ End(r, o) <= o + Grec + (IF a = Any THEN 0 ELSE In6)
        /\ DOMAIN r.buf = DOMAIN p.buf \cup (o .. End(r, o) - 1)
        /\ \A x \in DOMAIN p.buf : x < o \/ x >= End(r, o) => r.buf[x] = p.buf[x]
        /\ o \notin DOMAIN p.buf \/ p.buf[o] = Zero => r.buf[o].val.aux = 0
        /\ Learnt(RecordAt(r, o)) = {<<m, a>>}
    BY StartedFacts
  <1>4. \A x \in Header .. r.grec - 1 : r.buf[x] = p.buf[x]
    <2> TAKE x \in Header .. r.grec - 1
    <2>1. x \in Header .. o - 1 /\ x < o
      BY <1>3
    <2> QED BY <1>2, <1>3, <2>1
  <1>5. PICK g : /\ Laid(r, g) /\ Listed(r, g) = Listed(p, f) \cup {<<m, a>>}
                 /\ NoAux(p, f) /\ r.buf[o].val.aux = 0 => NoAux(r, g)
    <2>1. End(r, o) <= Most
      BY <1>3 DEF Most
    <2>3. Header .. End(r, o) - 1 \subseteq DOMAIN r.buf
      <3>1. \A x \in Header .. End(r, o) - 1 : x \in Header .. o - 1 \/ x \in o .. End(r, o) - 1
        BY <1>3
      <3> QED BY <1>2, <1>3, <3>1
    <2>4. /\ r.ngrec = p.ngrec + 1 /\ r.grec = End(p, p.grec) /\ r.buf[r.grec].of = "head"
          /\ Nsrcs(r, r.grec) \in Nat /\ End(r, r.grec) <= Most
          /\ Header .. End(r, r.grec) - 1 \subseteq DOMAIN r.buf
      BY <1>3, <2>1, <2>3
    <2>2. \E g : /\ Laid(r, g) /\ Listed(r, g) = Listed(p, f) \cup Learnt(RecordAt(r, r.grec))
                 /\ NoAux(p, f) /\ r.buf[r.grec].val.aux = 0 => NoAux(r, g)
      BY <1>1, <1>4, <2>4, RecordAdded
    <2> QED BY <1>3, <2>2
  <1>6. Holds(r, g, T, W \cup {<<m, a>>})
    BY <1>1, <1>3, <1>5 DEF Holds
  <1>7. ASSUME ReadAll(s) PROVE Names(Listed(r, g) \cup T, W \cup {<<m, a>>})
    <2>1. Names(Listed(p, f) \cup T, W)
      BY <1>7 DEF Complete
    <2>2. <<m, a>> \in Listed(r, g) \cup T /\ Listed(p, f) \cup T \subseteq Listed(r, g) \cup T
      BY <1>5
    <2> HIDE DEF Header
    <2> QED BY <2>1, <2>2, NamesMore
  <1>8. ASSUME s = <<>>, NoAny(W \cup {<<m, a>>})
        PROVE  Clean(r) /\ NoAux(r, g) /\ W \cup {<<m, a>>} \subseteq Listed(r, g)
    <2>1. NoAny(W)
      BY <1>8 DEF NoAny
    <2>2. Clean(p) /\ NoAux(p, f) /\ W \subseteq Listed(p, f)
      BY <1>8, <2>1 DEF Complete
    <2>3. ASSUME NEW x \in DOMAIN r.buf, x >= End(r, o) PROVE r.buf[x] = Zero
      <3>1. x \in DOMAIN p.buf /\ x \in Nat
        <4>1. x \notin o .. End(r, o) - 1
          BY <1>3, <2>3
        <4> QED BY <1>2, <1>3, <4>1
      <3>2. p.buf[x] = Zero
        <4>1. x >= o
          BY <1>3, <2>3, <3>1
        <4> QED BY <2>2, <3>1, <4>1 DEF Clean
      <3> QED BY <1>3, <2>3, <3>1, <3>2
    <2>4. r.buf[o].val.aux = 0
      <3>1. o \in DOMAIN p.buf => p.buf[o] = Zero
        BY <2>2 DEF Clean
      <3> QED BY <1>3, <3>1
    <2> QED BY <1>3, <1>5, <2>2, <2>3, <2>4 DEF Clean
  <1>9. Complete(r, g, s, T, W \cup {<<m, a>>})
    BY <1>7, <1>8 DEF Complete
  <1> QED BY <1>6, <1>9

\* A record for the wish is started in an empty packet.
LEMMA FirstKept ==
  ASSUME mtu \in Nat, NEW p, IsPack(p), NEW s, NEW T, NEW W, NEW m, NEW a \in Addr,
         p.ngrec = 0, p.src = 0, Header + Grec + In6 <= mtu, T \subseteq W, ReadAll(s) => Names(T, W),
         s = <<>> => W = {} /\ \A x \in DOMAIN p.buf : p.buf[x] = Zero,
         NEW r, r = Started(p, m, a, Header)
  PROVE  \E g : Holds(r, g, T, W \cup {<<m, a>>}) /\ Complete(r, g, s, T, W \cup {<<m, a>>})
  <1>0. DOMAIN p.buf \subseteq Nat
    BY DEF IsPack
  <1>1. /\ r.ngrec = 1 /\ r.grec = Header /\ (r.src # 0 => ~r.any)
        /\ r.buf[Header].of = "head" /\ Nsrcs(r, Header) \in Nat
        /\ End(r, Header) \in Nat /\ End(r, Header) >= Header + Grec
        /\ End(r, Header) <= Header + Grec + (IF a = Any THEN 0 ELSE In6)
        /\ DOMAIN r.buf = DOMAIN p.buf \cup (Header .. End(r, Header) - 1)
        /\ \A x \in DOMAIN p.buf : x < Header \/ x >= End(r, Header) => r.buf[x] = p.buf[x]
        /\ Header \notin DOMAIN p.buf \/ p.buf[Header] = Zero => r.buf[Header].val.aux = 0
        /\ Learnt(RecordAt(r, Header)) = {<<m, a>>}
    <2>1. Header \in Nat /\ 0 + 1 = 1
      OBVIOUS
    <2> QED BY <2>1, StartedFacts
  <1>7. End(r, Header) <= mtu /\ End(r, Header) <= Most /\ Header .. End(r, Header) - 1 \subseteq DOMAIN r.buf
    BY <1>1 DEF Most
  <1>2. PICK g : Laid(r, g) /\ Listed(r, g) = {<<m, a>>} /\ (r.buf[Header].val.aux = 0 => NoAux(r, g))
    BY <1>1, <1>7, RecordFirst
  <1>3. Holds(r, g, T, W \cup {<<m, a>>})
    BY <1>1, <1>2 DEF Holds
  <1>4. ASSUME ReadAll(s) PROVE Names(Listed(r, g) \cup T, W \cup {<<m, a>>})
    <2>1. <<m, a>> \in Listed(r, g) \cup T /\ T \subseteq Listed(r, g) \cup T
      BY <1>2
    <2> QED BY <1>4, <2>1, NamesMore
  <1>5. ASSUME s = <<>> PROVE Clean(r) /\ NoAux(r, g) /\ W \cup {<<m, a>>} \subseteq Listed(r, g)
    <2>1. W = {} /\ \A x \in DOMAIN p.buf : p.buf[x] = Zero
      BY <1>5
    <2>2. ASSUME NEW x \in DOMAIN r.buf, x >= End(r, Header) PROVE r.buf[x] = Zero
      <3>1. x \in DOMAIN p.buf
        <4>1. x \notin Header .. End(r, Header) - 1
          BY <1>1, <2>2
        <4> QED BY <1>1, <4>1
      <3> QED BY <1>1, <2>1, <2>2, <3>1
    <2>3. r.buf[Header].val.aux = 0
      BY <1>1, <2>1
    <2> QED BY <1>1, <1>2, <2>1, <2>2, <2>3 DEF Clean
  <1>6. Complete(r, g, s, T, W \cup {<<m, a>>})
    BY <1>4, <1>5 DEF Complete
  <1> QED BY <1>3, <1>6

\* A source goes into the last record, which is one of its group.
LEMMA SourceKept ==
  ASSUME mtu \in Nat, NEW p, IsPack(p), NEW f, NEW s, NEW T, NEW W, NEW m, NEW a \in Addr,
         Holds(p, f, T, W), Complete(p, f, s, T, W), Current(p, m), p.src # 0,
         End(p, p.grec) + In6 <= mtu, NEW r, r = AddSource(p, a)
  PROVE  /\ IsPack(r) /\ Current(r, m)
         /\ Holds(r, f, T, W \cup {<<m, a>>}) /\ Complete(r, f, s, T, W \cup {<<m, a>>})
  <1>1. Laid(p, f) /\ Listed(p, f) \cup T \subseteq W /\ ~p.any
    BY DEF Holds
  <1>4. PICK o : o = p.grec
    OBVIOUS
  <1>2. /\ o \in Nat /\ o >= Header /\ Nsrcs(p, o) \in Nat /\ End(p, o) \in Nat /\ o + Grec <= End(p, o)
        /\ Listed(p, f) = ListedTo(p, f, p.ngrec - 1) \cup Learnt(RecordAt(p, o))
        /\ Header .. End(p, o) - 1 \subseteq DOMAIN p.buf
    <2>1. /\ p.ngrec \in Nat /\ p.ngrec >= 1 /\ p.grec \in Nat /\ p.grec >= Header + Grec * (p.ngrec - 1)
          /\ Nsrcs(p, o) \in Nat /\ End(p, o) \in Nat /\ o + Grec <= End(p, o)
          /\ Listed(p, f) = ListedTo(p, f, p.ngrec - 1) \cup Learnt(RecordAt(p, o))
          /\ Header .. End(p, o) - 1 \subseteq DOMAIN p.buf
      BY <1>1, <1>4, LaidFacts
    <2> QED BY <1>4, <2>1
  <1>3. RecordAt(p, o).type = "IS_IN" /\ RecordAt(p, o).mca = m
    BY <1>4 DEF Current
  <1>5. /\ IsPack(r) /\ r.ngrec = p.ngrec /\ r.grec = o /\ ~r.any
        /\ Current(r, m)
        /\ r.buf[o].of = "head" /\ Nsrcs(r, o) \in Nat /\ End(r, o) \in Nat
        /\ r.buf[o].val.aux = p.buf[o].val.aux
        /\ End(r, o) = End(p, o) + In6
        /\ DOMAIN r.buf = DOMAIN p.buf \cup (End(p, o) .. End(r, o) - 1)
        /\ \A y \in DOMAIN p.buf : y < o \/ y >= End(r, o) => r.buf[y] = p.buf[y]
        /\ Learnt(RecordAt(r, o)) = Learnt(RecordAt(p, o)) \cup {<<m, a>>}
    <2>1. o .. End(p, o) - 1 \subseteq DOMAIN p.buf
      <3>1. o .. End(p, o) - 1 \subseteq Header .. End(p, o) - 1
        BY <1>2
      <3> QED BY <1>2, <3>1
    <2> QED BY <1>1, <1>2, <1>3, <1>4, <2>1, SourcedFacts
  <1>6. \A y \in Header .. p.grec - 1 : r.buf[y] = p.buf[y]
    <2> TAKE y \in Header .. p.grec - 1
    <2>1. y \in Header .. End(p, o) - 1 /\ y < o
      BY <1>2, <1>4
    <2> QED BY <1>2, <1>5, <2>1
  <1>7. /\ Laid(r, f) /\ Listed(r, f) = ListedTo(p, f, p.ngrec - 1) \cup Learnt(RecordAt(r, o))
        /\ NoAux(p, f) /\ r.buf[o].val.aux = 0 => NoAux(r, f)
    <2>3. Header .. End(r, o) - 1 \subseteq DOMAIN r.buf /\ End(r, o) <= Most
      <3>1. \A x \in Header .. End(r, o) - 1 : x \in Header .. End(p, o) - 1 \/ x \in End(p, o) .. End(r, o) - 1
        BY <1>2, <1>5
      <3> QED BY <1>2, <1>4, <1>5, <3>1 DEF Most
    <2>1. /\ r.ngrec = p.ngrec /\ r.grec = p.grec /\ r.buf[r.grec].of = "head"
          /\ Nsrcs(r, r.grec) \in Nat /\ End(r, r.grec) <= Most /\ o = r.grec
          /\ Header .. End(r, r.grec) - 1 \subseteq DOMAIN r.buf
      BY <1>4, <1>5, <2>3
    <2>2. /\ Laid(r, f)
          /\ Listed(r, f) = ListedTo(p, f, p.ngrec - 1) \cup Learnt(RecordAt(r, r.grec))
          /\ NoAux(p, f) /\ r.buf[r.grec].val.aux = 0 => NoAux(r, f)
      BY <1>1, <1>6, <2>1, LastChanged
    <2> QED BY <2>1, <2>2
  <1>8. Listed(r, f) = Listed(p, f) \cup {<<m, a>>}
    BY <1>2, <1>5, <1>7
  <1>9. Holds(r, f, T, W \cup {<<m, a>>})
    BY <1>1, <1>5, <1>7, <1>8 DEF Holds
  <1>10. ASSUME ReadAll(s) PROVE Names(Listed(r, f) \cup T, W \cup {<<m, a>>})
    <2>1. Names(Listed(p, f) \cup T, W)
      BY <1>10 DEF Complete
    <2>2. <<m, a>> \in Listed(r, f) \cup T /\ Listed(p, f) \cup T \subseteq Listed(r, f) \cup T
      BY <1>8
    <2> QED BY <2>1, <2>2, NamesMore
  <1>11. ASSUME s = <<>>, NoAny(W \cup {<<m, a>>})
         PROVE  Clean(r) /\ NoAux(r, f) /\ W \cup {<<m, a>>} \subseteq Listed(r, f)
    <2>1. NoAny(W)
      BY <1>11 DEF NoAny
    <2>2. Clean(p) /\ NoAux(p, f) /\ W \subseteq Listed(p, f)
      BY <1>11, <2>1 DEF Complete
    <2>3. ASSUME NEW y \in DOMAIN r.buf, y >= End(r, o) PROVE r.buf[y] = Zero
      <3>1. y \in DOMAIN p.buf /\ y \in Nat
        <4>1. y \notin End(p, o) .. End(r, o) - 1
          BY <1>2, <1>5, <2>3
        <4> QED BY <1>5, <4>1 DEF IsPack
      <3>2. p.buf[y] = Zero
        <4>1. y >= End(p, p.grec)
          BY <1>2, <1>4, <1>5, <2>3, <3>1
        <4> QED BY <2>2, <3>1, <4>1 DEF Clean
      <3> QED BY <1>5, <2>3, <3>1, <3>2
    <2>4. p.buf[o].val.aux = 0
      <3>1. p.ngrec \in 1 .. p.ngrec /\ f[p.ngrec] = o
        BY <1>1, <1>4, LaidFacts DEF Laid
      <3> QED BY <2>2, <3>1 DEF NoAux
    <2> QED BY <1>5, <1>7, <1>8, <2>2, <2>3, <2>4 DEF Clean
  <1>12. Complete(r, f, s, T, W \cup {<<m, a>>})
    BY <1>10, <1>11 DEF Complete
  <1> QED BY <1>5, <1>9, <1>12

\* A record with sources tells each of them.
LEMMA LearntSources ==
  ASSUME NEW p, NEW o, NEW m, RecordAt(p, o).type = "IS_IN", RecordAt(p, o).mca = m,
         Nsrcs(p, o) \in Nat, Nsrcs(p, o) > 0
  PROVE  /\ \A w \in Learnt(RecordAt(p, o)) : \E x : w = <<m, x>>
         /\ Learnt(RecordAt(p, o)) # {}
  <1>1. Learnt(RecordAt(p, o)) = {<<m, x>> : x \in RecordAt(p, o).srcs}
    BY DEF Learnt
  <1>2. p.buf[SourceSlot(o, 0)].val \in RecordAt(p, o).srcs
    <2>1. 0 \in 0 .. Nsrcs(p, o) - 1
      OBVIOUS
    <2> QED BY <2>1 DEF RecordAt
  <1> QED BY <1>1, <1>2

\* A wish for any source replaces the sources of its group.
LEMMA DropKept ==
  ASSUME mtu \in Nat, NEW p, IsPack(p), NEW f, NEW s, NEW T, NEW W, NEW m,
         Holds(p, f, T, W), Complete(p, f, s, T, W), Current(p, m), p.src # 0,
         NEW r, r = DropSources(p)
  PROVE  /\ IsPack(r) /\ Current(r, m)
         /\ Holds(r, f, T, W \cup {<<m, Any>>}) /\ Complete(r, f, s, T, W \cup {<<m, Any>>})
  <1>4. PICK o : o = p.grec
    OBVIOUS
  <1> DEFINE L == ListedTo(p, f, p.ngrec - 1)
             K == Learnt(RecordAt(p, o))
  <1>1. Laid(p, f) /\ Listed(p, f) \cup T \subseteq W
    BY DEF Holds
  <1>2. /\ o \in Nat /\ o >= Header /\ Nsrcs(p, o) \in Nat /\ o + Grec <= End(p, o)
        /\ End(p, o) \in Nat /\ End(p, o) <= Most
        /\ Header .. End(p, o) - 1 \subseteq DOMAIN p.buf
        /\ Listed(p, f) = L \cup K
    <2>1. /\ p.ngrec \in Nat /\ p.ngrec >= 1 /\ p.grec \in Nat /\ p.grec >= Header + Grec * (p.ngrec - 1)
          /\ Nsrcs(p, o) \in Nat /\ End(p, o) \in Nat /\ o + Grec <= End(p, o) /\ End(p, o) <= Most
          /\ Header .. End(p, o) - 1 \subseteq DOMAIN p.buf
          /\ Listed(p, f) = L \cup K
      BY <1>1, <1>4, LaidFacts
    <2> QED BY <1>4, <2>1
  <1>3. RecordAt(p, o).type = "IS_IN" /\ RecordAt(p, o).mca = m /\ Nsrcs(p, o) > 0
    BY <1>4 DEF Current
  <1>5. /\ IsPack(r) /\ r.ngrec = p.ngrec /\ r.grec = o /\ r.src = 0 /\ DOMAIN r.buf = DOMAIN p.buf
        /\ r.buf[o].of = "head" /\ Nsrcs(r, o) = 0 /\ End(r, o) = o + Grec
        /\ \A y \in DOMAIN p.buf : y # o => r.buf[y] = p.buf[y]
        /\ Learnt(RecordAt(r, o)) = {<<m, Any>>}
    <2>1. o \in Header .. End(p, o) - 1 /\ o + 1 \in Header .. End(p, o) - 1
      BY <1>2
    <2> QED BY <1>2, <1>3, <1>4, <2>1, DroppedFacts
  <1>6. \A y \in Header .. p.grec - 1 : r.buf[y] = p.buf[y]
    <2> TAKE y \in Header .. p.grec - 1
    <2>1. y \in Header .. End(p, o) - 1 /\ y # o
      BY <1>2, <1>4
    <2> QED BY <1>2, <1>5, <2>1
  <1>7. Laid(r, f) /\ Listed(r, f) = L \cup {<<m, Any>>}
    <2>1. /\ r.ngrec = p.ngrec /\ r.grec = p.grec /\ r.buf[r.grec].of = "head"
          /\ Nsrcs(r, r.grec) \in Nat /\ End(r, r.grec) <= Most
          /\ Learnt(RecordAt(r, r.grec)) = {<<m, Any>>}
      BY <1>2, <1>4, <1>5 DEF Most
    <2>3. Header .. End(r, r.grec) - 1 \subseteq DOMAIN r.buf
      <3>1. \A x \in Header .. End(r, o) - 1 : x \in Header .. End(p, o) - 1
        BY <1>2, <1>5
      <3> QED BY <1>2, <1>5, <3>1
    <2>2. Laid(r, f) /\ Listed(r, f) = L \cup Learnt(RecordAt(r, r.grec))
      BY <1>1, <1>6, <2>1, <2>3, LastChanged
    <2> QED BY <2>1, <2>2
  <1> HIDE DEF L, K
  <1>8. Holds(r, f, T, W \cup {<<m, Any>>})
    BY <1>1, <1>2, <1>5, <1>7 DEF Holds
  <1>9. \A w \in K : \E y : w = <<m, y>>
    BY <1>2, <1>3, LearntSources DEF K
  <1>10. ASSUME ReadAll(s) PROVE Names(Listed(r, f) \cup T, W \cup {<<m, Any>>})
    <2> DEFINE U == Listed(r, f) \cup T
    <2>1. <<m, Any>> \in U /\ Any \in Addr
      BY <1>7 DEF Addr
    <2>2. \A w \in L \cup K \cup T : w \in U \/ \E y : w = <<m, y>>
      BY <1>7, <1>9
    <2>3. Names(L \cup K \cup T, W)
      BY <1>2, <1>10 DEF Complete
    <2> HIDE DEF U
    <2>4. ASSUME NEW w \in W
          PROVE  (\E b \in Addr : <<w[1], b>> \in U) /\ (w[2] = Any => w \in U)
      <3>1. PICK b \in Addr : <<w[1], b>> \in L \cup K \cup T
        BY <2>3 DEF Names
      <3>2. <<w[1], b>> \in U \/ w[1] = m
        BY <2>2, <3>1
      <3>3. \E c \in Addr : <<w[1], c>> \in U
        BY <2>1, <3>2
      <3>4. ASSUME w[2] = Any PROVE w \in U
        <4>1. w \in U \/ \E y : w = <<m, y>>
          BY <2>2, <2>3, <3>4 DEF Names
        <4>2. ASSUME NEW y, w = <<m, y>> PROVE w = <<m, Any>>
          BY <3>4, <4>2
        <4> QED BY <2>1, <4>1, <4>2
      <3> QED BY <3>3, <3>4
    <2>5. ASSUME NEW w, w = <<m, Any>>
          PROVE  (\E b \in Addr : <<w[1], b>> \in U) /\ (w[2] = Any => w \in U)
      BY <2>1, <2>5
    <2>6. Names(U, W \cup {<<m, Any>>})
      BY <2>4, <2>5 DEF Names
    <2> QED BY <2>6 DEF U
  <1>11. ~NoAny(W \cup {<<m, Any>>})
    <2>1. <<m, Any>>[2] = Any /\ <<m, Any>> \in W \cup {<<m, Any>>}
      OBVIOUS
    <2> QED BY <2>1 DEF NoAny
  <1>12. Complete(r, f, s, T, W \cup {<<m, Any>>})
    BY <1>10, <1>11 DEF Complete
  <1>13. Current(r, m)
    BY <1>5 DEF Current
  <1> QED BY <1>5, <1>8, <1>12, <1>13

\* The records depend on the buffer, their count and the last one only.
LEMMA SameLaid ==
  ASSUME NEW p, NEW q, q.buf = p.buf, q.ngrec = p.ngrec, q.grec = p.grec, NEW f, Laid(p, f)
  PROVE  /\ Laid(q, f) /\ Listed(q, f) = Listed(p, f) /\ (Clean(p) => Clean(q))
         /\ (NoAux(p, f) => NoAux(q, f)) /\ End(q, q.grec) = End(p, p.grec)
         /\ RecordAt(q, q.grec) = RecordAt(p, p.grec) /\ Nsrcs(q, q.grec) = Nsrcs(p, p.grec)
  <1>1. \A o : Nsrcs(q, o) = Nsrcs(p, o) /\ End(q, o) = End(p, o)
    BY DEF Nsrcs, End
  <1>2. \A o : RecordAt(q, o) = RecordAt(p, o)
    BY <1>1 DEF RecordAt
  <1>3. Laid(q, f)
    BY <1>1 DEF Laid
  <1>4. Listed(q, f) = Listed(p, f)
    BY <1>2 DEF Listed, ListedTo
  <1> QED BY <1>1, <1>2, <1>3, <1>4 DEF Clean, NoAux

\* A source that is found behind the last one is skipped: that happens only
\* when the buffer holds what an earlier record left.
LEMMA SkipKept ==
  ASSUME mtu \in Nat, NEW p, IsPack(p), NEW f, NEW s, NEW T, NEW W, W \subseteq Groups \X Addr,
         NEW m \in Groups, NEW a \in Addr, a # Any,
         Holds(p, f, T, W), Complete(p, f, s, T, W), Current(p, m), p.src # 0, Duplicate(p, a),
         NEW r, r.buf = p.buf, r.ngrec = p.ngrec, r.grec = p.grec, r.src = 0
  PROVE  /\ Current(r, m)
         /\ Holds(r, f, T, W \cup {<<m, a>>}) /\ Complete(r, f, s, T, W \cup {<<m, a>>})
  <1>1. Laid(p, f) /\ Listed(p, f) \cup T \subseteq W
    BY DEF Holds
  <1>2. Laid(r, f) /\ Listed(r, f) = Listed(p, f)
    BY <1>1, SameLaid
  <1>3. Holds(r, f, T, W \cup {<<m, a>>})
    BY <1>1, <1>2 DEF Holds
  <1>4. PICK y : <<m, y>> \in Listed(p, f)
    <2>1. Nsrcs(p, p.grec) \in Nat
      BY <1>1, LaidFacts
    <2>2. Learnt(RecordAt(p, p.grec)) \subseteq Listed(p, f)
      <3>1. Listed(p, f) = ListedTo(p, f, p.ngrec - 1) \cup Learnt(RecordAt(p, p.grec))
        BY <1>1, LaidFacts
      <3> QED BY <3>1
    <2>3. /\ RecordAt(p, p.grec).type = "IS_IN" /\ RecordAt(p, p.grec).mca = m
          /\ Nsrcs(p, p.grec) > 0
      BY DEF Current
    <2>4. /\ \A w \in Learnt(RecordAt(p, p.grec)) : \E x : w = <<m, x>>
          /\ Learnt(RecordAt(p, p.grec)) # {}
      BY <2>1, <2>3, LearntSources
    <2> QED BY <2>2, <2>4
  <1>5. y \in Addr
    BY <1>1, <1>4
  <1>6. ASSUME ReadAll(s) PROVE Names(Listed(p, f) \cup T, W \cup {<<m, a>>})
    <2>1. Names(Listed(p, f) \cup T, W)
      BY <1>6 DEF Complete
    <2>2. <<m, y>> \in Listed(p, f) \cup T
      BY <1>4
    <2>3. ASSUME NEW w, w = <<m, a>>
          PROVE  /\ \E b \in Addr : <<w[1], b>> \in Listed(p, f) \cup T
                 /\ w[2] = Any => w \in Listed(p, f) \cup T
      BY <1>5, <2>2, <2>3
    <2> QED BY <2>1, <2>3 DEF Names
  <1>7. ~(s = <<>> /\ NoAny(W))
    <2> SUFFICES ASSUME s = <<>>, NoAny(W) PROVE FALSE
      OBVIOUS
    <2>1. Clean(p)
      BY DEF Complete
    <2>2. End(p, p.grec) \in DOMAIN p.buf /\ p.buf[End(p, p.grec)] = Word("src", a, 0)
      <3>1. 0 \in 0 .. In6 - 1 /\ End(p, p.grec) \in Nat /\ End(p, p.grec) + 0 = End(p, p.grec)
        BY <1>1, LaidFacts
      <3>2. End(p, p.grec) = SourceSlot(p.grec, head(p).nsrcs)
        BY DEF End, Nsrcs, head
      <3>3. \A k \in 0 .. In6 - 1 : End(p, p.grec) + k \in DOMAIN p.buf
                                    /\ p.buf[End(p, p.grec) + k] = Word("src", a, k)
        BY <3>2 DEF Duplicate
      <3> HIDE DEF In6
      <3> QED BY <3>1, <3>3
    <2>3. End(p, p.grec) >= End(p, p.grec)
      BY <1>1, LaidFacts
    <2>4. Word("src", a, 0) = Zero
      BY <2>1, <2>2, <2>3 DEF Clean
    <2>5. Word("src", a, 0).of = "src" /\ Zero.of = "zero"
      BY DEF Word, Zero
    <2> QED BY <2>4, <2>5
  <1>8. Complete(r, f, s, T, W \cup {<<m, a>>})
    <2>1. NoAny(W \cup {<<m, a>>}) => NoAny(W)
      BY DEF NoAny
    <2> QED BY <1>2, <1>6, <1>7, <2>1 DEF Complete
  <1>9. Current(r, m)
    BY DEF Current
  <1> QED BY <1>3, <1>8, <1>9

----------------------------------------------------------------------------
(* What was sent, and where the next record goes.                          *)

\* One more packet is sent.
LEMMA SentMore ==
  ASSUME NEW s, NEW x, NEW S, s \in Seq(S), NEW t, t = Append(s, x)
  PROVE  /\ \E U : t \in Seq(U)
         /\ t # <<>> /\ Len(t) = Len(s) + 1 /\ Len(s) \in Nat
         /\ DOMAIN t = DOMAIN s \cup {Len(s) + 1} /\ t[Len(s) + 1] = x
         /\ \A j \in DOMAIN s : t[j] = s[j]
  <1> DEFINE U == S \cup {x}
  <1>1. s \in Seq(U)
    BY SeqMonotonic
  <1>2. x \in U
    OBVIOUS
  <1> HIDE DEF U
  <1>3. t \in Seq(U) /\ Len(t) = Len(s) + 1 /\ t[Len(s) + 1] = x
        /\ \A j \in 1 .. Len(s) : t[j] = s[j]
    BY <1>1, <1>2, AppendProperties
  <1>4. Len(s) \in Nat /\ DOMAIN s = 1 .. Len(s) /\ DOMAIN t = 1 .. Len(t)
    BY <1>1, <1>3, LenProperties
  <1>5. 1 .. Len(s) + 1 = (1 .. Len(s)) \cup {Len(s) + 1} /\ Len(s) + 1 # 0
    BY <1>4
  <1>6. t # <<>>
    BY <1>3, <1>4, <1>5
  <1> QED BY <1>3, <1>4, <1>5, <1>6

\* The packets sent tell what was told before and what is read from the new
\* one, and they are all read if those before and the new one are.
LEMMA SentKept ==
  ASSUME SentOK, NEW x, GoodPacket(x), sent' = Append(sent, x), UNCHANGED <<mtu, order>>
  PROVE  /\ SentOK' /\ sent' # <<>> /\ (Len(sent') = 1 => sent = <<>> /\ sent'[1] = x)
         /\ Told' = Told \cup UNION {Learnt(x.recs[k]) : k \in DOMAIN x.recs}
         /\ ReadAll(sent') <=> ReadAll(sent) /\ DOMAIN x.recs = 1 .. x.ngrec
  <1>1. PICK S : sent \in Seq(S)
    BY DEF SentOK
  <1>2. PICK t : t = sent'
    OBVIOUS
  <1>3. /\ \E U : t \in Seq(U)
        /\ t # <<>> /\ Len(t) = Len(sent) + 1 /\ Len(sent) \in Nat
        /\ DOMAIN t = DOMAIN sent \cup {Len(sent) + 1} /\ t[Len(sent) + 1] = x
        /\ \A j \in DOMAIN sent : t[j] = sent[j]
    <2>1. t = Append(sent, x)
      BY <1>2
    <2>2. \E U : t \in Seq(U)
      BY <1>1, <2>1, SentMore
    <2>3. t # <<>> /\ Len(t) = Len(sent) + 1 /\ Len(sent) \in Nat
      BY <1>1, <2>1, SentMore
    <2>4. /\ DOMAIN t = DOMAIN sent \cup {Len(sent) + 1} /\ t[Len(sent) + 1] = x
          /\ \A j \in DOMAIN sent : t[j] = sent[j]
      BY <1>1, <2>1, SentMore
    <2> QED BY <2>2, <2>3, <2>4
  <1>4. \A j \in DOMAIN t : GoodPacket(t[j])
    BY <1>3 DEF SentOK
  <1>5. SentOK'
    <2>1. \A j \in DOMAIN sent' : GoodPacket(sent'[j])
      BY <1>2, <1>4
    <2>2. \A y : GoodPacket(y) => GoodPacket(y)'
      BY DEF GoodPacket, Most
    <2>3. \A j \in DOMAIN sent' : (GoodPacket(sent[j]))'
      BY <2>1, <2>2 DEF GoodPacket, Most
    <2> QED BY <1>2, <1>3, <2>3 DEF SentOK
  <1> DEFINE tell(y) == UNION {Learnt(y.recs[k]) : k \in DOMAIN y.recs}
  <1>6. Told' = Told \cup tell(x)
    <2>1. Told' = UNION {tell(t[j]) : j \in DOMAIN t} /\ Told = UNION {tell(sent[j]) : j \in DOMAIN sent}
      BY <1>2 DEF Told
    <2> HIDE DEF tell
    <2> QED BY <1>3, <2>1
  <1>7. ReadAll(t) <=> ReadAll(sent) /\ DOMAIN x.recs = 1 .. x.ngrec
    BY <1>3 DEF ReadAll
  <1>8. Len(t) = 1 => sent = <<>> /\ t[1] = x
    <2>1. Len(t) = 1 => Len(sent) = 0 /\ Len(sent) + 1 = 1
      BY <1>3
    <2>2. sent # <<>> => Len(sent) \in Nat \ {0}
      BY <1>1, EmptySeq
    <2> QED BY <1>3, <2>1, <2>2
  <1> QED BY <1>2, <1>3, <1>5, <1>6, <1>7, <1>8

\* A packet with its records in place is sent.
LEMMA SentLaid ==
  ASSUME mtu \in Nat, SentOK, NEW p, NEW f, Laid(p, f), sent' = Append(sent, Packet(p)),
         UNCHANGED <<mtu, order>>
  PROVE  /\ SentOK' /\ sent' # <<>> /\ Told' \subseteq Told \cup Listed(p, f)
         /\ ReadAll(sent') => ReadAll(sent) /\ Told' = Listed(p, f) \cup Told
         /\ Len(sent') = 1 => sent = <<>>
         /\ Len(sent') = 1 /\ sent'[1].size <= mtu /\ NoAux(p, f) => ReadAll(sent')
  <1>1. PICK x : x = Packet(p)
    OBVIOUS
  <1>2. /\ x.size \in Nat /\ x.size > Header /\ x.size <= Most /\ x.ngrec = p.ngrec
        /\ x.size <= mtu => 1 \in DOMAIN x.recs
        /\ x.size <= mtu /\ NoAux(p, f) => DOMAIN x.recs = 1 .. p.ngrec
        /\ UNION {Learnt(x.recs[k]) : k \in DOMAIN x.recs} \subseteq Listed(p, f)
        /\ DOMAIN x.recs = 1 .. p.ngrec =>
              UNION {Learnt(x.recs[k]) : k \in DOMAIN x.recs} = Listed(p, f)
    BY <1>1, PacketFacts
  <1>3. GoodPacket(x) /\ sent' = Append(sent, x)
    BY <1>1, <1>2 DEF GoodPacket
  <1>4. /\ SentOK' /\ sent' # <<>> /\ (Len(sent') = 1 => sent = <<>> /\ sent'[1] = x)
        /\ Told' = Told \cup UNION {Learnt(x.recs[k]) : k \in DOMAIN x.recs}
        /\ ReadAll(sent') <=> ReadAll(sent) /\ DOMAIN x.recs = 1 .. x.ngrec
    BY <1>3, SentKept
  <1> DEFINE t == UNION {Learnt(x.recs[k]) : k \in DOMAIN x.recs}
  <1>5. ReadAll(<<>>)
    BY DEF ReadAll
  <1> HIDE DEF t
  <1>6. Told' = Told \cup t /\ t \subseteq Listed(p, f) /\ (DOMAIN x.recs = 1 .. p.ngrec => t = Listed(p, f))
    BY <1>2, <1>4 DEF t
  <1>7. ReadAll(sent') => ReadAll(sent) /\ Told' = Listed(p, f) \cup Told
    BY <1>2, <1>4, <1>6
  <1>8. Len(sent') = 1 /\ sent'[1].size <= mtu /\ NoAux(p, f) => ReadAll(sent')
    BY <1>2, <1>4, <1>5
  <1> QED BY <1>4, <1>6, <1>7, <1>8

\* A packet whose last record is astray is refused, and nothing is read of it.
LEMMA SentAstray ==
  ASSUME mtu \in Nat, mtu >= 33, SentOK, NEW p, Astray(p), sent' = Append(sent, Packet(p)),
         UNCHANGED <<mtu, order>>
  PROVE  /\ SentOK' /\ sent' # <<>> /\ Told' = Told /\ ~ReadAll(sent')
         /\ Len(sent') = 1 => ~(sent'[1].size <= mtu)
  <1>1. PICK x : x = Packet(p)
    OBVIOUS
  <1>2. x.size \in Nat /\ x.size > mtu /\ x.ngrec \in Nat \ {0} /\ DOMAIN x.recs = {}
    BY <1>1, AstrayPacket
  <1>3. GoodPacket(x) /\ sent' = Append(sent, x)
    BY <1>1, <1>2 DEF GoodPacket, Astray
  <1>4. /\ SentOK' /\ sent' # <<>> /\ (Len(sent') = 1 => sent = <<>> /\ sent'[1] = x)
        /\ Told' = Told \cup UNION {Learnt(x.recs[k]) : k \in DOMAIN x.recs}
        /\ ReadAll(sent') <=> ReadAll(sent) /\ DOMAIN x.recs = 1 .. x.ngrec
    BY <1>3, SentKept
  <1>5. UNION {Learnt(x.recs[k]) : k \in DOMAIN x.recs} = {} /\ 1 \in 1 .. x.ngrec
    BY <1>2
  <1>6. Len(sent') = 1 => ~(sent'[1].size <= mtu)
    BY <1>2, <1>4
  <1> QED BY <1>2, <1>4, <1>5, <1>6

\* Where the next record goes, once a packet fits: behind the last record, or
\* behind the buffer if a little-endian host swapped a count other than 0.
LEMMA NextFacts ==
  ASSUME mtu \in Mtus, order \in Orders, NEW p, NEW f, Laid(p, f), End(p, p.grec) <= mtu,
         NextGrec(p) # End(p, p.grec)
  PROVE  NextGrec(p) \in Nat /\ NextGrec(p) >= mtu /\ order # "big"
  <1>1. mtu \in Nat
    BY MtuFacts
  <1> DEFINE n == Nsrcs(p, p.grec)
             o == p.grec
  <1>2. n \in Nat /\ o \in Nat /\ o >= Header /\ End(p, o) <= mtu
    <2>1. /\ p.ngrec \in Nat /\ p.ngrec >= 1 /\ o \in Nat /\ o >= Header + Grec * (p.ngrec - 1)
          /\ n \in Nat
      BY <1>1, LaidFacts
    <2> QED BY <2>1
  <1>3. End(p, o) = o + Grec + In6 * n /\ NextGrec(p) = o + Grec + In6 * Htons(n)
    BY <1>2 DEF End, SourceSlot, NextGrec, head, Nsrcs
  <1>6. NextGrec(p) # End(p, o)
    OBVIOUS
  <1> HIDE DEF n, o
  <1>4. order = "little"
    BY <1>3, <1>6 DEF Htons
  <1>5. NextGrec(p) \in Nat /\ NextGrec(p) >= mtu
    <2>1. mtu < Header + Grec + In6 * 256
      BY <1>4, SwapAssumption
    <2>2. n < 256
      BY <1>1, <1>2, <1>3, <2>1
    <2>3. n % 256 = n /\ n \div 256 = 0
      BY <1>2, <2>2
    <2>4. Htons(n) = 256 * n
      BY <1>2, <1>4, <2>3 DEF Htons
    <2>5. n # 0
      BY <1>2, <1>3, <1>6, <2>4
    <2> QED BY <1>1, <1>2, <1>3, <2>1, <2>4, <2>5
  <1> QED BY <1>4, <1>5

\* Only a packet with a record is split, and always one that is too large.
LEMMA FitsFacts ==
  ASSUME mtu \in Mtus, NEW p, NEW a
  PROVE  /\ p.grec = 0 => Fits(p, a)
         /\ p.grec # 0 /\ Fits(p, a) /\ End(p, p.grec) \in Nat => End(p, p.grec) <= mtu
         /\ p.grec # 0 /\ ~p.any /\ a # Any /\ Fits(p, a) /\ End(p, p.grec) \in Nat
               => End(p, p.grec) + In6 <= mtu
  <1>1. mtu \in Nat /\ mtu >= 33
    BY MtuFacts
  <1>2. p.grec = 0 => Fits(p, a)
    BY <1>1 DEF Fits
  <1>4. Size(p) = End(p, p.grec)
    BY DEF Size, End, head, Nsrcs
  <1>3. ASSUME p.grec # 0, ~p.any, a # Any, Fits(p, a), End(p, p.grec) \in Nat
        PROVE  End(p, p.grec) + In6 <= mtu
    <2>2. Size(p) + 0 + In6 <= mtu
      BY <1>3 DEF Fits
    <2> QED BY <1>3, <1>4, <2>2
  <1>5. ASSUME p.grec # 0, Fits(p, a), End(p, p.grec) \in Nat
        PROVE  End(p, p.grec) <= mtu
    <2>2. Size(p) + 0 + (IF p.any \/ a = Any THEN 0 ELSE In6) <= mtu
      BY <1>5 DEF Fits
    <2>3. CASE p.any \/ a = Any
      <3>1. Size(p) + 0 + 0 <= mtu
        BY <2>2, <2>3
      <3> QED BY <1>1, <1>4, <1>5, <3>1
    <2>4. CASE ~(p.any \/ a = Any)
      <3>1. Size(p) + 0 + In6 <= mtu
        BY <2>2, <2>4
      <3> QED BY <1>1, <1>4, <1>5, <3>1
    <2> QED BY <2>3, <2>4
  <1> QED BY <1>2, <1>3, <1>5

----------------------------------------------------------------------------
(* The steps.                                                              *)

\* A group begins: src is cleared and nothing else changes.
LEMMA BegunFacts ==
  ASSUME IsPack(pack), NEW m, NEW p, p = Begun(m)
  PROVE  /\ IsPack(p) /\ p.buf = pack.buf /\ p.ngrec = pack.ngrec /\ p.grec = pack.grec
         /\ p.src = 0 \/ (p = pack /\ m = at.mca)
  <1>1. CASE m = at.mca
    BY <1>1 DEF Begun
  <1>2. CASE m # at.mca
    <2>1. p = [pack EXCEPT !.src = 0]
      BY <1>2 DEF Begun
    <2> QED BY <2>1 DEF IsPack
  <1> QED BY <1>1, <1>2

LEMMA BegunKept ==
  ASSUME IsPack(pack), NEW f, Filling(f), pc = "walk", NEW m, NEW p, p = Begun(m)
  PROVE  /\ IsPack(p) /\ Holds(p, f, Told, wanted) /\ Complete(p, f, sent, Told, wanted)
         /\ Current(p, m)
  <1>1. /\ IsPack(p) /\ p.buf = pack.buf /\ p.ngrec = pack.ngrec /\ p.grec = pack.grec
        /\ p.src = 0 \/ (p = pack /\ m = at.mca)
    BY BegunFacts
  <1>2. /\ Holds(pack, f, Told, wanted) /\ Complete(pack, f, sent, Told, wanted)
        /\ Current(pack, at.mca)
    BY DEF Filling
  <1>3. CASE p.src = 0
    <2>1. /\ Laid(p, f) /\ Listed(p, f) = Listed(pack, f) /\ (Clean(pack) => Clean(p))
          /\ NoAux(pack, f) => NoAux(p, f)
      BY <1>1, <1>2, SameLaid DEF Holds
    <2>2. Holds(p, f, Told, wanted)
      BY <1>2, <1>3, <2>1 DEF Holds
    <2>3. Complete(p, f, sent, Told, wanted)
      BY <1>2, <2>1 DEF Complete
    <2>4. Current(p, m)
      BY <1>3 DEF Current
    <2> QED BY <1>1, <2>2, <2>3, <2>4
  <1>4. CASE p = pack /\ m = at.mca
    BY <1>1, <1>2, <1>4
  <1> QED BY <1>1, <1>3, <1>4

LEMMA BegunAstray ==
  ASSUME IsPack(pack), Astray(pack), NEW m, NEW p, p = Begun(m)
  PROVE  IsPack(p) /\ Astray(p)
  <1>1. /\ IsPack(p) /\ p.buf = pack.buf /\ p.ngrec = pack.ngrec /\ p.grec = pack.grec
        /\ p.src = 0 \/ (p = pack /\ m = at.mca)
    BY BegunFacts
  <1>2. Nsrcs(p, p.grec) = Nsrcs(pack, pack.grec)
    BY <1>1 DEF Nsrcs
  <1> QED BY <1>1, <1>2 DEF Astray

\* What is packed from the next wish on.
LEMMA NextFilling ==
  ASSUME mtu' = mtu, NEW r, pack' = r, NEW f, Holds(r, f, Told', wanted'),
         pc' = "walk" => Current(r, at'.mca) /\ Complete(r, f, sent', Told', wanted')
  PROVE  Filling(f)'
  <1>1. (Laid(pack, f))' /\ (Listed(pack, f))' = Listed(r, f) /\ (Clean(r) => (Clean(pack))')
        /\ (NoAux(r, f) => (NoAux(pack, f))')
    <2>1. (Laid(pack, f))'
      BY DEF Holds, Laid, Most
    <2>2. (Listed(pack, f))' = Listed(r, f)
      OBVIOUS
    <2>3. (Clean(r) => (Clean(pack))') /\ (NoAux(r, f) => (NoAux(pack, f))')
      BY DEF Clean, NoAux
    <2> QED BY <2>1, <2>2, <2>3
  <1>2. (Holds(pack, f, Told, wanted))'
    BY <1>1 DEF Holds
  <1>3. pc' = "walk" => (Current(pack, at.mca))' /\ (Complete(pack, f, sent, Told, wanted))'
    BY <1>1 DEF Current, Complete
  <1> QED BY <1>2, <1>3 DEF Filling

LEMMA NextRInv ==
  ASSUME mtu \in Mtus, order \in Orders, UNCHANGED <<mtu, order>>, SentOK', wanted \subseteq Groups \X Addr,
         NEW m \in Groups, NEW a \in Addr, wanted' = wanted \cup {<<m, a>>}, pc' = "walk",
         NEW r, pack' = r, IsPack(r), NEW f, Holds(r, f, Told', wanted'),
         Current(r, at'.mca), Complete(r, f, sent', Told', wanted')
  PROVE  RInv'
  <1>1. Filling(f)'
    BY NextFilling
  <1>2. IsPack(pack)'
    BY DEF IsPack
  <1>3. wanted' \subseteq Groups \X Addr /\ Told' \subseteq wanted'
    BY DEF Holds
  <1> QED BY <1>1, <1>2, <1>3 DEF RInv

LEMMA NextAstray ==
  ASSUME mtu \in Mtus, order \in Orders, UNCHANGED <<mtu, order>>, SentOK', wanted \subseteq Groups \X Addr,
         NEW m \in Groups, NEW a \in Addr, wanted' = wanted \cup {<<m, a>>}, pc' = "walk",
         NEW r, pack' = r, IsPack(r), Astray(r), Told' \subseteq wanted'
  PROVE  RInv'
  <1>1. (Astray(pack))'
    BY DEF Astray
  <1>2. IsPack(pack)'
    BY DEF IsPack
  <1>3. wanted' \subseteq Groups \X Addr
    OBVIOUS
  <1> QED BY <1>1, <1>2, <1>3 DEF RInv

\* No packet is sent.
LEMMA SentSame ==
  ASSUME SentOK, UNCHANGED <<sent, mtu, order>>
  PROVE  SentOK' /\ Told' = Told /\ (ReadAll(sent') <=> ReadAll(sent))
  BY DEF SentOK, GoodPacket, Most, Told

LEMMA WishFacts ==
  ASSUME NEW m, NEW a, Wish(m, a)
  PROVE  /\ pc = "walk" /\ at'.mca = m /\ wanted' = wanted \cup {<<m, a>>}
         /\ UNCHANGED <<mtu, order>>
  BY DEF Wish

LEMMA FreshFacts ==
  ASSUME Fresh
  PROVE  /\ pack.ngrec = 0 /\ pack.grec = 0 /\ pack.src = 0
         /\ \A x \in DOMAIN pack.buf : pack.buf[x] = Zero
  BY DEF Fresh, EmptyPack

\* While src is set there are records.
LEMMA SrcFilling ==
  ASSUME RInv, NEW m, Begun(m).src # 0
  PROVE  Astray(pack) \/ \E f : Filling(f)
  <1>1. pack.src # 0
    BY BegunFacts DEF RInv
  <1> QED BY <1>1, FreshFacts DEF RInv

LEMMA AnyStep ==
  ASSUME RInv, NEW m \in Groups, AnyAfterSources(m)
  PROVE  RInv'
  <1>1. /\ pc = "walk" /\ at'.mca = m /\ wanted' = wanted \cup {<<m, Any>>}
        /\ UNCHANGED <<mtu, order>>
    BY WishFacts DEF AnyAfterSources
  <1>2. PICK p : p = Begun(m)
    OBVIOUS
  <1>3. PICK r : r = DropSources(p)
    OBVIOUS
  <1>4. p.src # 0 /\ pack' = r /\ UNCHANGED <<sent, pc>>
    BY <1>2, <1>3 DEF AnyAfterSources
  <1>5. Astray(pack) \/ \E f : Filling(f)
    BY <1>2, <1>4, SrcFilling
  <1>6. /\ mtu \in Mtus /\ mtu \in Nat /\ order \in Orders /\ IsPack(pack) /\ SentOK
        /\ wanted \subseteq Groups \X Addr /\ Told \subseteq wanted
    BY MtuFacts DEF RInv
  <1>9. SentOK' /\ Told' = Told
    BY <1>1, <1>4, <1>6, SentSame
  <1>10. Any \in Addr /\ pc' = "walk" /\ sent' = sent
    BY <1>1, <1>4 DEF Addr
  <1>12. ASSUME NEW f, Filling(f) PROVE RInv'
    <2>7. IsPack(p) /\ Holds(p, f, Told, wanted) /\ Complete(p, f, sent, Told, wanted) /\ Current(p, m)
      BY <1>1, <1>2, <1>6, <1>12, BegunKept
    <2>8. /\ IsPack(r) /\ Current(r, m)
          /\ Holds(r, f, Told, wanted \cup {<<m, Any>>})
          /\ Complete(r, f, sent, Told, wanted \cup {<<m, Any>>})
      BY <1>3, <1>4, <1>6, <2>7, DropKept
    <2>11. Holds(r, f, Told', wanted') /\ Current(r, at'.mca) /\ Complete(r, f, sent', Told', wanted')
      BY <1>1, <1>9, <1>10, <2>8
    <2> QED BY <1>1, <1>4, <1>6, <1>9, <1>10, <2>8, <2>11, NextRInv
  <1>13. CASE Astray(pack)
    <2>1. IsPack(p) /\ Astray(p)
      BY <1>2, <1>6, <1>13, BegunAstray
    <2>2. PICK o \in Nat : o = p.grec /\ o \in DOMAIN p.buf /\ o >= mtu
      BY <2>1 DEF Astray
    <2>3. /\ IsPack(r) /\ r.ngrec = p.ngrec /\ r.grec = o /\ r.src = 0 /\ DOMAIN r.buf = DOMAIN p.buf
          /\ r.buf[o] = Head0("IS_EX", 0, head(p).aux)
      BY <1>3, <2>1, <2>2, DropFacts
    <2>4. r.buf[o].of = "head" /\ Nsrcs(r, o) = 0
      BY <2>3, WordFacts DEF Nsrcs
    <2>5. Astray(r)
      BY <2>1, <2>2, <2>3, <2>4 DEF Astray
    <2>6. Told' \subseteq wanted'
      BY <1>1, <1>6, <1>9
    <2> QED BY <1>1, <1>4, <1>6, <1>9, <1>10, <2>3, <2>5, <2>6, NextAstray
  <1> QED BY <1>5, <1>12, <1>13

LEMMA DuplicateStep ==
  ASSUME RInv, NEW m \in Groups, NEW a \in Addr, DuplicateSource(m, a)
  PROVE  RInv'
  <1>1. /\ pc = "walk" /\ at'.mca = m /\ wanted' = wanted \cup {<<m, a>>}
        /\ UNCHANGED <<mtu, order>>
    BY WishFacts DEF DuplicateSource
  <1>2. PICK p : p = Begun(m)
    OBVIOUS
  <1>3. PICK r : r = [p EXCEPT !.src = 0]
    OBVIOUS
  <1>4. p.src # 0 /\ Duplicate(p, a) /\ a # Any /\ pack' = r /\ UNCHANGED <<sent, pc>>
    BY <1>2, <1>3 DEF DuplicateSource
  <1>5. Astray(pack) \/ \E f : Filling(f)
    BY <1>2, <1>4, SrcFilling
  <1>6. /\ mtu \in Mtus /\ mtu \in Nat /\ order \in Orders /\ IsPack(pack) /\ SentOK
        /\ wanted \subseteq Groups \X Addr /\ Told \subseteq wanted
    BY MtuFacts DEF RInv
  <1>7. IsPack(p)
    BY <1>2, <1>6, BegunFacts
  <1>8. IsPack(r) /\ r.buf = p.buf /\ r.ngrec = p.ngrec /\ r.grec = p.grec /\ r.src = 0
    BY <1>3, <1>7 DEF IsPack
  <1>10. SentOK' /\ Told' = Told /\ pc' = "walk" /\ sent' = sent
    BY <1>1, <1>4, <1>6, SentSame
  <1>12. ASSUME NEW f, Filling(f) PROVE RInv'
    <2>7. IsPack(p) /\ Holds(p, f, Told, wanted) /\ Complete(p, f, sent, Told, wanted) /\ Current(p, m)
      BY <1>1, <1>2, <1>6, <1>12, BegunKept
    <2>9. /\ Current(r, m)
          /\ Holds(r, f, Told, wanted \cup {<<m, a>>})
          /\ Complete(r, f, sent, Told, wanted \cup {<<m, a>>})
      BY <1>4, <1>6, <1>8, <2>7, SkipKept
    <2>11. Holds(r, f, Told', wanted') /\ Current(r, at'.mca) /\ Complete(r, f, sent', Told', wanted')
      BY <1>1, <1>10, <2>9
    <2> QED BY <1>1, <1>4, <1>6, <1>8, <1>10, <2>11, NextRInv
  <1>13. CASE Astray(pack)
    <2>1. Astray(p)
      BY <1>2, <1>6, <1>13, BegunAstray
    <2>2. Nsrcs(r, r.grec) = Nsrcs(p, p.grec)
      BY <1>8 DEF Nsrcs
    <2>3. Astray(r)
      BY <1>8, <2>1, <2>2 DEF Astray
    <2>4. Told' \subseteq wanted'
      BY <1>1, <1>6, <1>10
    <2> QED BY <1>1, <1>4, <1>6, <1>8, <1>10, <2>3, <2>4, NextAstray
  <1> QED BY <1>5, <1>12, <1>13

\* What AddWish does to a packet p: the record of the group, started if there
\* is none, and the source.
AddRecord(p, m) == IF p.src = 0 THEN StartRecord(p, m, NextGrec(p)) ELSE p
Added(p, m, a) ==
    IF a = Any THEN [AddRecord(p, m) EXCEPT !.any = TRUE] ELSE AddSource(AddRecord(p, m), a)

LEMMA AddWishFacts ==
  ASSUME NEW m, NEW a, AddWish(m, a), NEW b, b = Begun(m), NEW p, p = IF Fits(b, a) THEN b ELSE Emptied(b)
  PROVE  /\ pc = "walk" /\ pc' = "walk" /\ at'.mca = m /\ wanted' = wanted \cup {<<m, a>>}
         /\ UNCHANGED <<mtu, order>>
         /\ b.src # 0 => a # Any /\ ~Duplicate(b, a)
         /\ sent' = IF Fits(b, a) THEN sent ELSE Append(sent, Packet(b))
         /\ pack' = Added(p, m, a)
         /\ p.src = 0 => pack' = Started(p, m, a, NextGrec(p))
  <1>1. /\ pc = "walk" /\ at'.mca = m /\ wanted' = wanted \cup {<<m, a>>}
        /\ UNCHANGED <<mtu, order>>
    BY WishFacts DEF AddWish
  <1>2. (b.src # 0 => a # Any /\ ~Duplicate(b, a)) /\ UNCHANGED pc
    BY DEF AddWish
  <1>3. sent' = IF Fits(b, a) THEN sent ELSE Append(sent, Packet(b))
    BY DEF AddWish
  <1>4. p = IF ~Fits(b, a) THEN Emptied(b) ELSE b
    OBVIOUS
  <1>5. pack' = Added(p, m, a)
    BY <1>4 DEF AddWish, AddRecord, Added
  <1>6. p.src = 0 => Added(p, m, a) = Started(p, m, a, NextGrec(p))
    BY DEF Added, AddRecord, Started
  <1> QED BY <1>1, <1>2, <1>3, <1>5, <1>6

\* A packet was sent because the wish did not fit, and the next one begins.
LEMMA SplitStep ==
  ASSUME mtu \in Mtus, order \in Orders, UNCHANGED <<mtu, order>>, SentOK', wanted \subseteq Groups \X Addr,
         NEW m \in Groups, NEW a \in Addr, wanted' = wanted \cup {<<m, a>>}, pc' = "walk", at'.mca = m,
         NEW b, IsPack(b), NEW p, p = Emptied(b), pack' = Started(p, m, a, NextGrec(p)),
         sent' # <<>>, Told' \subseteq wanted, ReadAll(sent') => Names(Told', wanted)
  PROVE  RInv'
  <1>1. mtu \in Nat /\ mtu >= 33
    BY MtuFacts
  <1>2. IsPack(p) /\ p.ngrec = 0 /\ p.grec = 0 /\ p.src = 0
    BY DEF Emptied, IsPack
  <1>3. NextGrec(p) = Header
    BY <1>2 DEF NextGrec
  <1>4. PICK r : r = Started(p, m, a, Header)
    OBVIOUS
  <1>5. pack' = r
    BY <1>3, <1>4
  <1>6. IsPack(r) /\ Current(r, m)
    <2>1. Header \in Nat
      OBVIOUS
    <2> QED BY <1>2, <1>4, <2>1, StartedFacts
  <1>7. PICK s, T : s = sent' /\ T = Told'
    OBVIOUS
  <1>8. PICK g : /\ Holds(r, g, T, wanted \cup {<<m, a>>})
                 /\ Complete(r, g, s, T, wanted \cup {<<m, a>>})
    <2>1. Header + Grec + In6 <= mtu
      BY <1>1
    <2>2. T \subseteq wanted /\ (ReadAll(s) => Names(T, wanted)) /\ s # <<>>
      BY <1>7
    <2> QED BY <1>1, <1>2, <1>4, <2>1, <2>2, FirstKept
  <1>9. Holds(r, g, Told', wanted') /\ Current(r, at'.mca) /\ Complete(r, g, sent', Told', wanted')
    BY <1>6, <1>7, <1>8
  <1> QED BY <1>5, <1>6, <1>9, NextRInv

LEMMA AddStep ==
  ASSUME RInv, NEW m \in Groups, NEW a \in Addr, AddWish(m, a)
  PROVE  RInv'
  <1>1. PICK b : b = Begun(m)
    OBVIOUS
  <1>2. PICK p : p = IF Fits(b, a) THEN b ELSE Emptied(b)
    OBVIOUS
  <1>3. /\ pc = "walk" /\ pc' = "walk" /\ at'.mca = m /\ wanted' = wanted \cup {<<m, a>>}
        /\ UNCHANGED <<mtu, order>>
        /\ b.src # 0 => a # Any /\ ~Duplicate(b, a)
        /\ sent' = IF Fits(b, a) THEN sent ELSE Append(sent, Packet(b))
        /\ pack' = Added(p, m, a)
        /\ p.src = 0 => pack' = Started(p, m, a, NextGrec(p))
    BY <1>1, <1>2, AddWishFacts
  <1>4. /\ mtu \in Mtus /\ mtu \in Nat /\ mtu >= 33 /\ order \in Orders /\ IsPack(pack) /\ SentOK
        /\ wanted \subseteq Groups \X Addr /\ Told \subseteq wanted
    BY MtuFacts DEF RInv
  <1>5. /\ IsPack(b) /\ b.buf = pack.buf /\ b.ngrec = pack.ngrec /\ b.grec = pack.grec
        /\ b.src = 0 \/ (b = pack /\ m = at.mca)
    BY <1>1, <1>4, BegunFacts
  <1>6. CASE Fresh
    <2>1. /\ b.ngrec = 0 /\ b.grec = 0 /\ b.src = 0
          /\ \A x \in DOMAIN b.buf : b.buf[x] = Zero
      BY <1>5, <1>6, FreshFacts
    <2>2. Fits(b, a)
      BY <1>4, <2>1, FitsFacts
    <2>3. p = b /\ sent' = sent /\ NextGrec(b) = Header
      BY <1>2, <1>3, <2>1, <2>2 DEF NextGrec
    <2>5. PICK r : r = Started(b, m, a, Header)
      OBVIOUS
    <2>6. pack' = r
      BY <1>3, <2>1, <2>3, <2>5
    <2>7. sent = <<>> /\ wanted = {} /\ Told = {} /\ Names(Told, wanted)
      BY <1>6 DEF Fresh, Told, Names
    <2>8. IsPack(r) /\ Current(r, m)
      <3>1. Header \in Nat
        OBVIOUS
      <3> QED BY <1>5, <2>1, <2>5, <3>1, StartedFacts
    <2>9. PICK g : /\ Holds(r, g, Told, wanted \cup {<<m, a>>})
                   /\ Complete(r, g, sent, Told, wanted \cup {<<m, a>>})
      <3>1. Header + Grec + In6 <= mtu /\ Told \subseteq wanted
        BY <1>4, <2>7
      <3> QED BY <1>4, <1>5, <2>1, <2>5, <2>7, <3>1, FirstKept
    <2>10. SentOK' /\ Told' = Told
      BY <1>3, <1>4, <2>3, SentSame
    <2>11. Holds(r, g, Told', wanted') /\ Current(r, at'.mca) /\ Complete(r, g, sent', Told', wanted')
      BY <1>3, <2>3, <2>8, <2>9, <2>10
    <2> QED BY <1>3, <1>4, <2>6, <2>8, <2>10, <2>11, NextRInv
  <1>7. ASSUME NEW f, Filling(f) PROVE RInv'
    <2>1. /\ Holds(b, f, Told, wanted) /\ Complete(b, f, sent, Told, wanted) /\ Current(b, m)
          /\ Laid(b, f)
      BY <1>1, <1>3, <1>4, <1>7, BegunKept DEF Holds
    <2>2. CASE Fits(b, a)
      <3>1. p = b /\ sent' = sent
        BY <1>2, <1>3, <2>2
      <3>2. SentOK' /\ Told' = Told
        BY <1>3, <1>4, <3>1, SentSame
      <3>5. End(b, b.grec) \in Nat /\ b.grec # 0
        <4>1. /\ b.ngrec \in Nat /\ b.ngrec >= 1 /\ b.grec \in Nat
              /\ b.grec >= Header + Grec * (b.ngrec - 1) /\ End(b, b.grec) \in Nat
          BY <1>4, <2>1, LaidFacts
        <4> QED BY <4>1
      <3>3. CASE b.src = 0
        <4>1. PICK o : o = NextGrec(b)
          OBVIOUS
        <4>2. PICK r : r = Started(b, m, a, o)
          OBVIOUS
        <4>3. pack' = r
          BY <1>3, <3>1, <3>3, <4>1, <4>2
        <4>4. End(b, b.grec) <= mtu
          BY <1>4, <2>2, <3>5, FitsFacts
        <4>5. CASE o = End(b, b.grec)
          <5>1. o \in Nat /\ o <= mtu
            BY <3>5, <4>4, <4>5
          <5>2. IsPack(r) /\ Current(r, m)
            BY <1>5, <3>3, <4>2, <5>1, StartedFacts
          <5>3. PICK g : /\ Holds(r, g, Told, wanted \cup {<<m, a>>})
                         /\ Complete(r, g, sent, Told, wanted \cup {<<m, a>>})
            BY <1>4, <1>5, <2>1, <3>3, <4>2, <4>5, <5>1, BehindKept
          <5>4. Holds(r, g, Told', wanted') /\ Current(r, at'.mca) /\ Complete(r, g, sent', Told', wanted')
            BY <1>3, <3>1, <3>2, <5>2, <5>3
          <5> QED BY <1>3, <1>4, <3>2, <4>3, <5>2, <5>4, NextRInv
        <4>6. CASE o # End(b, b.grec)
          <5>1. o \in Nat /\ o >= mtu /\ order # "big"
            BY <1>4, <2>1, <4>1, <4>4, <4>6, NextFacts
          <5>2. /\ IsPack(r) /\ r.ngrec = b.ngrec + 1 /\ r.grec = o /\ (r.src # 0 => ~r.any)
                /\ o \in DOMAIN r.buf /\ r.buf[o].of = "head" /\ Nsrcs(r, o) \in Nat
            BY <1>5, <3>3, <4>2, <5>1, StartedFacts
          <5>3. r.ngrec \in Nat \ {0}
            <6>1. b.ngrec \in Nat
              BY <1>4, <2>1, LaidFacts
            <6> QED BY <5>2, <6>1
          <5>4. Astray(r)
            BY <5>1, <5>2, <5>3 DEF Astray
          <5>5. Told' \subseteq wanted'
            BY <1>3, <1>4, <3>2
          <5> QED BY <1>3, <1>4, <3>2, <4>3, <5>2, <5>4, <5>5, NextAstray
        <4> QED BY <4>5, <4>6
      <3>4. CASE b.src # 0
        <4>1. a # Any /\ ~b.any
          BY <1>3, <2>1, <3>4 DEF Holds
        <4>2. PICK r : r = AddSource(b, a)
          OBVIOUS
        <4>3. pack' = r
          BY <1>3, <3>1, <3>4, <4>1, <4>2 DEF Added, AddRecord
        <4>5. End(b, b.grec) + In6 <= mtu
          BY <1>4, <2>2, <3>5, <4>1, FitsFacts
        <4>6. /\ IsPack(r) /\ Current(r, m)
              /\ Holds(r, f, Told, wanted \cup {<<m, a>>})
              /\ Complete(r, f, sent, Told, wanted \cup {<<m, a>>})
          BY <1>4, <1>5, <2>1, <3>4, <4>2, <4>5, SourceKept
        <4>7. Holds(r, f, Told', wanted') /\ Current(r, at'.mca) /\ Complete(r, f, sent', Told', wanted')
          BY <1>3, <3>1, <3>2, <4>6
        <4> QED BY <1>3, <1>4, <3>2, <4>3, <4>6, <4>7, NextRInv
      <3> QED BY <3>3, <3>4
    <2>4. CASE ~Fits(b, a)
      <3>1. p = Emptied(b) /\ sent' = Append(sent, Packet(b))
        BY <1>2, <1>3, <2>4
      <3>2. p.src = 0
        BY <1>5, <3>1 DEF Emptied, IsPack
      <3>3. /\ SentOK' /\ sent' # <<>> /\ Told' \subseteq Told \cup Listed(b, f)
            /\ ReadAll(sent') => ReadAll(sent) /\ Told' = Listed(b, f) \cup Told
        BY <1>3, <1>4, <2>1, <3>1, SentLaid
      <3>4. Told' \subseteq wanted
        BY <2>1, <3>3 DEF Holds
      <3>5. ReadAll(sent') => Names(Told', wanted)
        BY <2>1, <3>3 DEF Complete
      <3>6. pack' = Started(p, m, a, NextGrec(p))
        BY <1>3, <3>2
      <3> QED BY <1>3, <1>4, <1>5, <3>1, <3>3, <3>4, <3>5, <3>6, SplitStep
    <2> QED BY <2>2, <2>4
  <1>8. CASE Astray(pack)
    <2>1. Astray(b)
      BY <1>1, <1>4, <1>8, BegunAstray
    <2>2. End(b, b.grec) \in Nat /\ End(b, b.grec) > mtu /\ b.grec # 0
      BY <1>4, <2>1 DEF Astray, End, SourceSlot
    <2>3. ~Fits(b, a)
      BY <1>4, <2>2, FitsFacts
    <2>4. p = Emptied(b) /\ sent' = Append(sent, Packet(b))
      BY <1>2, <1>3, <2>3
    <2>5. p.src = 0
      BY <1>5, <2>4 DEF Emptied, IsPack
    <2>6. SentOK' /\ sent' # <<>> /\ Told' = Told /\ ~ReadAll(sent')
      BY <1>3, <1>4, <2>1, <2>4, SentAstray
    <2>7. Told' \subseteq wanted /\ pack' = Started(p, m, a, NextGrec(p))
      BY <1>3, <1>4, <2>5, <2>6
    <2> QED BY <1>3, <1>4, <1>5, <2>4, <2>6, <2>7, SplitStep
  <1> QED BY <1>6, <1>7, <1>8 DEF RInv

\* What is left is sent.
LEMMA FinishStep ==
  ASSUME RInv, Finish
  PROVE  RInv'
  <1>1. /\ pc = "walk" /\ pc' = "done" /\ UNCHANGED <<mtu, order, at, wanted, pack>>
        /\ sent' = IF Leftover(pack) THEN Append(sent, Packet(pack)) ELSE sent
    BY DEF Finish
  <1>2. /\ mtu \in Mtus /\ mtu \in Nat /\ mtu >= 33 /\ order \in Orders /\ IsPack(pack) /\ SentOK
        /\ wanted \subseteq Groups \X Addr /\ Told \subseteq wanted
    BY MtuFacts DEF RInv
  <1>3. IsPack(pack)'
    BY <1>1, <1>2 DEF IsPack
  <1>4. CASE Fresh
    <2>1. sent' = sent /\ sent = <<>>
      BY <1>1, <1>4, FreshFacts DEF Leftover, Fresh
    <2>2. SentOK' /\ Told' = Told /\ Fresh'
      BY <1>1, <1>2, <1>4, <2>1, SentSame DEF Fresh, EmptyPack
    <2>3. Names(Told', wanted') /\ Told' \subseteq wanted'
      BY <1>1, <1>2, <1>4, <2>2 DEF Fresh, Names
    <2>4. (Names(Told, wanted))'
      BY <2>3 DEF Names
    <2>5. sent' = <<>> /\ Len(<<>>) = 0
      BY <2>1
    <2>6. Len(sent') # 1
      BY <2>5
    <2> QED BY <1>1, <1>2, <1>3, <2>2, <2>3, <2>4, <2>6 DEF RInv
  <1>5. ASSUME NEW f, Filling(f) PROVE RInv'
    <2>1. /\ Holds(pack, f, Told, wanted) /\ Complete(pack, f, sent, Told, wanted) /\ Laid(pack, f)
      BY <1>1, <1>5 DEF Filling, Holds
    <2>2. sent' = Append(sent, Packet(pack))
      BY <1>1, <1>2, <2>1, LaidFacts DEF Leftover
    <2>3. /\ SentOK' /\ Told' \subseteq Told \cup Listed(pack, f)
          /\ ReadAll(sent') => ReadAll(sent) /\ Told' = Listed(pack, f) \cup Told
          /\ Len(sent') = 1 => sent = <<>>
          /\ Len(sent') = 1 /\ sent'[1].size <= mtu /\ NoAux(pack, f) => ReadAll(sent')
      BY <1>1, <1>2, <2>1, <2>2, SentLaid
    <2>4. Listed(pack, f) \cup Told' \subseteq wanted /\ Told' \subseteq wanted'
      BY <1>1, <2>1, <2>3 DEF Holds
    <2>5. PICK r : r = pack
      OBVIOUS
    <2>6. Holds(r, f, Told', wanted') /\ pack' = r /\ pc' # "walk"
      BY <1>1, <2>1, <2>4, <2>5 DEF Holds
    <2>7. Filling(f)'
      BY <1>1, <2>6, NextFilling
    <2>8. ReadAll(sent') => Names(Told', wanted)
      BY <2>1, <2>3 DEF Complete
    <2>9. Len(sent') = 1 /\ NoAny(wanted) /\ sent'[1].size <= mtu => ReadAll(sent') /\ wanted \subseteq Told'
      BY <2>1, <2>3 DEF Complete
    <2>10. /\ (ReadAll(sent) => Names(Told, wanted))'
           /\ (Len(sent) = 1 /\ NoAny(wanted) /\ sent[1].size <= mtu => ReadAll(sent) /\ wanted \subseteq Told)'
      BY <1>1, <2>8, <2>9
    <2> QED BY <1>1, <1>2, <1>3, <2>3, <2>4, <2>7, <2>10 DEF RInv
  <1>6. CASE Astray(pack)
    <2>1. sent' = Append(sent, Packet(pack))
      BY <1>1, <1>6 DEF Leftover, Astray
    <2>2. /\ SentOK' /\ Told' = Told /\ ~ReadAll(sent')
          /\ Len(sent') = 1 => ~(sent'[1].size <= mtu)
      BY <1>1, <1>2, <1>6, <2>1, SentAstray
    <2>3. (Astray(pack))'
      BY <1>1, <1>6 DEF Astray
    <2>4. /\ (~ReadAll(sent))' /\ (Len(sent) = 1 => ~(sent[1].size <= mtu))'
      BY <1>1, <2>2
    <2>5. Told' \subseteq wanted'
      BY <1>1, <1>2, <2>2
    <2> QED BY <1>1, <1>2, <1>3, <2>2, <2>3, <2>4, <2>5 DEF RInv
  <1> QED BY <1>4, <1>5, <1>6 DEF RInv

\* Nothing changes, but perhaps the program is ended.
LEMMA SameStep ==
  ASSUME RInv, UNCHANGED <<mtu, order, at, wanted, pack, sent>>, pc' = pc \/ pc' = "crashed"
  PROVE  RInv'
  <1>2. SentOK' /\ Told' = Told /\ (ReadAll(sent') <=> ReadAll(sent))
    BY SentSame DEF RInv
  <1>3. IsPack(pack)' /\ (Fresh => Fresh') /\ (Astray(pack) => (Astray(pack))')
    BY DEF RInv, IsPack, Fresh, EmptyPack, Astray
  <1>4. ASSUME NEW f, Filling(f) PROVE Filling(f)'
    <2>1. PICK r : r = pack
      OBVIOUS
    <2>2. /\ pack' = r /\ Holds(r, f, Told', wanted')
          /\ pc' = "walk" => Current(r, at'.mca) /\ Complete(r, f, sent', Told', wanted')
      BY <1>2, <1>4, <2>1 DEF Filling
    <2> QED BY <2>2, NextFilling
  <1>5. (Names(Told, wanted))' <=> Names(Told, wanted)
    BY <1>2
  <1>6. (wanted \subseteq Told)' <=> wanted \subseteq Told
    BY <1>2
  <1>7. Told' \subseteq wanted'
    BY <1>2 DEF RInv
  <1> QED BY <1>2, <1>3, <1>4, <1>5, <1>6, <1>7 DEF RInv

LEMMA InitRInv ==
  ASSUME ReportInit
  PROVE  RInv
  <1>1. mtu \in Mtus /\ order \in Orders /\ pc = "walk" /\ wanted = {} /\ Fresh
    BY DEF ReportInit, Fresh
  <1>2. IsPack(pack) /\ Told = {}
    <2>1. mtu \in Nat
      BY <1>1, MtuFacts
    <2> QED BY <1>1, <2>1 DEF Fresh, EmptyPack, IsPack, Told
  <1>3. SentOK
    <2>1. sent = <<>> /\ sent \in Seq({})
      BY <1>1, EmptySeq DEF Fresh
    <2>2. DOMAIN sent = {}
      BY <2>1
    <2> QED BY <2>1, <2>2 DEF SentOK
  <1> QED BY <1>1, <1>2, <1>3 DEF RInv

LEMMA StepRInv ==
  ASSUME RInv, [ReportNext]_mvars
  PROVE  RInv'
  <1>1. ASSUME NEW m \in Groups, AnyAfterSources(m) PROVE RInv'
    BY <1>1, AnyStep
  <1>2. ASSUME NEW m \in Groups, NEW a \in Addr, DuplicateSource(m, a) PROVE RInv'
    BY <1>2, DuplicateStep
  <1>3. ASSUME NEW m \in Groups, NEW a \in Addr, AddWish(m, a) PROVE RInv'
    BY <1>3, AddStep
  <1>4. CASE Finish
    BY <1>4, FinishStep
  <1>5. CASE Finished
    BY <1>5, SameStep DEF Finished, mvars
  <1>6. CASE UNCHANGED mvars
    BY <1>6, SameStep DEF mvars
  <1>7. CASE Crash
    BY <1>7, SameStep DEF Crash
  <1> QED BY <1>1, <1>2, <1>3, <1>4, <1>5, <1>6, <1>7 DEF ReportNext

----------------------------------------------------------------------------
(* The theorems.                                                           *)

\* The invariant holds in every state the loops over the groups reach.
LEMMA AlwaysRInv == ReportSpec => []RInv
  <1>1. ReportInit => RInv
    BY InitRInv
  <1>2. RInv /\ [ReportNext]_mvars => RInv'
    BY StepRInv
  <1> QED BY <1>1, <1>2, PTL DEF ReportSpec

\* The count, the last record and the buffer of the packet that is filled
\* agree at every moment, also after stores behind the buffer; a packet that
\* goes out is read; and with counts in network order no packet handed to
\* sendpacket6 exceeds the MTU by more than one record with a source: an
\* excess, once there, makes the fit test split at the next wish.
THEOREM PackingAlwaysSound == ReportSpec => []PackOK
  <1>1. ASSUME RInv PROVE PackOK
    <2>1. mtu \in Nat /\ mtu >= 33 /\ pc \in {"walk", "done", "crashed"} /\ SentOK
      BY <1>1, MtuFacts DEF RInv
    <2>2. \A j \in DOMAIN sent :
             /\ sent[j].size > Header /\ (sent[j].size <= mtu => 1 \in DOMAIN sent[j].recs)
             /\ order = "big" => sent[j].size <= mtu + Grec + In6
      BY <2>1 DEF SentOK, GoodPacket, Most
    <2>3. CASE Fresh
      BY <2>1, <2>2, <2>3, FreshFacts DEF PackOK
    <2>4. CASE Astray(pack)
      BY <2>1, <2>2, <2>4 DEF PackOK, Astray
    <2>5. ASSUME NEW f, Filling(f) PROVE PackOK
      <3>0. Laid(pack, f) /\ (pack.src # 0 => ~pack.any)
        BY <2>5 DEF Filling, Holds
      <3>1. /\ pack.ngrec \in Nat /\ pack.ngrec >= 1 /\ pack.grec \in Nat
            /\ pack.grec >= Header + Grec * (pack.ngrec - 1)
            /\ pack.buf[pack.grec].of = "head"
            /\ End(pack, pack.grec) \in Nat /\ pack.grec + Grec <= End(pack, pack.grec)
            /\ Header .. End(pack, pack.grec) - 1 \subseteq DOMAIN pack.buf
        BY <2>1, <3>0, LaidFacts
      <3>2. pack.ngrec # 0 /\ pack.grec # 0 /\ pack.grec \in Header .. End(pack, pack.grec) - 1
        BY <3>1
      <3> QED BY <2>1, <2>2, <3>0, <3>1, <3>2 DEF PackOK
    <2> QED BY <1>1, <2>3, <2>4, <2>5 DEF RInv
  <1> QED BY <1>1, AlwaysRInv, PTL

\* No receiver of the reports ever subscribes to what nobody wants, however
\* the subscriptions are split over packets, whatever the buffer held and
\* wherever a record was put.
THEOREM ReportsNothingUnwanted == ReportSpec => []NothingUnwanted
  <1>1. ASSUME RInv PROVE NothingUnwanted
    BY <1>1 DEF RInv, NothingUnwanted
  <1> QED BY <1>1, AlwaysRInv, PTL

\* Once the loops are through and every packet went out and is read, every
\* group that is wanted was named, and with any source if somebody wants that.
THEOREM ReportsNameGroups == ReportSpec => []GroupsNamed
  <1>1. ASSUME RInv PROVE GroupsNamed
    BY <1>1 DEF RInv, Names, GroupsNamed, Readable, ReadAll
  <1> QED BY <1>1, AlwaysRInv, PTL

\* A report of one packet within the MTU and without any-source wishes is
\* read whole and says exactly what is wanted: no source is taken for a
\* duplicate and no record for a longer one.
THEOREM OnePacketExact == ReportSpec => []SourcesExact
  <1>1. ASSUME RInv PROVE SourcesExact
    BY <1>1 DEF RInv, NoAny, SourcesExact, Readable, ReadAll
  <1> QED BY <1>1, AlwaysRInv, PTL
=============================================================================
