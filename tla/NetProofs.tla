------------------------------ MODULE NetProofs ------------------------------
(***************************************************************************)
(* The network services and the card's driver, for any size of the ARP     *)
(* cache, any base of the bytes, any receive ring and any number of        *)
(* descriptors: the cache answers with what a host said last (ArpKnows),   *)
(* a header with one byte changed is refused (ChecksumGuards), and the     *)
(* driver and the card stay in step (CardInStep).                          *)
(***************************************************************************)
EXTENDS MCNet, FiniteSetTheorems, SequenceTheorems, TLAPS

-----------------------------------------------------------------------------
(***************************************************************************)
(* The ARP cache.                                                          *)
(***************************************************************************)

\* The for loops that stop at the first slot that fits find one if there is
\* one.
LEMMA FirstExists ==
    ASSUME NEW S, S \subseteq Nat, S # {}
    PROVE  \E i \in S : First(S) = {i}
  <1> DEFINE T == {0 .. n : n \in S}
             R == StrictSubsetOrdering(Nat)
             F == FiniteSubsetsOf(Nat)
  <1>1. IsWellFoundedOn(R, F)
    BY FS_StrictSubsetOrderingWellFounded
  <1>2. T \subseteq F
    <2>1. \A n \in Nat : IsFiniteSet(0 .. n) /\ (0 .. n) \subseteq Nat
      BY FS_Interval
    <2> QED
      BY <2>1 DEF FiniteSubsetsOf
  <1>3. T # {}
    OBVIOUS
  <1>4. PICK x \in T : \A y \in T : <<y, x>> \notin R
    <2> HIDE DEF T, R, F
    <2> QED
      BY <1>1, <1>2, <1>3, WFMin
  <1>5. PICK i \in S : x = 0 .. i
    BY <1>4
  <1>6. ASSUME NEW j \in S
        PROVE  i <= j
    <2> SUFFICES ASSUME j < i
                 PROVE  FALSE
      OBVIOUS
    <2>1. (0 .. j) \in T
      OBVIOUS
    <2>2. (0 .. j) \subseteq (0 .. i) /\ (0 .. j) # (0 .. i)
      OBVIOUS
    <2>3. (0 .. j) \in SUBSET Nat /\ (0 .. i) \in SUBSET Nat
      OBVIOUS
    <2>4. <<0 .. j, 0 .. i>> \in R
      BY <2>2, <2>3 DEF StrictSubsetOrdering
    <2> QED
      BY <1>4, <1>5, <2>1, <2>4
  <1> HIDE DEF T, R, F
  <1>7. ASSUME NEW j \in First(S)
        PROVE  j = i
    <2>1. j \in S /\ j <= i /\ i <= j
      BY <1>6, <1>7 DEF First
    <2> QED
      BY <2>1
  <1>8. i \in First(S)
    BY <1>6 DEF First
  <1> QED
    BY <1>7, <1>8

Entry == [valid: BOOLEAN, ip: Hosts \cup {0}, mac: Macs \cup {None}]

\* The slots in which a host is found.
Known(ip) == {i \in Slots : arp_cache[i].valid /\ arp_cache[i].ip = ip}

(***************************************************************************)
(* No host has two entries; an entry is what its host said last and was    *)
(* not overwritten; and a host that said something has an entry unless     *)
(* that was overwritten.                                                   *)
(***************************************************************************)
ArpInv ==
    /\ arp_cache \in [Slots -> Entry] /\ DOMAIN learned = Hosts
    /\ \A i, j \in Slots : (arp_cache[i].valid /\ arp_cache[j].valid
                              /\ arp_cache[i].ip = arp_cache[j].ip) => i = j
    /\ \A i \in Slots : arp_cache[i].valid =>
         /\ arp_cache[i].ip \in Hosts \ evicted /\ learned[arp_cache[i].ip] = arp_cache[i].mac
    /\ \A ip \in Hosts : learned[ip] = None \/ ip \in evicted \/ Known(ip) # {}

\* What arp_find_entry and arp_slot return.
LEMMA SlotFound ==
    ASSUME NEW ip
    PROVE  /\ Known(ip) # {} => \E i \in Known(ip) : arp_find_entry(ip) = {i}
           /\ Known(ip) = {} => arp_find_entry(ip) = {}
           /\ Known(ip) # {} => arp_slot(ip) \subseteq Known(ip)
           /\ arp_slot(ip) \subseteq Slots
  <1>1. Slots \subseteq Nat /\ 1 \in Slots
    BY NetAssumption DEF Slots
  <1>2. Known(ip) \subseteq Nat /\ Known(ip) \subseteq Slots
    BY <1>1 DEF Known
  <1>3. arp_find_entry(ip) = First(Known(ip)) /\ First(Known(ip)) \subseteq Known(ip)
    BY DEF arp_find_entry, Known, First
  <1>4. Known(ip) # {} => \E i \in Known(ip) : arp_find_entry(ip) = {i}
    BY <1>2, <1>3, FirstExists
  <1>5. First({i \in Slots : ~arp_cache[i].valid}) \subseteq Slots
    BY DEF First
  <1> QED
    BY <1>1, <1>2, <1>3, <1>4, <1>5 DEF arp_slot

\* A reply keeps the invariant.
LEMMA ArpReply ==
    ASSUME ArpInv, NEW ip \in Hosts, NEW mac \in Macs, arp_add_entry(ip, mac),
           learned' = [learned EXCEPT ![ip] = mac]
    PROVE  ArpInv'
  <1>1. PICK i \in arp_slot(ip) :
          /\ arp_cache' = [arp_cache EXCEPT ![i] = [valid |-> TRUE, ip |-> ip, mac |-> mac]]
          /\ evicted' = (evicted \ {ip}) \cup
                (IF arp_cache[i].valid /\ arp_cache[i].ip # ip THEN {arp_cache[i].ip} ELSE {})
    BY DEF arp_add_entry
  <1>2. i \in Slots /\ (Known(ip) # {} => i \in Known(ip))
    BY SlotFound
  <1>3. arp_cache \in [Slots -> Entry] /\ DOMAIN learned = Hosts
    BY DEF ArpInv
  <1>4. arp_cache' \in [Slots -> Entry] /\ DOMAIN learned' = Hosts
    BY <1>1, <1>2, <1>3 DEF Entry
  <1>5. /\ arp_cache'[i].valid /\ arp_cache'[i].ip = ip /\ arp_cache'[i].mac = mac
        /\ \A j \in Slots \ {i} : arp_cache'[j] = arp_cache[j]
    BY <1>1, <1>2, <1>3
  <1>6. learned'[ip] = mac /\ \A h \in Hosts \ {ip} : learned'[h] = learned[h]
    BY <1>3
  <1>7. ASSUME NEW j \in Slots \ {i}, arp_cache[j].valid
        PROVE  arp_cache[j].ip # ip
    BY <1>2, <1>7 DEF ArpInv, Known
  <1>8. \A j, k \in Slots : (arp_cache'[j].valid /\ arp_cache'[k].valid
                               /\ arp_cache'[j].ip = arp_cache'[k].ip) => j = k
    BY <1>5, <1>7 DEF ArpInv
  <1>9. ASSUME NEW j \in Slots, arp_cache'[j].valid
        PROVE  /\ arp_cache'[j].ip \in Hosts \ evicted'
               /\ learned'[arp_cache'[j].ip] = arp_cache'[j].mac
    <2>1. CASE j = i
      BY <1>1, <1>5, <1>6, <2>1
    <2>2. CASE j # i
      <3>1. /\ arp_cache[j].valid /\ arp_cache'[j] = arp_cache[j] /\ arp_cache[j].ip # ip
            /\ arp_cache[j].ip \in Hosts \ evicted
            /\ learned[arp_cache[j].ip] = arp_cache[j].mac
        BY <1>5, <1>7, <1>9, <2>2 DEF ArpInv
      <3>2. arp_cache[i].valid => arp_cache[i].ip # arp_cache[j].ip
        BY <1>2, <2>2, <3>1 DEF ArpInv
      <3> QED
        BY <1>1, <1>6, <3>1, <3>2
    <2> QED
      BY <2>1, <2>2
  <1>10. ASSUME NEW h \in Hosts, learned'[h] # None, h \notin evicted'
         PROVE  Known(h)' # {}
    <2>1. CASE h = ip
      BY <1>2, <1>5, <2>1 DEF Known
    <2>2. CASE h # ip
      <3>1. learned[h] # None /\ h \notin evicted
        BY <1>1, <1>6, <1>10, <2>2
      <3>2. PICK j \in Slots : arp_cache[j].valid /\ arp_cache[j].ip = h
        BY <3>1 DEF ArpInv, Known
      <3>3. j # i
        BY <1>1, <1>10, <2>2, <3>2
      <3> QED
        BY <1>5, <3>2, <3>3 DEF Known
    <2> QED
      BY <2>1, <2>2
  <1> QED
    BY <1>4, <1>8, <1>9, <1>10 DEF ArpInv

-----------------------------------------------------------------------------
(***************************************************************************)
(* The checksum.                                                           *)
(***************************************************************************)

\* Division with remainder by the base of the bytes.
LEMMA Digits ==
    ASSUME NEW n \in 0 .. Word - 1
    PROVE  /\ n % Base \in Byte /\ n \div Base \in Byte
           /\ n = (n % Base) + (n \div Base) * Base
  <1>1. Base \in Nat /\ Base > 3
    BY NetAssumption
  <1> DEFINE r == n % Base
             q == n \div Base
  <1>2. n \in Nat /\ n < Base * Base
    BY <1>1 DEF Word
  <1>3. r \in 0 .. Base - 1 /\ q \in Nat /\ n = r + q * Base
    BY <1>1, <1>2
  <1> HIDE DEF r, q
  <1>4. q < Base
    <2> SUFFICES ASSUME q >= Base
                 PROVE  FALSE
      BY <1>1, <1>3
    <2>1. PICK d \in Nat : q = Base + d
      BY <1>1, <1>3
    <2>2. q * Base = Base * Base + d * Base /\ d * Base >= 0
      BY <1>1, <2>1
    <2> QED
      BY <1>1, <1>2, <1>3, <2>2
  <1>5. q \in Byte /\ r \in Byte
    BY <1>1, <1>3, <1>4 DEF Byte
  <1> QED
    BY <1>3, <1>5 DEF r, q

Bytes(p) == \A k \in 1 .. 8 : p[k] \in Byte

\* The sum over the pairs of a header of the usual length.
LEMMA PairsAre ==
    ASSUME NEW p
    PROVE  pairs(p, 4) = 0 + p[1] * Base + p[2] + p[3] * Base + p[4]
                           + p[5] * Base + p[6] + p[7] * Base + p[8]
  <1> DEFINE at(k) == p[2 * k - 1] * Base + p[2 * k]
             body(f, k) == IF k = 0 THEN 0 ELSE f[k - 1] + p[2 * k - 1] * Base + p[2 * k]
             IsSum(f) == f = [k \in 0 .. 4 |-> body(f, k)]
             s1 == 0 + p[1] * Base + p[2]
             s2 == s1 + p[3] * Base + p[4]
             s3 == s2 + p[5] * Base + p[6]
             s4 == s3 + p[7] * Base + p[8]
             g == [k \in 0 .. 4 |-> IF k = 0 THEN 0 ELSE IF k = 1 THEN s1 ELSE IF k = 2 THEN s2
                                    ELSE IF k = 3 THEN s3 ELSE s4]
  <1>1. IsSum(g)
    <2> HIDE DEF s1, s2, s3, s4
    <2>1. g[0] = 0 /\ g[1] = s1 /\ g[2] = s2 /\ g[3] = s3 /\ g[4] = s4
      OBVIOUS
    <2>2. /\ body(g, 0) = 0 /\ body(g, 1) = s1 /\ body(g, 2) = s2 /\ body(g, 3) = s3
          /\ body(g, 4) = s4
      BY <2>1 DEF s1, s2, s3, s4
    <2>3. ASSUME NEW k \in 0 .. 4
          PROVE  g[k] = body(g, k)
      <3>1. k = 0 \/ k = 1 \/ k = 2 \/ k = 3 \/ k = 4
        OBVIOUS
      <3> HIDE DEF g, body
      <3> QED
        BY <2>1, <2>2, <3>1
    <2> DEFINE h == [k \in 0 .. 4 |-> body(g, k)]
    <2>4. DOMAIN g = 0 .. 4 /\ DOMAIN h = 0 .. 4 /\ \A k \in 0 .. 4 : h[k] = body(g, k)
      OBVIOUS
    <2> QED
      <3> HIDE DEF body
      <3> QED
        BY <2>3
  <1> DEFINE sum == CHOOSE f : IsSum(f)
  <1>2. pairs(p, 4) = sum[4]
    BY DEF pairs
  <1>3. IsSum(sum)
    <2> HIDE DEF IsSum
    <2> QED
      BY <1>1
  <1> HIDE DEF sum, g
  <1>4. /\ sum[0] = 0 /\ sum[1] = sum[0] + p[1] * Base + p[2]
        /\ sum[2] = sum[1] + p[3] * Base + p[4] /\ sum[3] = sum[2] + p[5] * Base + p[6]
        /\ sum[4] = sum[3] + p[7] * Base + p[8]
    BY <1>3
  <1> QED
    BY <1>2, <1>4

\* The end-around sum of a natural number fits a word.
LEMMA FoldType ==
    ASSUME NEW n \in Nat
    PROVE  fold(n) \in 0 .. Word - 1
  <1>1. Word \in Nat /\ Word > 3
    BY NetAssumption DEF Word
  <1>2. CASE n = 0
    BY <1>1, <1>2 DEF fold
  <1>3. CASE n # 0
    <2> DEFINE W == Word - 1
               m == n - 1
    <2>1. W \in Nat /\ W > 0 /\ m \in Nat
      BY <1>1, <1>3
    <2>2. fold(n) = (m % W) + 1
      BY <1>3 DEF fold
    <2> HIDE DEF W, m
    <2>3. m % W \in 0 .. W - 1
      BY <2>1
    <2> QED
      BY <1>1, <2>1, <2>2, <2>3 DEF W
  <1> QED
    BY <1>2, <1>3

\* Two sums that differ by less than a word fold to different values.
LEMMA FoldDiffers ==
    ASSUME NEW n \in Nat, NEW d \in Nat, 0 < d, d < Word - 1
    PROVE  fold(n) # fold(n + d)
  <1> DEFINE W == Word - 1
  <1>1. W \in Nat /\ W > 0
    BY NetAssumption DEF Word
  <1>2. d < W
    OBVIOUS
  <1>3. fold(n + d) = ((n + d - 1) % W) + 1 /\ n + d - 1 \in Nat
    BY DEF fold
  <1>4. n # 0 => fold(n) = ((n - 1) % W) + 1 /\ n - 1 \in Nat
    BY DEF fold
  <1> HIDE DEF W
  <1>5. CASE n = 0
    <2>1. fold(n) = 0 /\ (n + d - 1) % W \in Nat
      BY <1>1, <1>3, <1>5 DEF fold
    <2> QED
      BY <1>3, <2>1
  <1>6. CASE n # 0
    <2> DEFINE a == (n - 1) % W
               b == (n + d - 1) % W
               x == (n - 1) \div W
               y == (n + d - 1) \div W
    <2>1. n - 1 = W * x + a /\ x \in Int /\ a \in 0 .. W - 1
      BY <1>1, <1>4, <1>6
    <2>2. n + d - 1 = W * y + b /\ y \in Int /\ b \in 0 .. W - 1
      BY <1>1, <1>3
    <2>3. a # b
      <3> SUFFICES ASSUME a = b
                   PROVE  FALSE
        OBVIOUS
      <3> HIDE DEF a, b, x, y
      <3>1. d = W * y - W * x
        BY <1>1, <2>1, <2>2
      <3>2. W * y - W * x = W * (y - x) /\ y - x \in Int
        BY <1>1, <2>1, <2>2
      <3>3. CASE y - x <= 0
        <4>1. W * (y - x) <= 0
          BY <1>1, <3>2, <3>3
        <4> QED
          BY <3>1, <3>2, <4>1
      <3>4. CASE y - x >= 1
        <4>1. W * (y - x) >= W
          BY <1>1, <3>2, <3>4
        <4> QED
          BY <1>1, <1>2, <3>1, <3>2, <4>1
      <3> QED
        BY <3>2, <3>3, <3>4
    <2>4. a \in Int /\ b \in Int
      BY <2>1, <2>2
    <2> HIDE DEF a, b, x, y
    <2>5. a + 1 # b + 1
      BY <2>3, <2>4
    <2> QED
      BY <1>3, <1>4, <1>6, <2>5 DEF a, b
  <1> QED
    BY <1>5, <1>6

\* A packet with its two bytes of payload, as a function.
Packet == [1 .. 10 -> Byte]

LEMMA PacketIsSeq ==
    ASSUME NEW p \in Packet
    PROVE  p \in Seq(Byte) /\ Len(p) = 10
  <1>1. p \in Seq(Byte)
    BY SeqDef DEF Packet
  <1>2. DOMAIN p = 1 .. 10 /\ DOMAIN p = 1 .. Len(p) /\ Len(p) \in Nat
    BY <1>1, LenProperties DEF Packet
  <1> QED
    BY <1>1, <1>2

LEMMA ByteIsNat == Base \in Nat /\ Base > 3 /\ Byte = 0 .. Base - 1 /\ Byte \subseteq Nat
  BY NetAssumption DEF Byte

LEMMA TimesNat ==
    ASSUME NEW m \in Nat, NEW n \in Nat
    PROVE  m * n \in Nat
  OBVIOUS

\* The header without its checksum, and the sum over it.
Blank(p) == [p EXCEPT ![5] = 0, ![6] = 0]
SumOf(p) == p[1] * Base + p[2] + p[3] * Base + p[4] + p[7] * Base + p[8]

LEMMA SumType ==
    ASSUME NEW p \in Packet
    PROVE  /\ SumOf(p) \in Nat
           /\ p[5] = 0 /\ p[6] = 0 => pairs(p, 4) = SumOf(p)
  <1>1. /\ p[1] \in Nat /\ p[2] \in Nat /\ p[3] \in Nat /\ p[4] \in Nat
        /\ p[7] \in Nat /\ p[8] \in Nat /\ Base \in Nat
    BY ByteIsNat DEF Packet
  <1>2. p[1] * Base \in Nat /\ p[3] * Base \in Nat /\ p[7] * Base \in Nat /\ 0 * Base = 0
    BY <1>1, TimesNat
  <1>3. pairs(p, 4) = 0 + p[1] * Base + p[2] + p[3] * Base + p[4]
                        + p[5] * Base + p[6] + p[7] * Base + p[8]
    BY PairsAre
  <1>4. SumOf(p) \in Nat
    BY <1>1, <1>2 DEF SumOf
  <1>5. p[5] = 0 /\ p[6] = 0 => pairs(p, 4) = SumOf(p)
    BY <1>1, <1>2, <1>3 DEF SumOf
  <1> QED
    BY <1>4, <1>5

\* verified compares the stored digits with the sum over the other bytes.
LEMMA VerifiedIs ==
    ASSUME NEW p \in Packet, p[1] = 1
    PROVE  verified(p) <=> Word - 1 - fold(SumOf(p)) = p[5] + p[6] * Base
  <1> DEFINE z == Blank(p)
  <1>1. ihl(p) = 4
    BY DEF ihl, HeaderPairs
  <1>2. z \in Packet
    <2>1. 0 \in Byte
      BY ByteIsNat
    <2> QED
      BY <2>1 DEF Blank, Packet
  <1>3. /\ z[1] = p[1] /\ z[2] = p[2] /\ z[3] = p[3] /\ z[4] = p[4] /\ z[5] = 0 /\ z[6] = 0
        /\ z[7] = p[7] /\ z[8] = p[8]
    BY DEF Blank, Packet
  <1>4. verified(p) <=> net_checksum(z, ihl(p)) = p[5] + p[6] * Base
    BY DEF verified, Blank
  <1> HIDE DEF z
  <1>5. pairs(z, 4) = SumOf(p)
    BY <1>2, <1>3, SumType DEF SumOf
  <1> QED
    BY <1>1, <1>4, <1>5 DEF net_checksum

\* What net_build_ip builds.
LEMMA Built ==
    ASSUME NEW src \in Byte, NEW dst \in Byte, NEW proto \in Byte, NEW a \in Byte, NEW b \in Byte,
           NEW p, p = net_build_ip(src, dst, proto, <<a, b>>)
    PROVE  /\ p \in Packet /\ p[1] = 1 /\ p[4] = proto /\ p[7] = src /\ p[8] = dst
           /\ p[9] = a /\ p[10] = b
           /\ verified(p)
  <1> DEFINE head == <<1, 2, Base - 1, proto, 0, 0, src, dst>>
             tail == <<a, b>>
             z == head \o tail
             n == net_checksum(z, 4)
  <1>1. {0, 1, 2, Base - 1} \subseteq Byte
    BY ByteIsNat
  <1>2. /\ head \in Seq(Byte) /\ Len(head) = 8 /\ tail \in Seq(Byte) /\ Len(tail) = 2
        /\ head[1] = 1 /\ head[2] = 2 /\ head[3] = Base - 1 /\ head[4] = proto /\ head[5] = 0
        /\ head[6] = 0 /\ head[7] = src /\ head[8] = dst /\ tail[1] = a /\ tail[2] = b
    BY <1>1
  <1>3. p = [z EXCEPT ![5] = n % Base, ![6] = n \div Base]
    BY DEF net_build_ip, HeaderPairs
  <1>4. /\ z \in Packet
        /\ z[1] = 1 /\ z[2] = 2 /\ z[3] = Base - 1 /\ z[4] = proto /\ z[5] = 0 /\ z[6] = 0
        /\ z[7] = src /\ z[8] = dst /\ z[9] = a /\ z[10] = b
    <2> HIDE DEF head, tail
    <2>1. /\ z \in Seq(Byte) /\ Len(z) = Len(head) + Len(tail)
          /\ \A i \in 1 .. Len(head) + Len(tail) : z[i] =
                IF i <= Len(head) THEN head[i] ELSE tail[i - Len(head)]
      BY <1>2, ConcatProperties
    <2> HIDE DEF z
    <2>2. Len(z) = 10
      BY <1>2, <2>1
    <2>3. z \in [1 .. Len(z) -> Byte]
      BY <2>1, LenProperties
    <2>4. z \in Packet
      BY <2>2, <2>3 DEF Packet
    <2>5. \A i \in 1 .. 10 : z[i] = IF i <= 8 THEN head[i] ELSE tail[i - 8]
      BY <1>2, <2>1
    <2> QED
      BY <1>2, <2>4, <2>5
  <1> HIDE DEF z, head, tail
  <1>5. n = Word - 1 - fold(SumOf(z)) /\ n \in 0 .. Word - 1
    <2>1. SumOf(z) \in Nat /\ pairs(z, 4) = SumOf(z)
      BY <1>4, SumType
    <2>2. n = Word - 1 - fold(SumOf(z))
      BY <2>1 DEF net_checksum
    <2>3. fold(SumOf(z)) \in 0 .. Word - 1 /\ Word \in Nat
      BY <2>1, FoldType, ByteIsNat, TimesNat DEF Word
    <2> HIDE DEF n
    <2> QED
      BY <2>2, <2>3
  <1> HIDE DEF n
  <1>6. n % Base \in Byte /\ n \div Base \in Byte /\ n = (n % Base) + (n \div Base) * Base
    BY <1>5, Digits
  <1>7. /\ p \in Packet /\ p[5] = n % Base /\ p[6] = n \div Base
        /\ p[1] = z[1] /\ p[2] = z[2] /\ p[3] = z[3] /\ p[4] = z[4] /\ p[7] = z[7] /\ p[8] = z[8]
        /\ p[9] = z[9] /\ p[10] = z[10]
    <2> DEFINE lo == n % Base
               hi == n \div Base
    <2>1. lo \in Byte /\ hi \in Byte /\ p = [z EXCEPT ![5] = lo, ![6] = hi]
      BY <1>3, <1>6
    <2> HIDE DEF lo, hi
    <2>2. /\ p \in Packet /\ p[5] = lo /\ p[6] = hi
          /\ p[1] = z[1] /\ p[2] = z[2] /\ p[3] = z[3] /\ p[4] = z[4] /\ p[7] = z[7]
          /\ p[8] = z[8] /\ p[9] = z[9] /\ p[10] = z[10]
      BY <1>4, <2>1 DEF Packet
    <2> QED
      BY <2>2 DEF lo, hi
  <1>8. SumOf(p) = SumOf(z)
    BY <1>7 DEF SumOf
  <1>9. verified(p)
    BY <1>4, <1>5, <1>6, <1>7, <1>8, VerifiedIs
  <1> QED
    BY <1>4, <1>7, <1>9

\* A change of one digit changes the sum by less than a word.
LEMMA Spread ==
    ASSUME NEW v \in Byte, NEW b \in Byte, v < b
    PROVE  /\ b - v \in Nat /\ 0 < b - v /\ b - v < Word - 1
           /\ (b - v) * Base \in Nat /\ 0 < (b - v) * Base /\ (b - v) * Base < Word - 1
           /\ b * Base = v * Base + (b - v) * Base
  <1> DEFINE d == b - v
  <1>1. /\ d \in Nat /\ 0 < d /\ d <= Base - 1 /\ Base \in Nat /\ Base > 3
        /\ b \in Nat /\ v \in Nat /\ b = v + d
    BY ByteIsNat
  <1>2. (v + d) * Base = v * Base + d * Base
    BY <1>1
  <1> HIDE DEF d
  <1>3. PICK e \in Nat : Base - 1 = d + e
    BY <1>1
  <1>4. (Base - 1) * Base = d * Base + e * Base /\ e * Base \in Nat
    BY <1>1, <1>3, TimesNat
  <1>5. (Base - 1) * Base = Word - Base
    BY <1>1 DEF Word
  <1>6. d * Base \in Nat /\ Word \in Nat
    BY <1>1, TimesNat DEF Word
  <1>7. d * Base < Word - 1
    BY <1>1, <1>4, <1>5, <1>6
  <1>8. 0 < d * Base /\ d <= d * Base
    BY <1>1
  <1>9. d < Word - 1
    BY <1>1, <1>6, <1>7, <1>8
  <1> QED
    BY <1>1, <1>2, <1>6, <1>7, <1>8, <1>9 DEF d

\* How the sum changes with one byte outside the checksum.
LEMMA SumMoves ==
    ASSUME NEW w \in Packet, NEW p \in Packet, NEW k \in {2, 3, 4, 7, 8}, w[k] < p[k],
           \A j \in 1 .. 10 : j # k => p[j] = w[j]
    PROVE  \E d \in Nat : 0 < d /\ d < Word - 1 /\ SumOf(p) = SumOf(w) + d
  <1> DEFINE c == (p[k] - w[k]) * Base
             e == p[k] - w[k]
  <1>1. /\ e \in Nat /\ 0 < e /\ e < Word - 1 /\ c \in Nat /\ 0 < c /\ c < Word - 1
        /\ p[k] * Base = w[k] * Base + c /\ p[k] = w[k] + e
    <2>1. w[k] \in Byte /\ p[k] \in Byte
      BY DEF Packet
    <2>2. p[k] = w[k] + (p[k] - w[k])
      BY <2>1, ByteIsNat
    <2> QED
      BY <2>1, <2>2, Spread
  <1>2. /\ w[1] \in Nat /\ w[2] \in Nat /\ w[3] \in Nat /\ w[4] \in Nat /\ w[7] \in Nat
        /\ w[8] \in Nat /\ Base \in Nat
    BY ByteIsNat DEF Packet
  <1>3. w[1] * Base \in Nat /\ w[3] * Base \in Nat /\ w[7] * Base \in Nat
    BY <1>2, TimesNat
  <1> HIDE DEF c, e
  <1>4. CASE k = 3
    <2>1. /\ p[1] = w[1] /\ p[2] = w[2] /\ p[4] = w[4] /\ p[7] = w[7] /\ p[8] = w[8]
          /\ p[3] * Base = w[3] * Base + c
      BY <1>1, <1>4
    <2>2. SumOf(p) = SumOf(w) + c
      BY <1>1, <1>2, <1>3, <2>1 DEF SumOf
    <2> QED
      BY <1>1, <2>2
  <1>5. CASE k = 7
    <2>1. /\ p[1] = w[1] /\ p[2] = w[2] /\ p[3] = w[3] /\ p[4] = w[4] /\ p[8] = w[8]
          /\ p[7] * Base = w[7] * Base + c
      BY <1>1, <1>5
    <2>2. SumOf(p) = SumOf(w) + c
      BY <1>1, <1>2, <1>3, <2>1 DEF SumOf
    <2> QED
      BY <1>1, <2>2
  <1>6. CASE k \in {2, 4, 8}
    <2>1. /\ p[1] = w[1] /\ p[3] = w[3] /\ p[7] = w[7]
          /\ p[2] = IF k = 2 THEN w[2] + e ELSE w[2]
          /\ p[4] = IF k = 4 THEN w[4] + e ELSE w[4]
          /\ p[8] = IF k = 8 THEN w[8] + e ELSE w[8]
      BY <1>1, <1>6
    <2>2. SumOf(p) = SumOf(w) + e
      BY <1>1, <1>2, <1>3, <1>6, <2>1 DEF SumOf
    <2> QED
      BY <1>1, <2>2
  <1> QED
    BY <1>4, <1>5, <1>6

\* ip_receive notices a change of one byte of a header that was right.
LEMMA ChangeNoticed ==
    ASSUME NEW w \in Packet, w[1] = 1, verified(w), NEW k \in 2 .. 8, NEW b \in Byte,
           NEW p, p = [w EXCEPT ![k] = b], p # w
    PROVE  p \in Packet /\ p[1] = 1 /\ ~verified(p)
  <1>1. /\ p \in Packet /\ p[k] = b /\ \A j \in 1 .. 10 : j # k => p[j] = w[j]
    BY DEF Packet
  <1>2. p[1] = 1
    BY <1>1
  <1>3. w[k] # b
    <2> SUFFICES ASSUME w[k] = b
                 PROVE  FALSE
      OBVIOUS
    <2>1. \A j \in 1 .. 10 : p[j] = w[j]
      BY <1>1
    <2> QED
      BY <1>1, <2>1 DEF Packet
  <1>4. SUFFICES ASSUME verified(p)
                 PROVE  FALSE
    BY <1>1, <1>2
  <1>5. /\ Word - 1 - fold(SumOf(w)) = w[5] + w[6] * Base
        /\ Word - 1 - fold(SumOf(p)) = p[5] + p[6] * Base
    BY <1>1, <1>2, <1>4, VerifiedIs
  <1>6. /\ fold(SumOf(w)) \in Int /\ fold(SumOf(p)) \in Int /\ Word \in Nat
        /\ SumOf(w) \in Nat /\ SumOf(p) \in Nat
    BY <1>1, SumType, FoldType, ByteIsNat, TimesNat DEF Word
  <1>7. /\ w[5] \in Nat /\ w[6] \in Nat /\ b \in Nat /\ Base \in Nat /\ Base > 3
        /\ w[k] \in Byte /\ w[k] \in Nat
    <2>1. w[5] \in Byte /\ w[6] \in Byte /\ w[k] \in Byte
      BY DEF Packet
    <2> QED
      BY <2>1, ByteIsNat
  <1>8. w[6] * Base \in Nat /\ b * Base \in Nat
    BY <1>7, TimesNat
  <1>9. CASE k = 5
    <2>1. SumOf(p) = SumOf(w) /\ p[6] = w[6] /\ p[5] = b
      BY <1>1, <1>9 DEF SumOf
    <2> QED
      BY <1>3, <1>5, <1>6, <1>7, <1>8, <1>9, <2>1
  <1>10. CASE k = 6
    <2>1. SumOf(p) = SumOf(w) /\ p[5] = w[5] /\ p[6] = b
      BY <1>1, <1>10 DEF SumOf
    <2>2. w[6] * Base = b * Base
      BY <1>5, <1>6, <1>7, <1>8, <2>1
    <2>3. w[6] = b
      BY <1>7, <2>2
    <2> QED
      BY <1>3, <1>10, <2>3
  <1>11. CASE k \in {2, 3, 4, 7, 8}
    <2>1. fold(SumOf(w)) = fold(SumOf(p))
      <3>1. p[5] = w[5] /\ p[6] = w[6]
        BY <1>1, <1>11
      <3>2. w[5] + w[6] * Base \in Nat
        BY <1>7, <1>8
      <3> QED
        BY <1>5, <1>6, <3>1, <3>2
    <2>2. CASE w[k] < b
      <3>1. PICK d \in Nat : 0 < d /\ d < Word - 1 /\ SumOf(p) = SumOf(w) + d
        BY <1>1, <1>11, <2>2, SumMoves
      <3> QED
        BY <1>6, <2>1, <3>1, FoldDiffers
    <2>3. CASE b < w[k]
      <3>1. \A j \in 1 .. 10 : j # k => w[j] = p[j]
        BY <1>1
      <3>2. p[k] < w[k]
        BY <1>1, <2>3
      <3>3. PICK d \in Nat : 0 < d /\ d < Word - 1 /\ SumOf(w) = SumOf(p) + d
        BY <1>1, <1>11, <3>1, <3>2, SumMoves
      <3> QED
        BY <1>6, <2>1, <3>3, FoldDiffers
    <2> QED
      BY <1>3, <1>7, <2>2, <2>3
  <1> QED
    BY <1>9, <1>10, <1>11

-----------------------------------------------------------------------------
(***************************************************************************)
(* The services.  The invariant adds to the two properties that addresses, *)
(* identifiers and sequence numbers are bytes, so that what the calls      *)
(* build is a packet.                                                      *)
(***************************************************************************)
SentOK == sent = << >> \/ (sent \in Packet /\ verified(sent))

GotOK ==
    /\ got.byte = 0 => got.outcome \in {None, "accepted", "other"}
    /\ got.changed /\ got.byte # 1 => got.outcome = "checksum"

ConnsOK == conns \in [Fds -> 0 .. MAX_TCP_CONNS]

NetInv == ArpInv /\ local_ip \in Hosts \cup {0} /\ SentOK /\ GotOK /\ ConnsOK

LEMMA Addresses ==
    /\ Hosts \cup {0} \subseteq Byte /\ Hosts \cup {Base - 1} \subseteq Byte /\ Ids \subseteq Byte
    /\ 0 .. MAX_TCP_CONNS \subseteq Byte
    /\ {0, ICMP, TCP, ECHO_REQUEST, ECHO_REPLY} \subseteq Byte /\ LocalIp \in Hosts
  BY NetAssumption DEF Byte, ICMP, TCP, ECHO_REQUEST, ECHO_REPLY

\* The invariant implies the properties.
LEMMA NetInvShows == NetInv => ArpKnows /\ ChecksumGuards
  <1> SUFFICES ASSUME NetInv
               PROVE  ArpKnows /\ ChecksumGuards
    OBVIOUS
  <1>1. NetTypeOK
    <2>1. sent \in Seq(Byte)
      <3>1. << >> \in Seq(Byte)
        BY EmptySeq
      <3> QED
        BY <3>1, PacketIsSeq DEF NetInv, SentOK
    <2>2. conns \in [Fds -> Nat]
      BY NetAssumption DEF NetInv, ConnsOK
    <2> QED
      BY <2>1, <2>2 DEF NetInv, NetTypeOK, ArpInv, Entry
  <1>2. ASSUME NEW ip \in Hosts
        PROVE  arp_resolve(ip) = IF ip \in evicted THEN None ELSE learned[ip]
    <2>1. CASE Known(ip) = {}
      <3>1. arp_resolve(ip) = None
        BY <2>1, SlotFound DEF arp_resolve
      <3> QED
        BY <2>1, <3>1 DEF NetInv, ArpInv
    <2>2. CASE Known(ip) # {}
      <3>1. PICK i \in Known(ip) : arp_find_entry(ip) = {i}
        BY <2>2, SlotFound
      <3>2. arp_resolve(ip) = arp_cache[i].mac
        BY <3>1 DEF arp_resolve
      <3> QED
        BY <3>1, <3>2 DEF NetInv, ArpInv, Known
    <2> QED
      BY <2>1, <2>2
  <1> QED
    BY <1>1, <1>2 DEF ArpKnows, ChecksumGuards, NetInv, SentOK, GotOK

LEMMA NetStarts == Init => NetInv
  <1> SUFFICES ASSUME Init
               PROVE  NetInv
    OBVIOUS
  <1>1. ArpInv
    <2> DEFINE e == [valid |-> FALSE, ip |-> 0, mac |-> None]
    <2>1. e \in Entry /\ ~e.valid
      BY DEF Entry
    <2>2. arp_cache = [i \in Slots |-> e] /\ learned = [ip \in Hosts |-> None]
      BY DEF Init
    <2> HIDE DEF e
    <2>3. /\ arp_cache \in [Slots -> Entry] /\ \A i \in Slots : ~arp_cache[i].valid
          /\ DOMAIN learned = Hosts /\ \A ip \in Hosts : learned[ip] = None
      BY <2>1, <2>2
    <2> QED
      BY <2>3 DEF ArpInv
  <1>2. SentOK /\ GotOK /\ local_ip \in Hosts \cup {0}
    BY DEF Init, SentOK, GotOK, Nothing
  <1>3. ConnsOK
    <2>1. 0 \in 0 .. MAX_TCP_CONNS /\ 1 \in 0 .. MAX_TCP_CONNS
      BY NetAssumption
    <2> QED
      BY <2>1 DEF Init, ConnsOK
  <1> QED
    BY <1>1, <1>2, <1>3 DEF NetInv

\* The packets the calls of this host build are right.
LEMMA Sends ==
    ASSUME NEW dst \in Byte, NEW proto \in Byte, NEW a \in Byte, NEW b \in Byte,
           local_ip \in Byte, ip_send(dst, proto, <<a, b>>)
    PROVE  SentOK'
  BY Built DEF ip_send, SentOK

\* So is the answer to an echo request, whatever the length of its header.
LEMMA Answers ==
    ASSUME NEW p \in Packet, p[1] \in 1 .. 3, local_ip \in Byte, icmp_receive(data_of(p), p[7])
    PROVE  SentOK'
  <1>1. CASE sent' = << >>
    BY <1>1 DEF SentOK
  <1>2. CASE sent' # << >>
    <2> DEFINE d == data_of(p)
               n == 2 * ihl(p) + 1
    <2>1. Len(d) >= 2 /\ ip_send(p[7], ICMP, <<ECHO_REQUEST, d[2]>>)
      BY <1>2 DEF icmp_receive
    <2>2. n \in 7 .. 11
      BY DEF ihl, HeaderPairs
    <2>3. d = SubSeq(p, n, 10)
      BY PacketIsSeq DEF data_of
    <2> HIDE DEF n
    <2>4. \A i \in n .. 10 : p[i] \in Byte
      BY <2>2 DEF Packet
    <2>5. d \in Seq(Byte)
      BY <2>2, <2>3, <2>4, SubSeqProperties
    <2> HIDE DEF d
    <2>6. d[2] \in Byte
      BY <2>1, <2>5, ElementOfSeq
    <2>7. p[7] \in Byte
      BY DEF Packet
    <2> QED
      BY <2>1, <2>6, <2>7, Addresses, Sends
  <1> QED
    BY <1>1, <1>2

LEMMA IpReceiveStep == NetInv /\ ip_receive => NetInv'
  <1> SUFFICES ASSUME NetInv, ip_receive
               PROVE  NetInv'
    OBVIOUS
  <1>1. PICK src \in Hosts, dst \in Hosts \cup {Base - 1}, proto \in {ICMP, TCP},
             type \in {ECHO_REQUEST, ECHO_REPLY}, id \in Ids, k \in 0 .. 2 * HeaderPairs, b \in Byte :
          LET whole == net_build_ip(src, dst, proto, <<type, id>>)
              p == IF k = 0 THEN whole ELSE [whole EXCEPT ![k] = b]
          IN  /\ Idle
              /\ k = 0 => b = 0
              /\ got' = [byte |-> k, changed |-> p # whole, outcome |-> Outcome(p)]
              /\ IF Outcome(p) = "accepted" /\ p[4] = ICMP THEN icmp_receive(data_of(p), p[7])
                 ELSE sent' = << >>
              /\ UNCHANGED <<arpVars, local_ip, conns>>
    BY DEF ip_receive
  <1> DEFINE w == net_build_ip(src, dst, proto, <<type, id>>)
             p == IF k = 0 THEN w ELSE [w EXCEPT ![k] = b]
  <1>2. /\ got' = [byte |-> k, changed |-> p # w, outcome |-> Outcome(p)]
        /\ IF Outcome(p) = "accepted" /\ p[4] = ICMP THEN icmp_receive(data_of(p), p[7])
           ELSE sent' = << >>
        /\ UNCHANGED <<arpVars, local_ip, conns>>
    BY <1>1
  <1>3. w \in Packet /\ w[1] = 1 /\ verified(w)
    <2>1. src \in Byte /\ dst \in Byte /\ proto \in Byte /\ type \in Byte /\ id \in Byte
      BY Addresses
    <2> HIDE DEF w, p
    <2>2. w = net_build_ip(src, dst, proto, <<type, id>>)
      BY DEF w
    <2> QED
      BY <2>1, <2>2, Built
  <1> HIDE DEF w
  <1>4. p \in Packet
    BY <1>3 DEF Packet, HeaderPairs
  <1>5. k = 0 => Outcome(p) \in {"accepted", "other"} /\ p = w
    BY <1>3 DEF Outcome
  <1>6. k \in 2 .. 8 /\ p # w => Outcome(p) = "checksum"
    <2> SUFFICES ASSUME k \in 2 .. 8, p # w
                 PROVE  Outcome(p) = "checksum"
      OBVIOUS
    <2>1. p = [w EXCEPT ![k] = b]
      OBVIOUS
    <2> HIDE DEF p
    <2>2. p[1] = 1 /\ ~verified(p)
      BY <1>3, <2>1, ChangeNoticed
    <2> QED
      BY <2>2 DEF Outcome
  <1>7. Outcome(p) = "accepted" => p[1] \in 1 .. 3
    BY DEF Outcome
  <1> HIDE DEF p
  <1>8. SentOK'
    <2>1. CASE Outcome(p) = "accepted" /\ p[4] = ICMP
      <3>1. local_ip \in Byte
        BY Addresses DEF NetInv
      <3> QED
        BY <1>2, <1>4, <1>7, <2>1, <3>1, Answers
    <2>2. CASE ~(Outcome(p) = "accepted" /\ p[4] = ICMP)
      BY <1>2, <2>2 DEF SentOK
    <2> QED
      BY <2>1, <2>2
  <1>9. GotOK'
    <2>1. got'.byte = k /\ got'.changed = (p # w) /\ got'.outcome = Outcome(p)
      BY <1>2
    <2>2. k = 0 \/ k = 1 \/ k \in 2 .. 8
      BY DEF HeaderPairs
    <2> QED
      BY <1>5, <1>6, <2>1, <2>2 DEF GotOK
  <1> QED
    BY <1>2, <1>8, <1>9 DEF NetInv, ArpInv, ConnsOK, arpVars, Known

\* Every other step.
LEMMA NetStep == NetInv /\ [Next]_vars => NetInv'
  <1> SUFFICES ASSUME NetInv, [Next]_vars
               PROVE  NetInv'
    OBVIOUS
  <1> USE DEF NetInv
  <1>1. local_ip \in Byte
    BY Addresses
  <1>2. CASE UNCHANGED vars
    BY <1>2 DEF vars, arpVars, ipVars, ArpInv, Known, SentOK, GotOK, ConnsOK
  <1>3. CASE Return
    BY <1>3 DEF Return, arpVars, ArpInv, Known, SentOK, GotOK, ConnsOK, Nothing
  <1>4. CASE arp_receive
    <2>1. ArpInv'
      BY <1>4, ArpReply DEF arp_receive
    <2> QED
      BY <1>4, <2>1 DEF arp_receive, Quiet, ipVars, SentOK, GotOK, ConnsOK
  <1>5. CASE ip_receive
    BY <1>5, IpReceiveStep
  <1>6. CASE ip_set_local
    BY <1>6, Addresses DEF ip_set_local, arpVars, ArpInv, Known, SentOK, GotOK, ConnsOK
  <1>7. CASE tcp_socket
    <2>1. PICK i \in Fds : conns' = [conns EXCEPT ![i] = 1 + i]
      BY <1>7 DEF tcp_socket, find_free_conn, First
    <2>2. ConnsOK'
      BY <2>1, NetAssumption DEF ConnsOK, Fds
    <2> QED
      BY <1>7, <2>2 DEF tcp_socket, Quiet, ipVars, arpVars, ArpInv, Known, SentOK, GotOK
  <1>8. CASE tcp_connect
    <2>1. PICK i \in Fds, dst \in Hosts : ip_send(dst, TCP, <<conns[i], 0>>)
      BY <1>8 DEF tcp_connect
    <2>2. conns[i] \in Byte
      BY <2>1, Addresses DEF ConnsOK
    <2>3. SentOK'
      BY <1>1, <2>1, <2>2, Addresses, Sends
    <2> QED
      BY <1>8, <2>3 DEF tcp_connect, arpVars, ArpInv, Known, GotOK, ConnsOK
  <1>9. CASE tcp_send
    <2>1. PICK i \in Fds : ip_send(0, TCP, <<conns[i], 0>>)
      BY <1>9 DEF tcp_send
    <2>2. conns[i] \in Byte
      BY <2>1, Addresses DEF ConnsOK
    <2>3. SentOK'
      BY <1>1, <2>1, <2>2, Addresses, Sends
    <2> QED
      BY <1>9, <2>3 DEF tcp_send, arpVars, ArpInv, Known, GotOK, ConnsOK
  <1>10. CASE tcp_close
    <2>1. ConnsOK'
      BY <1>10, NetAssumption DEF tcp_close, ConnsOK
    <2> QED
      BY <1>10, <2>1 DEF tcp_close, Quiet, ipVars, arpVars, ArpInv, Known, SentOK, GotOK
  <1> QED
    BY <1>2, <1>3, <1>4, <1>5, <1>6, <1>7, <1>8, <1>9, <1>10 DEF Next

\* The invariant of the services.
THEOREM NetInvariance == Spec => []NetInv
  <1>1. Init => NetInv
    BY NetStarts
  <1>2. NetInv /\ [Next]_vars => NetInv'
    BY NetStep
  <1> QED
    BY <1>1, <1>2, PTL DEF Spec

(***************************************************************************)
(* arp.c: for any cache size and any hosts, arp_resolve answers with what  *)
(* the host said last, or not at all once its entry was overwritten.       *)
(***************************************************************************)
THEOREM ArpAnswersLast == Spec => []ArpKnows
  BY NetInvariance, NetInvShows, PTL

(***************************************************************************)
(* ip.c and net_utils.c: for any base of the bytes, ip_receive takes what  *)
(* net_build_ip built, and refuses it with any one byte of the header      *)
(* behind the first changed.                                               *)
(***************************************************************************)
THEOREM ChecksumCatchesOneByte == Spec => []ChecksumGuards
  BY NetInvariance, NetInvShows, PTL

-----------------------------------------------------------------------------
(***************************************************************************)
(* The card.  First the arithmetic of its rings.                           *)
(***************************************************************************)
LEMMA ModIs ==
    ASSUME NEW m \in Nat \ {0}, NEW x \in Nat, x < 2 * m
    PROVE  x % m = IF x < m THEN x ELSE x - m
  <1> DEFINE r == x % m
             q == x \div m
  <1>1. x = m * q + r /\ q \in Nat /\ r \in 0 .. m - 1
    OBVIOUS
  <1> HIDE DEF r, q
  <1>2. q < 2
    <2> SUFFICES ASSUME q >= 2
                 PROVE  FALSE
      BY <1>1
    <2>1. PICK d \in Nat : q = 2 + d
      BY <1>1
    <2>2. m * q = 2 * m + m * d /\ m * d \in Nat
      BY <2>1, TimesNat
    <2> QED
      BY <1>1, <2>2
  <1>3. q = 0 \/ q = 1
    BY <1>1, <1>2
  <1>4. m * 0 = 0 /\ m * 1 = m
    OBVIOUS
  <1> QED
    BY <1>1, <1>3, <1>4 DEF r

LEMMA ModRange ==
    ASSUME NEW m \in Nat \ {0}, NEW x \in Nat
    PROVE  x % m \in 0 .. m - 1
  OBVIOUS

LEMMA DivFour ==
    ASSUME NEW k \in Nat
    PROVE  (k * 4) \div 4 = k
  OBVIOUS

\* Lengths and offsets are rounded up to the next cell.
LEMMA Up4Is ==
    ASSUME NEW n \in Nat
    PROVE  /\ Up4(n) \in Nat /\ Up4(n) >= n /\ Up4(n) <= n + 3
           /\ Up4(n) % 4 = 0 /\ Up4(n) = 4 * (Up4(n) \div 4) /\ Up4(n) \div 4 \in Nat
  BY DEF Up4

Size == RTL_RX_BUFFER_SIZE

LEMMA RingIs ==
    /\ Size \in Nat \ {0} /\ Size \div 4 \in Nat \ {0} /\ Size = 4 * (Size \div 4)
    /\ Cells = 0 .. (Size \div 4) - 1
    /\ LengthField = 2 * Size /\ Width16 = 8 * Size
  BY RtlAssumption DEF Size, Cells, LengthField, Width16

LEMMA LensFit == \A len \in FrameLen : len \in Nat /\ len >= 1 /\ len + 8 <= Size
  BY RtlAssumption DEF Size

\* An offset in the ring is the place of a cell.
LEMMA OffsetIsCell ==
    ASSUME NEW x \in Nat, x % 4 = 0, x < Size
    PROVE  x \div 4 \in Cells
  BY RingIs

(***************************************************************************)
(* Receiving.  Until the first frame is delivered the driver reads at the  *)
(* start of the ring, the card knows it, and so the first frame stays      *)
(* where it was written.                                                   *)
(***************************************************************************)
FirstIsThere ==
    /\ rx_offset = 0 /\ rx_read = 0
    /\ arrived = << >> => rx_write = 0 /\ rx_ring[0] = Zero
    /\ arrived # << >> =>
         /\ arrived[1] \in FrameLen
         /\ Up4(arrived[1] + 8) <= rx_write
         /\ rx_ring[0] = Header(1, arrived[1] + 4)
         /\ \A k \in 1 .. (Up4(arrived[1] + 8) \div 4) - 1 : rx_ring[k] = Data(1, k)

Written == [type: {"zero", "header", "data"}, frame: Nat, n: Nat]

RxInv ==
    /\ rx_ring \in [Cells -> Written]
    /\ arrived \in Seq(FrameLen) /\ delivered \in Nat
    /\ rx_write \in 0 .. Size - 1
    /\ rx_offset \in 0 .. Size - 1 /\ rx_offset % 4 = 0
    /\ rx.length <= rx.max_length
    /\ delivered = 1 => rx.frame = 1
    /\ delivered = 0 => FirstIsThere

LEMMA NicStartsRx == NicInit => RxInv
  <1> SUFFICES ASSUME NicInit
               PROVE  RxInv
    OBVIOUS
  <1>1. 0 \in Cells
    BY RingIs
  <1>2. arrived = << >> /\ << >> \in Seq(FrameLen)
    BY EmptySeq DEF NicInit
  <1>3. rx_offset = 0 /\ rx_read = 0 /\ rx_write = 0 /\ delivered = 0 /\ 0 \in 0 .. Size - 1
    BY RingIs DEF NicInit
  <1>4. rx.length <= rx.max_length
    BY DEF NicInit
  <1>5. rx_ring = [c \in Cells |-> Zero]
    BY DEF NicInit
  <1> QED
    BY <1>1, <1>2, <1>3, <1>4, <1>5 DEF RxInv, FirstIsThere, Zero, Lost, Written

\* The place of a cell behind the card's write offset.
LEMMA PlaceIs ==
    ASSUME NEW c \in Cells, NEW w \in 0 .. Size - 1
    PROVE  (c * 4 + Size - w) % Size = IF c * 4 >= w THEN c * 4 - w ELSE c * 4 + Size - w
  <1> DEFINE x == c * 4 + Size - w
  <1>1. Size \in Nat \ {0} /\ c \in Nat /\ c * 4 < Size
    BY RingIs
  <1>2. x \in Nat /\ x < 2 * Size
    BY <1>1
  <1>3. x % Size = IF x < Size THEN x ELSE x - Size
    <2> HIDE DEF x
    <2> QED
      BY <1>1, <1>2, ModIs
  <1> QED
    BY <1>1, <1>3

\* A frame arrives.
LEMMA CardReceives ==
    ASSUME RxInv, NEW len \in FrameLen, card_receive(len)
    PROVE  RxInv'
  <1> DEFINE f == Len(arrived) + 1
             size == Up4(4 + len + 4)
             w == rx_write
             at(c) == (c * 4 + Size - w) % Size
             unread == (w + Size - rx_read) % Size
  <1>1. /\ size + unread < Size
        /\ rx_ring' = [c \in Cells |-> IF at(c) = 0 THEN Header(f, len + 4)
                                       ELSE IF at(c) < size THEN Data(f, at(c) \div 4)
                                       ELSE rx_ring[c]]
        /\ rx_write' = (w + size) % Size
        /\ arrived' = Append(arrived, len)
        /\ UNCHANGED <<rx_offset, rx_read, rx, delivered>>
    BY DEF card_receive, Size
  <1>2. len \in Nat /\ len >= 1 /\ len + 8 <= Size /\ Size \in Nat \ {0}
    BY RtlAssumption, RingIs DEF Size
  <1>3. /\ size = Up4(len + 8) /\ size \in Nat /\ size >= len + 8 /\ size % 4 = 0
        /\ size = 4 * (size \div 4) /\ size \div 4 \in Nat
    <2>1. 4 + len + 4 = len + 8 /\ len + 8 \in Nat
      BY <1>2
    <2> QED
      BY <2>1, Up4Is
  <1>4. f \in Nat /\ arrived \in Seq(FrameLen)
    BY DEF RxInv
  <1>5. /\ arrived' \in Seq(FrameLen) /\ arrived' # << >>
        /\ (arrived = << >> => f = 1 /\ arrived'[1] = len)
        /\ (arrived # << >> => arrived'[1] = arrived[1])
    BY <1>1, <1>4
  <1> HIDE DEF f, size, w
  <1>6. w \in 0 .. Size - 1 /\ w \in Nat
    BY RingIs DEF RxInv, w
  <1>7. ASSUME NEW c \in Cells
        PROVE  at(c) = IF c * 4 >= w THEN c * 4 - w ELSE c * 4 + Size - w
    BY <1>6, PlaceIs
  <1>8. rx_ring' \in [Cells -> Written]
    <2>1. ASSUME NEW c \in Cells
          PROVE  Header(f, len + 4) \in Written /\ Data(f, at(c) \div 4) \in Written
      <3>1. c \in Nat /\ c * 4 < Size
        BY RingIs
      <3>2. len + 4 \in Nat /\ at(c) \in Nat
        BY <1>2, <1>6, <1>7, <3>1
      <3> HIDE DEF at
      <3>3. at(c) \div 4 \in Nat
        BY <3>2
      <3> QED
        BY <1>4, <3>2, <3>3 DEF Header, Data, Written
    <2> HIDE DEF at
    <2> QED
      BY <1>1, <2>1 DEF RxInv
  <1>9. rx_write' \in 0 .. Size - 1
    <2>1. w + size \in Nat
      BY <1>3, <1>6
    <2> QED
      BY <1>1, <1>2, <2>1, ModRange
  <1>10. ASSUME delivered' = 0
         PROVE  FirstIsThere'
    <2>1. FirstIsThere /\ rx_offset' = 0 /\ rx_read' = 0 /\ rx_read = 0
      BY <1>1, <1>10 DEF RxInv, FirstIsThere
    <2>2. unread = w
      <3> DEFINE x == w + Size - 0
      <3>1. x \in Nat /\ x < 2 * Size /\ ~(x < Size) /\ x - Size = w
        BY <1>2, <1>6
      <3>2. unread = x % Size
        BY <2>1
      <3> HIDE DEF x
      <3>3. x % Size = x - Size
        BY <1>2, <3>1, ModIs
      <3> QED
        BY <3>1, <3>2, <3>3
    <2>3. size + w < Size
      BY <1>1, <2>2
    <2>4. rx_write' = w + size
      <3>1. w + size \in Nat /\ w + size < Size /\ w + size < 2 * Size
        BY <1>2, <1>3, <1>6, <2>3
      <3> QED
        BY <1>1, <1>2, <3>1, ModIs
    <2>5. CASE arrived = << >>
      <3>1. w = 0 /\ f = 1 /\ arrived'[1] = len
        BY <1>5, <2>1, <2>5 DEF FirstIsThere, w
      <3>2. ASSUME NEW c \in Cells
            PROVE  at(c) = c * 4
        BY <1>7, <3>1, RingIs
      <3>3. rx_ring'[0] = Header(1, len + 4)
        <4>1. 0 \in Cells /\ 0 * 4 = 0
          BY RingIs
        <4>2. at(0) = 0
          BY <3>2, <4>1
        <4> HIDE DEF at
        <4> QED
          BY <1>1, <3>1, <4>1, <4>2
      <3>4. ASSUME NEW k \in 1 .. (size \div 4) - 1
            PROVE  rx_ring'[k] = Data(1, k)
        <4> DEFINE q == size \div 4
        <4>1. k \in Nat /\ k * 4 < size /\ k * 4 < Size /\ k * 4 # 0 /\ (k * 4) \div 4 = k
          <5>1. k \in 1 .. q - 1 /\ q \in Nat /\ size = 4 * q
            BY <1>3
          <5> HIDE DEF q
          <5>2. k \in Nat /\ k * 4 < size /\ k * 4 # 0
            BY <5>1
          <5> QED
            BY <1>2, <1>3, <2>3, <3>1, <5>2, DivFour
        <4>2. k \in Cells
          BY <4>1, RingIs
        <4>3. at(k) = k * 4
          BY <3>2, <4>2
        <4> HIDE DEF at
        <4> QED
          BY <1>1, <3>1, <4>1, <4>2, <4>3
      <3>5. size <= rx_write'
        BY <1>3, <2>4, <3>1
      <3> QED
        BY <1>3, <1>5, <2>1, <3>1, <3>3, <3>4, <3>5 DEF FirstIsThere
    <2>6. CASE arrived # << >>
      <3> DEFINE a == arrived[1]
                 s == Up4(a + 8)
      <3>1. /\ a \in FrameLen /\ s <= w /\ rx_ring[0] = Header(1, a + 4)
            /\ \A k \in 1 .. (s \div 4) - 1 : rx_ring[k] = Data(1, k)
            /\ arrived'[1] = a
        BY <1>5, <2>1, <2>6 DEF FirstIsThere, w
      <3>2. s \in Nat /\ s = 4 * (s \div 4) /\ s \div 4 \in Nat /\ s >= 8
        <4> HIDE DEF a
        <4>1. a \in Nat /\ a + 8 \in Nat /\ a + 8 >= 8
          BY <3>1, LensFit
        <4> QED
          BY <4>1, Up4Is
      <3> HIDE DEF a, s
      <3>3. ASSUME NEW k \in 0 .. (s \div 4) - 1
            PROVE  rx_ring'[k] = rx_ring[k]
        <4>1. k \in Nat /\ k * 4 < w /\ k * 4 < Size
          BY <1>2, <1>6, <3>1, <3>2
        <4>2. k \in Cells
          BY <4>1, RingIs
        <4>3. at(k) = k * 4 + Size - w
          BY <1>2, <1>6, <1>7, <4>1, <4>2
        <4>4. at(k) # 0 /\ ~(at(k) < size)
          BY <1>2, <1>3, <1>6, <2>3, <4>1, <4>3
        <4> HIDE DEF at
        <4> QED
          BY <1>1, <4>2, <4>4
      <3>4. s <= rx_write'
        BY <1>3, <1>6, <2>4, <3>1, <3>2
      <3>5. rx_ring'[0] = Header(1, a + 4)
        BY <3>1, <3>2, <3>3
      <3>6. \A k \in 1 .. (s \div 4) - 1 : rx_ring'[k] = Data(1, k)
        BY <3>1, <3>2, <3>3
      <3> QED
        BY <1>5, <2>1, <3>1, <3>4, <3>5, <3>6 DEF FirstIsThere, s
    <2> QED
      BY <2>5, <2>6
  <1> QED
    BY <1>1, <1>5, <1>8, <1>9, <1>10 DEF RxInv

LEMMA MinIs ==
    ASSUME NEW m \in Nat, NEW n \in Nat
    PROVE  Min({m, n}) = IF m <= n THEN m ELSE n
  <1> DEFINE x == IF m <= n THEN m ELSE n
  <1>1. x \in {m, n} /\ \A y \in {m, n} : x <= y
    OBVIOUS
  <1>2. \A z \in {m, n} : (\A y \in {m, n} : z <= y) => z = x
    OBVIOUS
  <1> HIDE DEF x
  <1>3. Min({m, n}) \in {m, n} /\ \A y \in {m, n} : Min({m, n}) <= y
    BY <1>1 DEF Min
  <1> QED
    BY <1>2, <1>3 DEF x

\* What the driver takes from the first frame while nothing was delivered.
LEMMA FirstCopied ==
    ASSUME RxInv, FirstIsThere, NEW h \in headers, h.ready
    PROVE  /\ (h.length + Width16 - 4) % Width16 = arrived[1]
           /\ copied(arrived[1]) = 1
  <1> DEFINE a == arrived[1]
             s == Up4(a + 8)
             n == Up4(a) \div 4
  <1>1. rx_offset = 0 /\ rx_offset \div 4 = 0
    BY DEF FirstIsThere
  <1>2. arrived # << >>
    <2> SUFFICES ASSUME arrived = << >>
                 PROVE  FALSE
      OBVIOUS
    <2>1. rx_ring[0] = Zero
      BY DEF FirstIsThere
    <2> QED
      BY <1>1, <2>1 DEF headers
  <1>3. /\ a \in FrameLen /\ rx_ring[0] = Header(1, a + 4) /\ s <= rx_write
        /\ \A k \in 1 .. (s \div 4) - 1 : rx_ring[k] = Data(1, k)
    BY <1>2 DEF FirstIsThere
  <1>4. 1 \in DOMAIN arrived
    BY <1>2 DEF RxInv
  <1> HIDE DEF a
  <1>5. a \in Nat /\ a >= 1 /\ a + 8 <= Size /\ Size \in Nat \ {0}
    BY <1>3, LensFit, RingIs
  <1>6. h.length = a + 4
    BY <1>1, <1>3 DEF headers, Header, Zero
  <1>7. (h.length + Width16 - 4) % Width16 = a
    <2> DEFINE x == h.length + Width16 - 4
    <2>1. Width16 \in Nat \ {0} /\ x \in Nat /\ x - Width16 = a /\ x < 2 * Width16 /\ ~(x < Width16)
      BY <1>5, <1>6, RingIs
    <2> HIDE DEF x
    <2>2. x % Width16 = x - Width16
      BY <2>1, ModIs
    <2> QED
      BY <2>1, <2>2 DEF x
  <1>8. n \in Nat /\ n >= 1 /\ n <= (s \div 4) - 1 /\ 4 * n < Size
    BY <1>5 DEF Up4
  <1> HIDE DEF n, s
  <1> DEFINE whole(f) == \A k \in 1 .. n : 0 + k \in Cells /\ rx_ring[0 + k] = Data(f, k)
  <1>9. whole(1)
    <2> SUFFICES ASSUME NEW k \in 1 .. n
                 PROVE  0 + k \in Cells /\ rx_ring[0 + k] = Data(1, k)
      OBVIOUS
    <2>1. 0 + k = k /\ k \in 1 .. (s \div 4) - 1
      <3> DEFINE q == s \div 4
      <3>1. n <= q - 1 /\ q \in Int
        BY <1>5, <1>8, Up4Is DEF s
      <3> HIDE DEF q
      <3>2. k \in 1 .. q - 1 /\ 0 + k = k
        BY <1>8, <3>1
      <3> QED
        BY <3>2 DEF q
    <2>2. k \in Cells
      BY <1>8, RingIs
    <2> QED
      BY <1>3, <2>1, <2>2
  <1>10. ASSUME NEW f, whole(f)
         PROVE  f = 1
    <2>1. 1 \in 1 .. n
      BY <1>8
    <2>2. rx_ring[0 + 1] = Data(f, 1) /\ rx_ring[0 + 1] = Data(1, 1)
      BY <1>9, <1>10, <2>1
    <2> QED
      BY <2>2 DEF Data
  <1>11. copied(a) = IF \E f \in DOMAIN arrived : arrived[f] = a /\ whole(f)
                     THEN CHOOSE f \in DOMAIN arrived : arrived[f] = a /\ whole(f) ELSE Lost
    BY <1>1 DEF copied, n
  <1> HIDE DEF whole
  <1>12. arrived[1] = a
    BY DEF a
  <1>13. copied(a) = 1
    BY <1>4, <1>9, <1>10, <1>11, <1>12
  <1> QED
    BY <1>7, <1>12, <1>13

\* The driver reads, a frame or what it takes for one.
LEMMA DriverReceives ==
    ASSUME RxInv, NEW max_length \in MaxLength, rtl8139_recv_packet(max_length)
    PROVE  RxInv'
  <1>1. PICK h \in headers :
          LET length == (h.length + Width16 - 4) % Width16
              next == Up4(rx_offset + length + 4)
          IN  /\ IF ~h.ready \/ too_long(length, max_length)
                 THEN rx_offset' = 0 /\ UNCHANGED <<rx, delivered>>
                 ELSE /\ rx' = [frame |-> copied(length), length |-> length, max_length |-> max_length]
                      /\ rx_offset' = IF next >= RTL_RX_BUFFER_SIZE THEN 0 ELSE next
                      /\ delivered' = Min({delivered + 1, MaxFrames})
              /\ rx_read' = IF h.ready THEN rx_offset' ELSE rx_read
              /\ UNCHANGED <<rx_ring, rx_write, arrived, txVars>>
    BY DEF rtl8139_recv_packet
  <1> DEFINE length == (h.length + Width16 - 4) % Width16
             next == Up4(rx_offset + length + 4)
  <1>2. rx_offset \in Nat /\ rx_offset < Size /\ delivered \in Nat /\ Size \in Nat \ {0}
    BY RingIs DEF RxInv
  <1>3. length \in Nat
    <2>1. h.length \in Nat
      <3> DEFINE cell == rx_ring[rx_offset \div 4]
      <3>1. cell \in Written
        BY <1>2, OffsetIsCell DEF RxInv
      <3>2. \A m \in 0 .. LengthField - 1 : m \in Nat
        BY RingIs
      <3>3. \/ h = [ready |-> FALSE, length |-> 0]
            \/ h = [ready |-> TRUE, length |-> cell.n]
            \/ h \in [ready: BOOLEAN, length: 0 .. LengthField - 1]
        BY DEF headers
      <3> HIDE DEF cell
      <3> QED
        BY <3>1, <3>2, <3>3 DEF Written
    <2>2. Width16 \in Nat \ {0} /\ h.length + Width16 - 4 \in Nat
      BY <2>1, RingIs
    <2> QED
      BY <2>2, ModRange
  <1>4. /\ \/ /\ ~h.ready \/ too_long(length, max_length)
              /\ rx_offset' = 0 /\ UNCHANGED <<rx, delivered>>
           \/ /\ h.ready /\ ~too_long(length, max_length)
              /\ rx' = [frame |-> copied(length), length |-> length, max_length |-> max_length]
              /\ rx_offset' = IF next >= Size THEN 0 ELSE next
              /\ delivered' = Min({delivered + 1, MaxFrames})
        /\ rx_read' = IF h.ready THEN rx_offset' ELSE rx_read
        /\ UNCHANGED <<rx_ring, rx_write, arrived>>
    BY <1>1 DEF Size
  <1> HIDE DEF length, next
  <1>5. next \in Nat /\ next % 4 = 0
    <2>1. rx_offset + length + 4 \in Nat
      BY <1>2, <1>3
    <2> QED
      BY <2>1, Up4Is DEF next
  <1>6. rx_offset' \in 0 .. Size - 1 /\ rx_offset' % 4 = 0
    BY <1>2, <1>4, <1>5
  <1>7. max_length \in Nat
    BY RtlAssumption
  <1>8. rx'.length <= rx'.max_length
    BY <1>3, <1>4, <1>7 DEF RxInv, too_long
  <1>9. CASE UNCHANGED <<rx, delivered>> /\ rx_offset' = 0
    BY <1>4, <1>6, <1>8, <1>9 DEF RxInv, FirstIsThere
  <1>10. CASE /\ h.ready
              /\ rx' = [frame |-> copied(length), length |-> length, max_length |-> max_length]
              /\ delivered' = Min({delivered + 1, MaxFrames})
    <2>1. delivered' = IF delivered + 1 <= MaxFrames THEN delivered + 1 ELSE MaxFrames
      BY <1>2, <1>10, MinIs, RtlAssumption
    <2>2. delivered' \in Nat /\ delivered' > 0 /\ (delivered' = 1 => delivered = 0)
      BY <1>2, <2>1, RtlAssumption
    <2>3. delivered' = 1 => rx'.frame = 1
      <3> SUFFICES ASSUME delivered' = 1
                   PROVE  rx'.frame = 1
        OBVIOUS
      <3>1. FirstIsThere
        BY <2>2 DEF RxInv
      <3>2. length = arrived[1] /\ copied(arrived[1]) = 1
        BY <1>10, <3>1, FirstCopied DEF length
      <3> QED
        BY <1>10, <3>2
    <2>4. delivered' # 0 /\ delivered' \in Nat
      BY <2>2
    <2>5. rx_ring' = rx_ring /\ rx_write' = rx_write /\ arrived' = arrived
      BY <1>4
    <2>6. /\ rx_ring \in [Cells -> Written] /\ arrived \in Seq(FrameLen)
          /\ rx_write \in 0 .. Size - 1
      BY DEF RxInv
    <2> QED
      BY <1>6, <1>8, <2>3, <2>4, <2>5, <2>6, Zenon DEF RxInv
  <1> QED
    BY <1>4, <1>9, <1>10

(***************************************************************************)
(* Sending.  What waits in the descriptors are the frames behind the last  *)
(* that was sent, in turn from the card's next descriptor to the driver's; *)
(* and a frame that is alone is the one in the buffer.                     *)
(***************************************************************************)
Turn(k) == (tx_next + k) % Descriptors

InTurn ==
    LET n == Cardinality(pending)
    IN  /\ pending = {Turn(k) : k \in 0 .. n - 1}
        /\ tx_buffer_index = Turn(n)
        /\ wire.given = given - n
        /\ \A k \in 0 .. n - 1 : tx_status[Turn(k)].frame = wire.given + 1 + k

TxInv ==
    /\ tx_buffer_index \in Desc /\ tx_next \in Desc /\ given \in Nat /\ wire.given \in Nat
    /\ tx_status \in [Desc -> [frame: Nat, alone: BOOLEAN]]
    /\ \A d \in pending : /\ tx_status[d].frame # Lost
                          /\ tx_status[d].alone => tx_status[d].frame = tx_ring
    /\ wire.alone => wire.frame = wire.given
    /\ ~overrun => InTurn

LEMMA DescriptorsAre == Descriptors \in Nat \ {0} /\ Desc = 0 .. Descriptors - 1
  BY RtlAssumption DEF Desc

LEMMA PendingIs ==
    ASSUME NEW P, P \subseteq Desc
    PROVE  IsFiniteSet(P) /\ Cardinality(P) \in 0 .. Descriptors
  <1>1. IsFiniteSet(Desc) /\ Cardinality(Desc) = Descriptors
    <2>1. 0 \in Int /\ Descriptors - 1 \in Int /\ ~(0 > Descriptors - 1)
      BY DescriptorsAre
    <2>2. IsFiniteSet(0 .. Descriptors - 1) /\ Cardinality(0 .. Descriptors - 1) =
            IF 0 > Descriptors - 1 THEN 0 ELSE (Descriptors - 1) - 0 + 1
      BY <2>1, FS_Interval
    <2> QED
      BY <2>1, <2>2, DescriptorsAre
  <1>2. IsFiniteSet(P) /\ Cardinality(P) <= Cardinality(Desc)
    BY <1>1, FS_Subset
  <1>3. Cardinality(P) \in Nat
    BY <1>2, FS_CardinalityType
  <1> QED
    BY <1>1, <1>2, <1>3, DescriptorsAre

LEMMA TurnIs ==
    ASSUME tx_next \in Desc, NEW k \in 0 .. Descriptors
    PROVE  /\ Turn(k) = IF tx_next + k < Descriptors THEN tx_next + k ELSE tx_next + k - Descriptors
           /\ Turn(k) \in Desc
  <1> DEFINE x == tx_next + k
  <1>1. x \in Nat /\ x < 2 * Descriptors /\ Descriptors \in Nat \ {0}
    BY DescriptorsAre
  <1> HIDE DEF x
  <1>2. x % Descriptors = IF x < Descriptors THEN x ELSE x - Descriptors
    BY <1>1, ModIs
  <1> QED
    BY <1>1, <1>2, DescriptorsAre DEF x, Turn

LEMMA NicStartsTx == NicInit => TxInv
  <1> SUFFICES ASSUME NicInit
               PROVE  TxInv
    OBVIOUS
  <1>1. 0 \in Desc
    BY DescriptorsAre
  <1>2. pending = {} /\ Cardinality(pending) = 0
    BY FS_EmptySet DEF NicInit, pending, Free
  <1>3. /\ tx_buffer_index = 0 /\ tx_next = 0 /\ given = 0 /\ wire.given = 0 /\ ~wire.alone
        /\ tx_status = [d \in Desc |-> Free]
    BY DEF NicInit, Lost
  <1>4. tx_status \in [Desc -> [frame: Nat, alone: BOOLEAN]]
    BY <1>3 DEF Free, Lost
  <1>5. InTurn
    <2>1. Turn(0) = 0
      BY <1>1, <1>3, TurnIs, DescriptorsAre
    <2> QED
      BY <1>2, <1>3, <2>1 DEF InTurn
  <1> QED
    BY <1>1, <1>2, <1>3, <1>4, <1>5 DEF TxInv

\* The driver gives the card a frame.
LEMMA DriverSends ==
    ASSUME RTL_MAX_PACKETS = Descriptors, TxInv, rtl8139_send_packet
    PROVE  TxInv'
  <1> DEFINE f == given + 1
             x == tx_buffer_index
             n == Cardinality(pending)
  <1>1. /\ tx_ring' = f /\ given' = f
        /\ tx_status' = [d \in Desc |->
               IF d = x THEN [frame |-> f, alone |-> pending = {}]
               ELSE IF d \in pending THEN [tx_status[d] EXCEPT !.alone = FALSE] ELSE Free]
        /\ overrun' = (overrun \/ x \in pending)
        /\ tx_buffer_index' = (x + 1) % Descriptors
        /\ UNCHANGED <<tx_next, wire>>
    BY DEF rtl8139_send_packet, tx_advance
  <1>2. /\ x \in Desc /\ tx_next \in Desc /\ given \in Nat /\ f \in Nat /\ f # 0 /\ wire.given \in Nat
        /\ tx_status \in [Desc -> [frame: Nat, alone: BOOLEAN]]
    BY DEF TxInv
  <1> DEFINE S == tx_status
  <1>3. ASSUME NEW d \in Desc
        PROVE  /\ d = x => tx_status'[d] = [frame |-> f, alone |-> pending = {}]
               /\ d # x /\ d \in pending => tx_status'[d] = [S[d] EXCEPT !.alone = FALSE]
               /\ d # x /\ d \notin pending => tx_status'[d] = Free
    BY <1>1
  <1>4. ASSUME NEW d \in Desc
        PROVE  /\ tx_status'[d] \in [frame: Nat, alone: BOOLEAN]
               /\ d = x => tx_status'[d].frame = f
               /\ d # x /\ d \in pending =>
                    tx_status'[d].frame = S[d].frame /\ tx_status'[d].alone = FALSE
    <2>1. S[d] \in [frame: Nat, alone: BOOLEAN]
      BY <1>2
    <2>2. [frame |-> f, alone |-> pending = {}] \in [frame: Nat, alone: BOOLEAN]
      BY <1>2
    <2>3. Free \in [frame: Nat, alone: BOOLEAN]
      BY DEF Free, Lost
    <2>4. CASE d = x
      <3> DEFINE r == [frame |-> f, alone |-> pending = {}]
      <3>1. r \in [frame: Nat, alone: BOOLEAN] /\ r.frame = f /\ tx_status'[d] = r
        BY <1>3, <2>2, <2>4
      <3> QED
        BY <2>4, <3>1
    <2>5. CASE d # x /\ d \in pending
      <3> DEFINE r == [S[d] EXCEPT !.alone = FALSE]
      <3>1. r \in [frame: Nat, alone: BOOLEAN] /\ r.frame = S[d].frame /\ r.alone = FALSE
        BY <2>1
      <3>2. tx_status'[d] = r
        BY <1>3, <2>5
      <3> HIDE DEF r
      <3> QED
        BY <2>5, <3>1, <3>2
    <2>6. CASE d # x /\ d \notin pending
      BY <1>3, <2>3, <2>6
    <2> QED
      BY <2>4, <2>5, <2>6
  <1>5. tx_status' \in [Desc -> [frame: Nat, alone: BOOLEAN]]
    BY <1>1, <1>4
  <1>6. pending' = pending \cup {x}
    <2>1. ASSUME NEW d \in Desc
          PROVE  tx_status'[d] # Free <=> (d = x \/ d \in pending)
      <3> DEFINE v == tx_status'[d]
      <3>0. Free.frame = 0
        BY DEF Free, Lost
      <3>1. CASE d = x
        <4>1. v.frame # 0
          BY <1>2, <1>4, <3>1
        <4> HIDE DEF v
        <4>2. v # Free
          BY <3>0, <4>1
        <4> QED
          BY <3>1, <4>2 DEF v
      <3>2. CASE d # x /\ d \in pending
        <4>1. S[d].frame # 0
          BY <3>2 DEF TxInv, Lost
        <4>2. v.frame # 0
          BY <1>4, <3>2, <4>1
        <4> HIDE DEF v
        <4>3. v # Free
          BY <3>0, <4>2
        <4> QED
          BY <3>2, <4>3 DEF v
      <3>3. CASE d # x /\ d \notin pending
        BY <1>3, <3>3
      <3> QED
        BY <3>1, <3>2, <3>3
    <2> QED
      BY <1>2, <2>1 DEF pending
  <1>7. ASSUME NEW d \in pending'
        PROVE  /\ tx_status'[d].frame # Lost
               /\ tx_status'[d].alone => tx_status'[d].frame = tx_ring'
    <2>1. d \in Desc /\ (d = x \/ d \in pending)
      BY <1>6, <1>2 DEF pending
    <2>2. CASE d = x
      BY <1>1, <1>2, <1>4, <2>1, <2>2 DEF Lost
    <2>3. CASE d # x /\ d \in pending
      BY <1>4, <2>1, <2>3 DEF TxInv, Lost
    <2> QED
      BY <2>1, <2>2, <2>3
  <1>8. ASSUME ~overrun'
        PROVE  InTurn'
    <2>1. ~overrun /\ x \notin pending
      BY <1>1, <1>8
    <2>2. InTurn
      BY <2>1 DEF TxInv
    <2>3. Cardinality(pending') = n + 1
      <3>1. pending \subseteq Desc
        BY DEF pending
      <3>2. IsFiniteSet(pending)
        BY <3>1, PendingIs
      <3> QED
        BY <1>6, <2>1, <3>2, FS_AddElement
    <2>4. n \in Nat /\ n + 1 <= Descriptors /\ Descriptors \in Nat \ {0}
      <3>1. pending \subseteq Desc /\ pending' \subseteq Desc
        BY DEF pending
      <3>2. n \in 0 .. Descriptors /\ Cardinality(pending') \in 0 .. Descriptors
        BY <3>1, PendingIs
      <3> HIDE DEF n
      <3> QED
        BY <2>3, <3>2, DescriptorsAre
    <2> HIDE DEF n
    <2>5. /\ pending = {Turn(k) : k \in 0 .. n - 1} /\ x = Turn(n) /\ wire.given = given - n
          /\ \A k \in 0 .. n - 1 : S[Turn(k)].frame = wire.given + 1 + k
      BY <2>2 DEF InTurn, n
    <2>6. \A k : Turn(k)' = Turn(k)
      BY <1>1 DEF Turn
    <2>7. pending' = {Turn(k) : k \in 0 .. n}
      BY <1>6, <2>4, <2>5
    <2>8. tx_buffer_index' = Turn(n + 1)
      <3>1. n \in 0 .. Descriptors /\ n + 1 \in 0 .. Descriptors
        BY <2>4
      <3>2. /\ Turn(n) = IF tx_next + n < Descriptors THEN tx_next + n ELSE tx_next + n - Descriptors
            /\ Turn(n + 1) = IF tx_next + (n + 1) < Descriptors THEN tx_next + (n + 1)
                             ELSE tx_next + (n + 1) - Descriptors
        BY <1>2, <3>1, TurnIs
      <3> DEFINE y == x + 1
      <3>3. y \in Nat /\ y < 2 * Descriptors /\ tx_buffer_index' = y % Descriptors /\ y = Turn(n) + 1
        BY <1>1, <1>2, <2>5, DescriptorsAre
      <3> HIDE DEF y
      <3>4. y % Descriptors = IF y < Descriptors THEN y ELSE y - Descriptors
        BY <2>4, <3>3, ModIs
      <3>5. tx_next \in 0 .. Descriptors - 1
        BY <1>2, DescriptorsAre
      <3> HIDE DEF x
      <3> QED
        BY <2>4, <3>2, <3>3, <3>4, <3>5
    <2>9. wire'.given = given' - (n + 1)
      BY <1>1, <1>2, <2>4, <2>5
    <2>10. ASSUME NEW k \in 0 .. n
           PROVE  tx_status'[Turn(k)].frame = wire'.given + 1 + k
      <3>1. Turn(k) \in Desc
        BY <1>2, <2>4, TurnIs
      <3>2. CASE k = n
        BY <1>1, <1>2, <1>4, <2>4, <2>5, <3>1, <3>2
      <3>3. CASE k \in 0 .. n - 1
        <4>1. Turn(k) \in pending /\ Turn(k) # x
          BY <2>1, <2>5, <3>3
        <4> QED
          BY <1>1, <1>4, <2>5, <3>1, <3>3, <4>1
      <3> QED
        BY <2>4, <3>2, <3>3
    <2>11. (n + 1) - 1 = n
      BY <2>4
    <2> QED
      BY <2>3, <2>6, <2>7, <2>8, <2>9, <2>10, <2>11 DEF InTurn
  <1>9. tx_buffer_index' \in Desc
    BY <1>1, <1>2, DescriptorsAre, ModRange
  <1> QED
    BY <1>1, <1>2, <1>5, <1>7, <1>8, <1>9 DEF TxInv

\* The card sends.
LEMMA CardSends ==
    ASSUME TxInv, card_send
    PROVE  TxInv'
  <1> DEFINE t == tx_next
             S == tx_status
             n == Cardinality(pending)
             Then(k) == (tx_next' + k) % Descriptors
  <1>1. /\ t \in pending
        /\ wire' = [frame |-> tx_ring, given |-> S[t].frame, alone |-> S[t].alone]
        /\ tx_status' = [S EXCEPT ![t] = Free]
        /\ tx_next' = (t + 1) % Descriptors
        /\ UNCHANGED <<tx_ring, tx_buffer_index, given, overrun>>
    BY DEF card_send
  <1>2. /\ tx_buffer_index \in Desc /\ t \in Desc /\ given \in Nat /\ wire.given \in Nat
        /\ S \in [Desc -> [frame: Nat, alone: BOOLEAN]]
    BY DEF TxInv
  <1>3. /\ wire'.frame = tx_ring /\ wire'.given = S[t].frame /\ wire'.alone = S[t].alone
        /\ S[t].frame \in Nat
    BY <1>1, <1>2
  <1>4. wire'.alone => wire'.frame = wire'.given
    BY <1>1, <1>3 DEF TxInv
  <1>5. /\ tx_status' \in [Desc -> [frame: Nat, alone: BOOLEAN]]
        /\ tx_status'[t] = Free /\ \A d \in Desc \ {t} : tx_status'[d] = S[d]
    <2>1. Free \in [frame: Nat, alone: BOOLEAN]
      BY DEF Free, Lost
    <2> QED
      BY <1>1, <1>2, <2>1
  <1>6. pending' = pending \ {t}
    BY <1>2, <1>5 DEF pending
  <1>7. ASSUME NEW d \in pending'
        PROVE  /\ tx_status'[d].frame # Lost
               /\ tx_status'[d].alone => tx_status'[d].frame = tx_ring'
    <2>1. d \in pending /\ d # t /\ tx_status'[d] = S[d]
      BY <1>5, <1>6 DEF pending
    <2> QED
      BY <1>1, <2>1 DEF TxInv
  <1>8. tx_next' \in Desc
    BY <1>1, <1>2, DescriptorsAre, ModRange
  <1>9. ASSUME ~overrun'
        PROVE  InTurn'
    <2>1. InTurn
      BY <1>1, <1>9 DEF TxInv
    <2>2. n \in 0 .. Descriptors /\ Cardinality(pending') = n - 1 /\ n # 0
      <3>1. pending \subseteq Desc
        BY DEF pending
      <3>2. IsFiniteSet(pending) /\ n \in 0 .. Descriptors
        BY <3>1, PendingIs
      <3>3. Cardinality(pending') = n - 1
        BY <1>1, <1>6, <3>2, FS_RemoveElement
      <3>4. n # 0
        BY <1>1, <3>2, FS_EmptySet
      <3> QED
        BY <3>2, <3>3, <3>4
    <2> HIDE DEF n
    <2>3. /\ pending = {Turn(k) : k \in 0 .. n - 1} /\ tx_buffer_index = Turn(n)
          /\ wire.given = given - n
          /\ \A k \in 0 .. n - 1 : S[Turn(k)].frame = wire.given + 1 + k
      BY <2>1 DEF InTurn, n
    <2>4. n \in Nat /\ n >= 1 /\ n <= Descriptors /\ Descriptors \in Nat \ {0}
          /\ t \in 0 .. Descriptors - 1
      BY <1>2, <2>2, DescriptorsAre
    <2>5. ASSUME NEW k \in 0 .. Descriptors
          PROVE  Turn(k) = IF t + k < Descriptors THEN t + k ELSE t + k - Descriptors
      BY <1>2, TurnIs
    <2>6. tx_next' = Turn(1) /\ Turn(0) = t
      BY <1>1, <2>4, <2>5 DEF Turn
    <2>7. ASSUME NEW k \in 0 .. Descriptors - 1
          PROVE  Then(k) = Turn(k + 1)
      <3> DEFINE u == tx_next'
                 y == u + k
      <3>1. k + 1 \in 0 .. Descriptors /\ 1 \in 0 .. Descriptors
        BY <2>4
      <3>2. /\ Turn(k + 1) = IF t + (k + 1) < Descriptors THEN t + (k + 1)
                              ELSE t + (k + 1) - Descriptors
            /\ u = IF t + 1 < Descriptors THEN t + 1 ELSE t + 1 - Descriptors
        BY <2>5, <2>6, <3>1
      <3>3. y \in Nat /\ y < 2 * Descriptors /\ Then(k) = y % Descriptors
        <4>1. u \in 0 .. Descriptors - 1
          BY <1>8, DescriptorsAre
        <4>2. Then(k) = y % Descriptors
          OBVIOUS
        <4> HIDE DEF u, Then
        <4> QED
          BY <2>4, <4>1, <4>2
      <3> HIDE DEF y
      <3>4. y % Descriptors = IF y < Descriptors THEN y ELSE y - Descriptors
        BY <2>4, <3>3, ModIs
      <3> HIDE DEF u, t
      <3> QED
        BY <2>4, <3>2, <3>3, <3>4 DEF y
    <2>8. ASSUME NEW k \in 1 .. n - 1
          PROVE  Turn(k) # t
      BY <2>4, <2>5
    <2>9. pending' = {Then(k) : k \in 0 .. n - 2}
      <3>1. pending' = {Turn(k) : k \in 1 .. n - 1}
        <4>1. ASSUME NEW k \in 0 .. n - 1, Turn(k) # t
              PROVE  k \in 1 .. n - 1
          BY <2>4, <2>6, <4>1
        <4>2. \A k \in 1 .. n - 1 : k \in 0 .. n - 1
          BY <2>4
        <4> QED
          BY <1>6, <2>3, <2>8, <4>1, <4>2
      <3>2. ASSUME NEW k \in 0 .. n - 2
            PROVE  Then(k) = Turn(k + 1) /\ k + 1 \in 1 .. n - 1
        BY <2>4, <2>7
      <3>3. ASSUME NEW k \in 1 .. n - 1
            PROVE  k - 1 \in 0 .. n - 2 /\ Then(k - 1) = Turn(k)
        <4>1. k - 1 \in 0 .. n - 2 /\ k - 1 \in 0 .. Descriptors - 1 /\ (k - 1) + 1 = k
          BY <2>4
        <4>2. Then(k - 1) = Turn((k - 1) + 1)
          BY <2>7, <4>1
        <4> QED
          BY <4>1, <4>2
      <3> QED
        BY <3>1, <3>2, <3>3
    <2>10. tx_buffer_index' = Then(n - 1)
      <3>1. n - 1 \in 0 .. Descriptors - 1 /\ (n - 1) + 1 = n
        BY <2>4
      <3>2. Then(n - 1) = Turn((n - 1) + 1)
        BY <2>7, <3>1
      <3> QED
        BY <1>1, <2>3, <3>1, <3>2
    <2>11. wire'.given = wire.given + 1 /\ wire'.given = given' - (n - 1)
      <3>1. S[Turn(0)].frame = wire.given + 1 + 0
        BY <2>3, <2>4
      <3> QED
        BY <1>1, <1>2, <1>3, <2>3, <2>4, <2>6, <3>1
    <2>12. ASSUME NEW k \in 0 .. n - 2
           PROVE  tx_status'[Then(k)].frame = wire'.given + 1 + k
      <3>1. k + 1 \in 1 .. n - 1 /\ k + 1 \in 0 .. n - 1 /\ k + 1 \in 0 .. Descriptors
            /\ k \in 0 .. Descriptors - 1
        BY <2>4
      <3>2. Then(k) = Turn(k + 1) /\ Turn(k + 1) # t /\ Turn(k + 1) \in Desc
        BY <1>2, <2>7, <2>8, <3>1, TurnIs
      <3>3. tx_status'[Then(k)].frame = wire.given + 1 + (k + 1)
        BY <1>5, <2>3, <3>1, <3>2
      <3> QED
        BY <1>2, <2>4, <2>11, <3>3
    <2>13. (n - 1) - 1 = n - 2
      BY <2>4
    <2> HIDE DEF n
    <2>14. /\ pending' = {Then(k) : k \in 0 .. Cardinality(pending') - 1}
           /\ tx_buffer_index' = Then(Cardinality(pending'))
           /\ wire'.given = given' - Cardinality(pending')
           /\ \A k \in 0 .. Cardinality(pending') - 1 : tx_status'[Then(k)].frame = wire'.given + 1 + k
      <3> HIDE DEF Then
      <3> QED
        BY <2>2, <2>9, <2>10, <2>11, <2>12, <2>13
    <2> QED
      BY <2>14 DEF InTurn, Turn
  <1> QED
    BY <1>1, <1>2, <1>3, <1>4, <1>5, <1>7, <1>8, <1>9 DEF TxInv

\* Every step of the card and its driver.
LEMMA NicStep ==
    ASSUME RTL_MAX_PACKETS = Descriptors, RxInv, TxInv, [NicNext]_nicVars
    PROVE  RxInv' /\ TxInv'
  <1>1. ASSUME UNCHANGED txVars
        PROVE  TxInv'
    BY <1>1 DEF txVars, TxInv, InTurn, Turn, pending
  <1>2. ASSUME UNCHANGED rxVars
        PROVE  RxInv'
    BY <1>2 DEF rxVars, RxInv, FirstIsThere
  <1>3. CASE UNCHANGED nicVars
    BY <1>1, <1>2, <1>3 DEF nicVars
  <1>4. ASSUME NEW len \in FrameLen, card_receive(len)
        PROVE  RxInv' /\ TxInv'
    <2>1. UNCHANGED txVars
      BY <1>4 DEF card_receive
    <2> QED
      BY <1>1, <1>4, <2>1, CardReceives
  <1>5. ASSUME NEW max_length \in MaxLength, rtl8139_recv_packet(max_length)
        PROVE  RxInv' /\ TxInv'
    <2>1. UNCHANGED txVars
      BY <1>5 DEF rtl8139_recv_packet
    <2> QED
      BY <1>1, <1>5, <2>1, DriverReceives
  <1>6. CASE rtl8139_send_packet
    <2>1. UNCHANGED rxVars
      BY <1>6 DEF rtl8139_send_packet
    <2> QED
      BY <1>2, <1>6, <2>1, DriverSends
  <1>7. CASE card_send
    <2>1. UNCHANGED rxVars
      BY <1>7 DEF card_send
    <2> QED
      BY <1>2, <1>7, <2>1, CardSends
  <1> QED
    BY <1>3, <1>4, <1>5, <1>6, <1>7 DEF NicNext

\* The invariant of the card and its driver.
THEOREM NicInvariance ==
    ASSUME RTL_MAX_PACKETS = Descriptors
    PROVE  NicSpec => [](RxInv /\ TxInv)
  <1>1. NicInit => RxInv /\ TxInv
    BY NicStartsRx, NicStartsTx
  <1>2. RxInv /\ TxInv /\ [NicNext]_nicVars => (RxInv /\ TxInv)'
    BY NicStep
  <1> QED
    BY <1>1, <1>2, PTL DEF NicSpec

(***************************************************************************)
(* rtl8139.c: when the driver goes through as many descriptors as the card *)
(* has (RTL_MAX_PACKETS is 4, as on the RTL8139), then for any receive     *)
(* ring, any frames and any receivers' buffers the two stay in step.       *)
(***************************************************************************)
THEOREM CardStaysInStep ==
    ASSUME RTL_MAX_PACKETS = Descriptors
    PROVE  NicSpec => []CardInStep
  <1>1. RxInv /\ TxInv => CardInStep
    <2> SUFFICES ASSUME RxInv, TxInv
                 PROVE  CardInStep
      OBVIOUS
    <2>1. rx_offset \div 4 \in Cells /\ rx_offset % 4 = 0
      BY OffsetIsCell, RingIs DEF RxInv
    <2>2. ~overrun => /\ pending = {(tx_next + k) % Descriptors : k \in 0 .. Cardinality(pending) - 1}
                      /\ wire.given = given - Cardinality(pending)
      BY DEF TxInv, InTurn, Turn
    <2> QED
      BY <2>1, <2>2 DEF CardInStep, RxInv, TxInv
  <1> QED
    BY <1>1, NicInvariance, PTL

(***************************************************************************)
(* The composition that TLC checks: a behaviour of MCSpec is one of the    *)
(* services and one of the card.                                           *)
(***************************************************************************)
THEOREM ComposedNet == MCSpec => Spec /\ NicSpec
  <1>1. MCInit => Init /\ NicInit
    BY DEF MCInit
  <1>2. [MCNext]_<<vars, nicVars, used>> => [Next]_vars /\ [NicNext]_nicVars
    BY DEF MCNext
  <1> QED
    BY <1>1, <1>2, PTL DEF MCSpec, Spec, NicSpec
=============================================================================
