-------------------------- MODULE DiscoveryProofs ---------------------------
(***************************************************************************)
(* Proofs about finding devices and giving them ports, for every number of *)
(* devices and every size of the list and the map.                         *)
(***************************************************************************)
EXTENDS Discovery, FiniteSetTheorems, WellFoundedInduction, TLAPS

-----------------------------------------------------------------------------
(* The inductive invariant.                                                *)

\* The first n entries of list l are the devices that were heard, each once, in the
\* order of their first broadcasts, until the list is full.
Listed(l, n, heard) ==
    /\ \A i, j \in 1 .. n : l[i] = l[j] => i = j
    /\ n = MaxDevices \/ ToSet(heard) = {l[i] : i \in 1 .. n}
    /\ \A i \in 1 .. n : \E k \in DOMAIN heard :
           /\ heard[k] = l[i]
           /\ {heard[m] : m \in 1 .. k - 1} = {l[j] : j \in 1 .. i - 1}

ListInv ==
    /\ pc = "idle" => discovered = 0
    /\ pc # "idle" => Listed(list, discovered, drained)
    /\ pc = "idle" /\ result > 0 => Listed(list, result, drained)

\* The k-th address that got an entry of the map has the entry k - 1, counted modulo
\* its size, until another address gets that entry.
Current(k) == k \in DOMAIN assigned /\ k > Len(assigned) - MaxDevices
Index(k) == (k - 1) % MaxDevices

MapInv ==
    /\ assigned \in Seq(Addresses) /\ next = Len(assigned)
    /\ \A k \in DOMAIN assigned : Current(k) => map[Index(k)] = assigned[k]
    /\ \A i \in DOMAIN map : map[i] # NoAddress =>
           \E k \in DOMAIN assigned : Current(k) /\ Index(k) = i
    /\ \A j, k \in DOMAIN assigned : Current(j) /\ Current(k) /\ assigned[j] = assigned[k] => j = k

\* A device was told the port of an entry that it had; the one of its last entry, if
\* it is connected.
ToldInv ==
    /\ \A a \in Addresses : told[a] # 0 =>
           \E k \in DOMAIN assigned : assigned[k] = a /\ told[a] = FirstPort + Index(k)
    /\ \A a \in Addresses : socket[a] # 0 =>
           \E k \in DOMAIN assigned :
              /\ assigned[k] = a /\ told[a] = FirstPort + Index(k)
              /\ \A m \in DOMAIN assigned : assigned[m] = a => m <= k
    /\ platform = "windows" => \A a \in Addresses : socket[a] \in {0, told[a]}

PortsInv == MapInv /\ ToldInv

-----------------------------------------------------------------------------
(* Numbers.                                                                *)

\* What the proofs need of the constants.
LEMMA Sizes ==
    /\ MaxDevices \in Nat \ {0} /\ MaxBuffered \in Nat /\ FirstPort \in Nat \ {0}
    /\ NoAddress \notin Addresses
  BY DiscoveryAssumption DEF FirstPort

\* A set of numbers that is not empty has a least one.
LEMMA LeastExists ==
    ASSUME NEW S \in SUBSET Nat, S # {}
    PROVE  \E x \in S : \A y \in S : x <= y
<1>1. PICK x \in S : \A y \in S : <<y, x>> \notin OpToRel(<, Nat)
  BY NatLessThanWellFounded, WFMin
<1>2. \A y \in S : ~(y < x)
  BY <1>1 DEF OpToRel
<1>3. QED
  BY <1>2

\* What division computes.
LEMMA Division ==
    ASSUME NEW n \in Nat \ {0}, NEW i \in Nat
    PROVE  /\ i \div n \in Int /\ i % n \in 0 .. n - 1
           /\ i = n * (i \div n) + (i % n)
<1>1. i \div n \in Int
  OBVIOUS
<1>2. i % n \in 0 .. n - 1
  OBVIOUS
<1>3. i = n * (i \div n) + (i % n)
  OBVIOUS
<1>4. QED
  BY <1>1, <1>2, <1>3

\* A multiple of n between -n and n is 0.
LEMMA NoMultiple ==
    ASSUME NEW n \in Nat \ {0}, NEW d \in Int, n * d < n, 0 - n < n * d
    PROVE  d = 0
<1>1. ASSUME d >= 1 PROVE FALSE
  <2>1. PICK e \in Nat : d = e + 1
    BY <1>1
  <2>2. n * d = n * e + n /\ n * e >= 0
    BY <2>1
  <2>3. QED
    BY <2>1, <2>2
<1>2. ASSUME d <= -1 PROVE FALSE
  <2>1. PICK e \in Nat : d = (0 - e) - 1
    <3>1. -d - 1 \in Nat /\ d = (0 - (-d - 1)) - 1
      BY <1>2
    <3>2. QED
      BY <3>1
  <2>2. n * d = (0 - n * e) - n /\ n * e >= 0
    BY <2>1
  <2>3. n * e \in Int
    OBVIOUS
  <2>4. QED
    BY <2>1, <2>2, <2>3
<1>3. QED
  BY <1>1, <1>2

\* Numbers less than n apart have different remainders.
LEMMA RemaindersDiffer ==
    ASSUME NEW n \in Nat \ {0}, NEW i \in Nat, NEW j \in Nat, i < j, j < i + n
    PROVE  i % n # j % n
<1> DEFINE p == i \div n
           q == j \div n
<1>1. p \in Int /\ q \in Int /\ i % n \in Int /\ i = n * p + (i % n) /\ j = n * q + (j % n)
  BY Division
<1> HIDE DEF p, q
<1>2. ASSUME i % n = j % n PROVE FALSE
  <2>1. n * (q - p) = n * q - n * p
    BY <1>1
  <2>2. n * (q - p) = j - i
    BY <1>1, <1>2, <2>1
  <2>3. q - p = 0
    BY <1>1, <2>2, NoMultiple
  <2>4. n * (q - p) = 0
    BY <2>3
  <2>5. QED
    BY <2>2, <2>4
<1>3. QED
  BY <1>2

\* Numbers n apart have the same.
LEMMA RemainderOfLap ==
    ASSUME NEW n \in Nat \ {0}, NEW i \in Nat
    PROVE  (i + n) % n = i % n
<1> DEFINE p == i \div n
           q == (i + n) \div n
           r == i % n
           s == (i + n) % n
<1>1. /\ p \in Int /\ r \in 0 .. n - 1 /\ i = n * p + r
      /\ q \in Int /\ s \in 0 .. n - 1 /\ i + n = n * q + s
  <2>1. i + n \in Nat
    OBVIOUS
  <2>2. QED
    BY <2>1, Division
<1>2. SUFFICES r = s
  OBVIOUS
<1> HIDE DEF p, q, r, s
<1>3. n * ((p + 1) - q) = (n * p + n) - n * q
  BY <1>1
<1>4. n * ((p + 1) - q) = s - r
  BY <1>1, <1>3
<1>5. (p + 1) - q = 0
  BY <1>1, <1>4, NoMultiple
<1>6. n * ((p + 1) - q) = 0
  BY <1>5
<1>7. QED
  BY <1>1, <1>4, <1>6

-----------------------------------------------------------------------------
(* Types.                                                                  *)

\* The entry of an address is one of the map.
LEMMA EntryIs ==
    ASSUME DiscoveryTypeOK, NEW a \in Addresses
    PROVE  /\ Entry(a) \in 0 .. MaxDevices - 1 /\ DOMAIN map = 0 .. MaxDevices - 1
           /\ map[Entry(a)] # a => Entry(a) = next % MaxDevices /\ \A i \in DOMAIN map : map[i] # a
<1>1. DOMAIN map = 0 .. MaxDevices - 1 /\ next \in Nat
  BY DEF DiscoveryTypeOK
<1>2. CASE \E i \in DOMAIN map : map[i] = a
  <2> DEFINE S == {i \in DOMAIN map : map[i] = a}
  <2>1. \E i \in S : \A j \in S : i <= j
    <3>1. S \in SUBSET Nat /\ S # {}
      BY <1>1, <1>2, Sizes
    <3>2. QED
      BY <3>1, LeastExists
  <2>2. \E i \in DOMAIN map : map[i] = a /\ \A j \in DOMAIN map : map[j] = a => i <= j
    BY <2>1
  <2>3. Entry(a) \in DOMAIN map /\ map[Entry(a)] = a
    BY <1>2, <2>2 DEF Entry
  <2>4. QED
    BY <1>1, <2>3
<1>3. CASE ~\E i \in DOMAIN map : map[i] = a
  <2>1. Entry(a) = next % MaxDevices
    BY <1>3 DEF Entry
  <2>2. next % MaxDevices \in 0 .. MaxDevices - 1
    BY <1>1, Sizes
  <2>3. QED
    BY <1>1, <1>3, <2>1, <2>2
<1>4. QED
  BY <1>2, <1>3

\* The types hold at first.
LEMMA TypeInit == DiscoveryInit => DiscoveryTypeOK
  BY Sizes DEF DiscoveryInit, DiscoveryTypeOK, Ports

\* Every step keeps them.
LEMMA TypeStep == DiscoveryTypeOK /\ [DiscoveryNext]_discoveryVars => DiscoveryTypeOK'
<1> SUFFICES ASSUME DiscoveryTypeOK, [DiscoveryNext]_discoveryVars PROVE DiscoveryTypeOK'
  OBVIOUS
<1> USE Sizes DEF listening, network
<1>1. ASSUME NEW a \in Addresses, Broadcast(a) PROVE DiscoveryTypeOK'
  BY <1>1 DEF Broadcast, DiscoveryTypeOK
<1>2. CASE OpenSocket
  BY <1>2 DEF OpenSocket, BeginCall, DiscoveryTypeOK
<1>3. CASE OpenSocketFails
  BY <1>3 DEF OpenSocketFails, BeginCall, Return, OpenErrorsLinux, OpenErrorsWindows,
             DiscoveryTypeOK
<1>4. CASE PollEnds \/ ReceiveEnds \/ ReceiveFails
  BY <1>4, SMTT(30) DEF PollEnds, ReceiveEnds, ReceiveFails, Return, DiscoveryTypeOK
<1>5. CASE Receive
  <2>1. PICK new \in BOOLEAN : Drain(new) /\ (new => discovered < MaxDevices)
    BY <1>5 DEF Receive
  <2>2. Head(buffered) \in Addresses /\ Tail(buffered) \in Seq(Addresses)
        /\ Len(Tail(buffered)) <= MaxBuffered
    BY <2>1 DEF Drain, DiscoveryTypeOK
  <2>3. QED
    BY <2>1, <2>2 DEF Drain, AfterReceive, DiscoveryTypeOK
<1>6. ASSUME NEW a \in Addresses, Start(a) PROVE DiscoveryTypeOK'
  <2>1. Entry(a) \in 0 .. MaxDevices - 1
    BY EntryIs
  <2>2. FirstPort + Entry(a) \in Ports /\ FirstPort \in Ports
    BY <2>1 DEF Ports
  <2>3. /\ map' = [map EXCEPT ![Entry(a)] = a]
        /\ next' \in {next, next + 1}
        /\ told' \in {told, [told EXCEPT ![a] = FirstPort + Entry(a)]}
        /\ socket' \in {socket, [socket EXCEPT ![a] = FirstPort + Entry(a)],
                        [socket EXCEPT ![a] = FirstPort]}
    BY <1>6 DEF Start, Assign, BindLinux, BindWindows
  <2>4. /\ map' \in [0 .. MaxDevices - 1 -> Addresses \cup {NoAddress}] /\ next' \in Nat
        /\ told' \in [Addresses -> Ports \cup {0}] /\ socket' \in [Addresses -> Ports \cup {0}]
    <3>1. map' \in [0 .. MaxDevices - 1 -> Addresses \cup {NoAddress}]
      BY <2>3 DEF DiscoveryTypeOK
    <3>2. next' \in Nat
      BY <2>3 DEF DiscoveryTypeOK
    <3>3. told \in [Addresses -> Ports \cup {0}] /\ socket \in [Addresses -> Ports \cup {0}]
      BY DEF DiscoveryTypeOK
    <3>4. \A p \in Ports, f \in [Addresses -> Ports \cup {0}] :
              [f EXCEPT ![a] = p] \in [Addresses -> Ports \cup {0}]
      OBVIOUS
    <3>5. QED
      BY <2>2, <2>3, <3>1, <3>2, <3>3, <3>4
  <2>5. UNCHANGED <<platform, listening>>
    BY <1>6 DEF Start
  <2>6. QED
    BY <2>4, <2>5 DEF DiscoveryTypeOK
<1>7. ASSUME NEW a \in Addresses, Stop(a) PROVE DiscoveryTypeOK'
  BY <1>7 DEF Stop, DiscoveryTypeOK
<1>8. CASE UNCHANGED discoveryVars
  BY <1>8 DEF discoveryVars, DiscoveryTypeOK
<1>9. QED
  BY <1>1, <1>2, <1>3, <1>4, <1>5, <1>6, <1>7, <1>8 DEF DiscoveryNext

\* Every variable keeps its type: no device is listed beyond the list, and no port
\* is told that is not one of the map's.
THEOREM TypeCorrect == DiscoverySpec => []DiscoveryTypeOK
  BY TypeInit, TypeStep, PTL DEF DiscoverySpec

-----------------------------------------------------------------------------
(* The list.                                                               *)

\* The two ways to write the beginning of what was heard.
LEMMA PrefixIs ==
    ASSUME NEW S, NEW s \in Seq(S), NEW k \in DOMAIN s
    PROVE  ToSet(SubSeq(s, 1, k - 1)) = {s[m] : m \in 1 .. k - 1}
<1>1. k - 1 \in 0 .. Len(s)
  OBVIOUS
<1>2. /\ SubSeq(s, 1, k - 1) \in Seq(S) /\ Len(SubSeq(s, 1, k - 1)) = k - 1
      /\ \A m \in 1 .. k - 1 : SubSeq(s, 1, k - 1)[m] = s[m]
  BY <1>1
<1>3. DOMAIN SubSeq(s, 1, k - 1) = 1 .. k - 1
  BY <1>2
<1>4. QED
  BY <1>2, <1>3 DEF ToSet

\* Nothing is listed at first.
LEMMA ListInit == DiscoveryInit => ListInv
  BY DEF DiscoveryInit, ListInv

\* One more broadcast is heard; its sender is listed if it is new.
LEMMA ListReceive ==
    ASSUME DiscoveryTypeOK, ListInv, Receive
    PROVE  Listed(list', discovered', drained')
<1> USE Sizes
<1> DEFINE x == Head(buffered)
           n == discovered
           new == NotAmong(n) /\ n < MaxDevices
<1>1. /\ n \in 0 .. MaxDevices /\ pc = "drain" /\ Listed(list, n, drained)
      /\ x \in Addresses /\ drained \in Seq(Addresses) /\ drained' = Append(drained, x)
      /\ n' = IF new THEN n + 1 ELSE n
      /\ list' = IF new THEN [list EXCEPT ![n + 1] = x] ELSE list
  BY DEF Receive, Drain, DiscoveryTypeOK, ListInv
<1>2. /\ Len(drained) \in Nat /\ DOMAIN drained = 1 .. Len(drained)
      /\ DOMAIN drained' = 1 .. Len(drained) + 1
      /\ \A k \in 1 .. Len(drained) : drained'[k] = drained[k]
      /\ drained'[Len(drained) + 1] = x
  BY <1>1
<1>3. ToSet(drained') = ToSet(drained) \cup {x}
  <2>1. \A y : y \in ToSet(drained') <=> \E k \in 1 .. Len(drained) + 1 : y = drained'[k]
    BY <1>2 DEF ToSet
  <2>2. \A y : y \in ToSet(drained) <=> \E k \in 1 .. Len(drained) : y = drained[k]
    BY <1>2 DEF ToSet
  <2>3. \A k \in 1 .. Len(drained) + 1 : k \in 1 .. Len(drained) \/ k = Len(drained) + 1
    BY <1>2
  <2>4. Len(drained) + 1 \in 1 .. Len(drained) + 1 /\ 1 .. Len(drained) \subseteq 1 .. Len(drained) + 1
    BY <1>2
  <2>5. QED
    BY <1>2, <2>1, <2>2, <2>3, <2>4
<1>4. ASSUME NEW k \in DOMAIN drained
      PROVE  /\ k \in DOMAIN drained' /\ drained'[k] = drained[k]
             /\ {drained'[m] : m \in 1 .. k - 1} = {drained[m] : m \in 1 .. k - 1}
  <2>1. \A m \in 1 .. k - 1 : m \in 1 .. Len(drained)
    BY <1>2
  <2>2. QED
    BY <1>2, <2>1
<1>5. /\ \A i, j \in 1 .. n : list[i] = list[j] => i = j
      /\ n = MaxDevices \/ ToSet(drained) = {list[i] : i \in 1 .. n}
      /\ \A i \in 1 .. n : \E k \in DOMAIN drained :
             /\ drained[k] = list[i]
             /\ {drained[m] : m \in 1 .. k - 1} = {list[j] : j \in 1 .. i - 1}
  BY <1>1 DEF Listed
<1>6. DOMAIN list = 1 .. MaxDevices /\ \A i \in 1 .. n : i \in DOMAIN list
  BY <1>1 DEF DiscoveryTypeOK
<1>7. CASE ~new
  <2>1. n' = n /\ list' = list
    BY <1>1, <1>7
  <2>2. n # MaxDevices => x \in {list[i] : i \in 1 .. n}
    <3>1. ASSUME n # MaxDevices PROVE \E i \in 1 .. n : list[i] = x
      <4>1. n < MaxDevices
        BY <1>1, <3>1
      <4>2. ~NotAmong(n)
        BY <1>7, <4>1
      <4>3. QED
        BY <4>2 DEF NotAmong
    <3>2. QED
      BY <3>1
  <2>3. n = MaxDevices \/ ToSet(drained') = {list[i] : i \in 1 .. n}
    BY <1>3, <1>5, <2>2
  <2>4. \A i \in 1 .. n : \E k \in DOMAIN drained' :
             /\ drained'[k] = list[i]
             /\ {drained'[m] : m \in 1 .. k - 1} = {list[j] : j \in 1 .. i - 1}
    <3>1. ASSUME NEW i \in 1 .. n
          PROVE  \E k \in DOMAIN drained' :
                   /\ drained'[k] = list[i]
                   /\ {drained'[m] : m \in 1 .. k - 1} = {list[j] : j \in 1 .. i - 1}
      <4>1. PICK k \in DOMAIN drained :
              /\ drained[k] = list[i]
              /\ {drained[m] : m \in 1 .. k - 1} = {list[j] : j \in 1 .. i - 1}
        BY <1>5
      <4>2. /\ k \in DOMAIN drained' /\ drained'[k] = list[i]
            /\ {drained'[m] : m \in 1 .. k - 1} = {list[j] : j \in 1 .. i - 1}
        BY <1>4, <4>1, Zenon
      <4>3. QED
        BY <4>2, Zenon
    <3>2. QED
      BY <3>1, Zenon
  <2>5. n' = MaxDevices \/ ToSet(drained') = {list'[i] : i \in 1 .. n'}
    BY <2>1, <2>3
  <2>6. \A i, j \in 1 .. n' : list'[i] = list'[j] => i = j
    BY <1>5, <2>1
  <2>7. \A i \in 1 .. n' : \E k \in DOMAIN drained' :
             /\ drained'[k] = list'[i]
             /\ {drained'[m] : m \in 1 .. k - 1} = {list'[j] : j \in 1 .. i - 1}
    <3>1. \A i : {list'[j] : j \in 1 .. i - 1} = {list[j] : j \in 1 .. i - 1}
      BY <2>1
    <3>2. QED
      BY <2>1, <2>4, <3>1
  <2>8. QED
    BY <2>5, <2>6, <2>7 DEF Listed
<1>8. CASE new
  <2>1. /\ n' = n + 1 /\ n + 1 \in DOMAIN list /\ list'[n + 1] = x
        /\ \A i \in 1 .. n : list'[i] = list[i] /\ list[i] # x
    BY <1>1, <1>6, <1>8 DEF NotAmong, DiscoveryTypeOK
  <2>2. \A i \in 1 .. n' : i \in 1 .. n \/ i = n + 1
    BY <1>1, <2>1
  <2>3. \A i, j \in 1 .. n' : list'[i] = list'[j] => i = j
    BY <1>5, <2>1, <2>2
  <2>4. ToSet(drained) = {list[i] : i \in 1 .. n}
    BY <1>1, <1>5, <1>8
  <2>5. ToSet(drained') = {list'[i] : i \in 1 .. n'}
    <3>1. 1 .. n \subseteq 1 .. n' /\ n + 1 \in 1 .. n'
      BY <1>1, <2>1
    <3>2. QED
      BY <1>3, <2>1, <2>2, <2>4, <3>1
  <2>6. ASSUME NEW i \in 1 .. n, NEW k \in DOMAIN drained, drained[k] = list[i],
               {drained[m] : m \in 1 .. k - 1} = {list[j] : j \in 1 .. i - 1}
        PROVE  /\ drained'[k] = list'[i]
               /\ {drained'[m] : m \in 1 .. k - 1} = {list'[j] : j \in 1 .. i - 1}
    <3>1. \A j \in 1 .. i - 1 : j \in 1 .. n
      BY <1>1
    <3>2. {list'[j] : j \in 1 .. i - 1} = {list[j] : j \in 1 .. i - 1}
      BY <2>1, <3>1
    <3>3. QED
      BY <1>4, <2>1, <2>6, <3>2
  <2>7. {drained'[m] : m \in 1 .. (Len(drained) + 1) - 1} = {list'[j] : j \in 1 .. (n + 1) - 1}
    <3>1. (Len(drained) + 1) - 1 = Len(drained) /\ (n + 1) - 1 = n
      BY <1>1, <1>2
    <3>2. {drained'[m] : m \in 1 .. Len(drained)} = ToSet(drained)
      BY <1>2 DEF ToSet
    <3>3. {list'[j] : j \in 1 .. n} = {list[j] : j \in 1 .. n}
      BY <2>1
    <3>4. QED
      BY <2>4, <3>1, <3>2, <3>3
  <2>8. ASSUME NEW i \in 1 .. n'
        PROVE  \E k \in DOMAIN drained' :
                   /\ drained'[k] = list'[i]
                   /\ {drained'[m] : m \in 1 .. k - 1} = {list'[j] : j \in 1 .. i - 1}
    <3>1. CASE i \in 1 .. n
      BY <1>4, <1>5, <2>6, <3>1
    <3>2. CASE i = n + 1
      <4>1. Len(drained) + 1 \in DOMAIN drained'
        BY <1>2
      <4>2. QED
        BY <1>2, <2>1, <2>7, <3>2, <4>1
    <3>3. QED
      BY <2>2, <3>1, <3>2
  <2>9. QED
    BY <2>3, <2>5, <2>8 DEF Listed
<1>9. QED
  BY <1>7, <1>8

\* The other steps end a call, begin one, or leave the list.
LEMMA ListStep == DiscoveryTypeOK /\ ListInv /\ [DiscoveryNext]_discoveryVars => ListInv'
<1> SUFFICES ASSUME DiscoveryTypeOK, ListInv, [DiscoveryNext]_discoveryVars PROVE ListInv'
  OBVIOUS
<1> USE DEF listening, network
<1>s. -1 \in Int /\ 0 \in 0 .. MaxDevices
  BY Sizes
<1>1. ASSUME UNCHANGED <<pc, list, discovered, result, drained>> PROVE ListInv'
  BY <1>1 DEF ListInv
<1>2. ASSUME NEW a \in Addresses, Broadcast(a) \/ Start(a) \/ Stop(a) PROVE ListInv'
  BY <1>1, <1>2 DEF Broadcast, Start, Stop
<1>3. ASSUME BeginCall, discovered' = 0 PROVE Listed(list', discovered', drained')
  <2>1. drained' = <<>> /\ 1 .. discovered' = {}
    BY <1>3 DEF BeginCall
  <2>2. ToSet(drained') = {}
    BY <2>1 DEF ToSet
  <2>3. QED
    BY <2>1, <2>2 DEF Listed
<1>4. CASE OpenSocket
  <2>1. BeginCall /\ pc' = "poll" /\ discovered' = 0
    BY <1>4 DEF OpenSocket, BeginCall, ListInv
  <2>2. QED
    BY <1>3, <2>1 DEF ListInv
<1>5. CASE OpenSocketFails
  <2>1. PICK n \in {-1, -2, -3, -5} : Return(n)
    BY <1>5 DEF OpenSocketFails, OpenErrorsLinux, OpenErrorsWindows
  <2>2. result' = -1 /\ pc' = "idle" /\ discovered' = 0
    BY <2>1 DEF Return
  <2>3. QED
    BY <2>2 DEF ListInv
<1>6. ASSUME NEW n \in {-4, -21}, Return(n) PROVE ListInv'
  <2>1. result' = -1 /\ pc' = "idle" /\ discovered' = 0
    BY <1>6 DEF Return
  <2>2. QED
    BY <2>1 DEF ListInv
<1>7. ASSUME Return(discovered), pc # "idle", UNCHANGED <<list, drained>> PROVE ListInv'
  <2>1. /\ result' = discovered /\ pc' = "idle" /\ discovered' = 0
        /\ Listed(list, discovered, drained)
    BY <1>7 DEF Return, ListInv, DiscoveryTypeOK
  <2>2. Listed(list', result', drained')
    BY <1>7, <2>1
  <2>3. QED
    BY <2>1, <2>2 DEF ListInv
<1>8. ASSUME pc' # "idle", pc # "idle", UNCHANGED <<list, discovered, drained>> PROVE ListInv'
  BY <1>8 DEF ListInv
<1>9. CASE PollEnds
  BY <1>6, <1>7, <1>8, <1>9 DEF PollEnds
<1>10. CASE ReceiveEnds
  BY <1>7, <1>10 DEF ReceiveEnds
<1>11. CASE ReceiveFails
  BY <1>6, <1>8, <1>11 DEF ReceiveFails
<1>12. CASE Receive
  <2>1. pc' # "idle"
    BY <1>12 DEF Receive, Drain, AfterReceive
  <2>2. QED
    BY <1>12, <2>1, ListReceive DEF ListInv
<1>13. CASE UNCHANGED discoveryVars
  BY <1>1, <1>13 DEF discoveryVars
<1>14. QED
  BY <1>2, <1>4, <1>5, <1>9, <1>10, <1>11, <1>12, <1>13 DEF DiscoveryNext

\* A call that does not fail returns the devices it heard, each once and in the order
\* in which they were first heard, and all of them if the list has room.
THEOREM ListIsHeard == DiscoverySpec => []ListIsWhatWasHeard
<1>1. DiscoveryTypeOK /\ ListInv => ListIsWhatWasHeard
  <2> SUFFICES ASSUME DiscoveryTypeOK, ListInv, pc = "idle", result > 0
               PROVE  LET heard == [i \in 1 .. result |-> list[i]] IN
                      /\ IsInjective(heard)
                      /\ result = Cardinality(ToSet(drained)) \/ result = MaxDevices
                      /\ \A i \in 1 .. result : \E n \in DOMAIN drained :
                            /\ drained[n] = heard[i]
                            /\ ToSet(SubSeq(drained, 1, n - 1)) = {heard[j] : j \in 1 .. i - 1}
    BY DEF ListIsWhatWasHeard
  <2> DEFINE heard == [i \in 1 .. result |-> list[i]]
             T == {list[i] : i \in 1 .. result}
  <2>1. result \in 1 .. MaxDevices /\ drained \in Seq(Addresses) /\ Listed(list, result, drained)
    BY Sizes DEF DiscoveryTypeOK, ListInv
  <2>2. IsInjective(heard)
    BY <2>1 DEF Listed, IsInjective
  <2>3. result = Cardinality(T)
    <3>1. heard \in Surjection(1 .. result, T)
      BY DEF Surjection
    <3>2. heard \in Injection(1 .. result, T)
      BY <2>2 DEF Injection
    <3>3. IsFiniteSet(1 .. result) /\ Cardinality(1 .. result) = result
      BY <2>1, Sizes, FS_Interval
    <3>4. QED
      BY <3>1, <3>2, <3>3, FS_Surjection
  <2>4. result = Cardinality(ToSet(drained)) \/ result = MaxDevices
    BY <2>1, <2>3 DEF Listed
  <2>5. ASSUME NEW i \in 1 .. result
        PROVE  \E n \in DOMAIN drained :
                  /\ drained[n] = heard[i]
                  /\ ToSet(SubSeq(drained, 1, n - 1)) = {heard[j] : j \in 1 .. i - 1}
    <3>1. PICK n \in DOMAIN drained :
              /\ drained[n] = list[i]
              /\ {drained[m] : m \in 1 .. n - 1} = {list[j] : j \in 1 .. i - 1}
      BY <2>1 DEF Listed
    <3>2. {heard[j] : j \in 1 .. i - 1} = {list[j] : j \in 1 .. i - 1}
      <4>1. \A j \in 1 .. i - 1 : j \in 1 .. result
        BY <2>1
      <4>2. QED
        BY <4>1
    <3>3. QED
      BY <2>1, <3>1, <3>2, PrefixIs
  <2>6. QED
    BY <2>2, <2>4, <2>5
<1>2. QED
  BY <1>1, ListInit, ListStep, TypeCorrect, PTL DEF DiscoverySpec

-----------------------------------------------------------------------------
(* The map of the ports.                                                   *)

\* Nobody was told a port at first.
LEMMA PortsInit == DiscoveryInit => PortsInv
<1> SUFFICES ASSUME DiscoveryInit PROVE PortsInv
  OBVIOUS
<1>1. MapInv
  BY Sizes DEF DiscoveryInit, MapInv
<1>2. ToldInv
  BY DEF DiscoveryInit, ToldInv
<1>3. QED
  BY <1>1, <1>2 DEF PortsInv

\* An address has the entry it got last, until another one gets that entry.
LEMMA AssignKeeps ==
    ASSUME DiscoveryTypeOK, MapInv, NEW a \in Addresses, Assign(a)
    PROVE  /\ MapInv'
           /\ DOMAIN assigned \subseteq DOMAIN assigned'
           /\ \A k \in DOMAIN assigned : assigned'[k] = assigned[k]
           /\ \A k \in DOMAIN assigned' : k \in DOMAIN assigned \/ assigned'[k] = a
           /\ \E k \in DOMAIN assigned' :
                 /\ assigned'[k] = a /\ Index(k) = Entry(a)
                 /\ \A m \in DOMAIN assigned' : assigned'[m] = a => m <= k
<1> DEFINE e == Entry(a)
<1>n. PICK n \in Nat : n = Len(assigned)
  BY DEF MapInv
<1>1. /\ e \in DOMAIN map /\ DOMAIN map = 0 .. MaxDevices - 1
      /\ map[e] # a => e = n % MaxDevices /\ \A i \in DOMAIN map : map[i] # a
  BY <1>n, EntryIs DEF MapInv
<1>2. assigned \in Seq(Addresses) /\ n \in Nat /\ DOMAIN assigned = 1 .. n /\ next = n
  BY <1>n DEF MapInv
<1>3. /\ map' = [map EXCEPT ![e] = a]
      /\ map[e] = a => next' = next /\ assigned' = assigned
      /\ map[e] # a => next' = next + 1 /\ assigned' = Append(assigned, a)
  BY <1>n DEF Assign
<1>4. CASE map[e] = a
  <2>1. map' = map /\ UNCHANGED <<next, assigned>>
    BY <1>1, <1>3, <1>4 DEF DiscoveryTypeOK
  <2>2. MapInv'
    BY <2>1 DEF MapInv, Current
  <2>3. PICK k \in DOMAIN assigned : Current(k) /\ Index(k) = e
    BY <1>1, <1>4, Sizes DEF MapInv
  <2>4. assigned[k] = a
    BY <1>4, <2>3 DEF MapInv
  <2>5. ASSUME NEW m \in DOMAIN assigned, assigned[m] = a PROVE m <= k
    <3>1. CASE Current(m)
      BY <1>2, <2>3, <2>4, <2>5, <3>1 DEF MapInv
    <3>2. CASE ~Current(m)
      BY <1>2, <2>3, <3>2, Sizes DEF Current
    <3>3. QED
      BY <3>1, <3>2
  <2>6. QED
    BY <2>1, <2>2, <2>3, <2>4, <2>5
<1>5. CASE map[e] # a
  <2>1. /\ e = n % MaxDevices /\ \A i \in DOMAIN map : map[i] # a
        /\ next' = n + 1 /\ assigned' \in Seq(Addresses) /\ Len(assigned') = n + 1
        /\ DOMAIN assigned' = 1 .. n + 1
        /\ \A k \in 1 .. n : assigned'[k] = assigned[k]
        /\ assigned'[n + 1] = a /\ Index(n + 1) = e
    <3>1. (n + 1) - 1 = n
      BY <1>2
    <3>2. Index(n + 1) = n % MaxDevices
      BY <3>1 DEF Index
    <3>3. /\ Append(assigned, a) \in Seq(Addresses) /\ Len(Append(assigned, a)) = n + 1
          /\ \A k \in 1 .. n : Append(assigned, a)[k] = assigned[k]
          /\ Append(assigned, a)[n + 1] = a
      BY <1>n, <1>2
    <3>4. assigned' = Append(assigned, a) /\ next' = n + 1
      BY <1>2, <1>3, <1>5
    <3>5. DOMAIN assigned' = 1 .. n + 1
      BY <3>3, <3>4
    <3>6. QED
      BY <1>1, <1>5, <3>2, <3>3, <3>4, <3>5
  <2>2. \A k \in 1 .. n + 1 : k \in 1 .. n \/ k = n + 1
    BY <1>2
  <2>3. \A k \in 1 .. n : Index(k) \in DOMAIN map
    BY <1>1, <1>2, Sizes DEF Index
  <2>4. ASSUME NEW k \in 1 .. n, Current(k)' PROVE Current(k) /\ Index(k) # e
    <3>1. k > (n + 1) - MaxDevices
      BY <2>1, <2>4 DEF Current
    <3>2. k - 1 \in Nat /\ k - 1 < n /\ n < (k - 1) + MaxDevices
      BY <1>2, <3>1, Sizes
    <3>3. Index(k) # e
      BY <1>2, <2>1, <3>2, Sizes, RemaindersDiffer DEF Index
    <3>4. Current(k)
      BY <1>2, <3>1, Sizes DEF Current
    <3>5. QED
      BY <3>3, <3>4
  <2>5. \A k \in 1 .. n : Current(k) => assigned[k] # a
    BY <1>2, <2>1, <2>3 DEF MapInv
  <2>6. ASSUME NEW k \in 1 .. n, Current(k), Index(k) # e PROVE Current(k)'
    <3>1. k > n - MaxDevices
      BY <1>n, <2>6 DEF Current
    <3>2. k # (n - MaxDevices) + 1
      <4>1. ASSUME k = (n - MaxDevices) + 1 PROVE FALSE
        <5>1. k - 1 \in Nat /\ (k - 1) + MaxDevices = n
          BY <1>2, <4>1, Sizes
        <5>2. Index(k) = e
          BY <2>1, <5>1, Sizes, RemainderOfLap DEF Index
        <5>3. QED
          BY <2>6, <5>2
      <4>2. QED
        BY <4>1
    <3>3. k > (n + 1) - MaxDevices
      BY <1>2, <3>1, <3>2, Sizes
    <3>4. QED
      BY <1>2, <2>1, <3>3 DEF Current
  <2>7. Current(n + 1)'
    BY <1>2, <2>1, Sizes DEF Current
  <2>8. map'[e] = a /\ \A i \in DOMAIN map : i # e => map'[i] = map[i]
    BY <1>1, <1>3 DEF DiscoveryTypeOK
  <2>9. MapInv'
    <3>1. ASSUME NEW k \in DOMAIN assigned', Current(k)' PROVE map'[Index(k)] = assigned'[k]
      <4>1. CASE k = n + 1
        BY <2>1, <2>8, <4>1
      <4>2. CASE k \in 1 .. n
        BY <1>2, <2>1, <2>3, <2>4, <2>8, <3>1, <4>2 DEF MapInv
      <4>3. QED
        BY <2>1, <2>2, <4>1, <4>2
    <3>2. ASSUME NEW i \in DOMAIN map', map'[i] # NoAddress
          PROVE  \E k \in DOMAIN assigned' : Current(k)' /\ Index(k) = i
      <4>1. DOMAIN map' = DOMAIN map
        BY <1>3 DEF DiscoveryTypeOK
      <4>2. CASE i = e
        BY <1>2, <2>1, <2>7, <4>2
      <4>3. CASE i # e
        <5>1. PICK k \in 1 .. n : Current(k) /\ Index(k) = i
          BY <1>2, <2>8, <3>2, <4>1, <4>3 DEF MapInv
        <5>2. Current(k)' /\ k \in DOMAIN assigned'
          BY <1>2, <2>1, <2>6, <4>3, <5>1
        <5>3. QED
          BY <5>1, <5>2
      <4>4. QED
        BY <4>2, <4>3
    <3>3. ASSUME NEW j \in DOMAIN assigned', NEW k \in DOMAIN assigned',
                 Current(j)', Current(k)', assigned'[j] = assigned'[k]
          PROVE  j = k
      <4>1. CASE j \in 1 .. n /\ k \in 1 .. n
        BY <1>2, <2>1, <2>4, <3>3, <4>1 DEF MapInv
      <4>2. CASE j = n + 1 /\ k \in 1 .. n
        BY <2>1, <2>4, <2>5, <3>3, <4>2
      <4>3. CASE k = n + 1 /\ j \in 1 .. n
        BY <2>1, <2>4, <2>5, <3>3, <4>3
      <4>4. QED
        BY <2>1, <2>2, <4>1, <4>2, <4>3
    <3>4. QED
      BY <2>1, <3>1, <3>2, <3>3 DEF MapInv, Current, Index
  <2>10. \A m \in DOMAIN assigned' : m <= n + 1
    BY <1>2, <2>1
  <2>11. n + 1 \in DOMAIN assigned' /\ DOMAIN assigned \subseteq DOMAIN assigned'
    BY <1>2, <2>1
  <2>12. QED
    BY <1>2, <2>1, <2>2, <2>9, <2>10, <2>11
<1>6. QED
  BY <1>4, <1>5

\* A start tells its device the port of the entry it has now.
LEMMA PortsStart ==
    ASSUME DiscoveryTypeOK, PortsInv, NEW a \in Addresses, Start(a)
    PROVE  PortsInv'
<1> DEFINE port == FirstPort + Entry(a)
<1>1. /\ Assign(a) /\ socket[a] = 0 /\ platform' = platform
      /\ \/ told' = told /\ socket' = socket
         \/ /\ told' = [told EXCEPT ![a] = port]
            /\ \/ platform # "windows" /\ socket' = [socket EXCEPT ![a] = FirstPort]
               \/ socket' = [socket EXCEPT ![a] = port]
  BY DEF Start, BindLinux, BindWindows
<1>2. /\ MapInv' /\ DOMAIN assigned \subseteq DOMAIN assigned'
      /\ \A k \in DOMAIN assigned : assigned'[k] = assigned[k]
      /\ \A k \in DOMAIN assigned' : k \in DOMAIN assigned \/ assigned'[k] = a
  BY <1>1, AssignKeeps DEF PortsInv
<1>3. PICK k \in DOMAIN assigned' :
          /\ assigned'[k] = a /\ port = FirstPort + Index(k)
          /\ \A m \in DOMAIN assigned' : assigned'[m] = a => m <= k
  BY <1>1, AssignKeeps DEF PortsInv
<1>4. /\ \A b \in Addresses \ {a} : told'[b] = told[b] /\ socket'[b] = socket[b]
      /\ \/ socket'[a] = 0 /\ told'[a] = told[a]
         \/ told'[a] = port
  BY <1>1 DEF DiscoveryTypeOK
<1>5. ASSUME NEW b \in Addresses, told'[b] # 0
      PROVE  \E m \in DOMAIN assigned' : assigned'[m] = b /\ told'[b] = FirstPort + Index(m)
  <2>1. CASE told'[b] = told[b]
    BY <1>2, <1>5, <2>1 DEF PortsInv, ToldInv
  <2>2. CASE told'[b] # told[b]
    BY <1>3, <1>4, <2>2
  <2>3. QED
    BY <2>1, <2>2
<1>6. ASSUME NEW b \in Addresses, socket'[b] # 0
      PROVE  \E j \in DOMAIN assigned' :
                /\ assigned'[j] = b /\ told'[b] = FirstPort + Index(j)
                /\ \A m \in DOMAIN assigned' : assigned'[m] = b => m <= j
  <2>1. CASE b = a
    BY <1>3, <1>4, <1>6, <2>1
  <2>2. CASE b # a
    BY <1>2, <1>4, <1>6, <2>2 DEF PortsInv, ToldInv
  <2>3. QED
    BY <2>1, <2>2
<1>7. ASSUME platform' = "windows", NEW b \in Addresses PROVE socket'[b] \in {0, told'[b]}
  BY <1>1, <1>7 DEF PortsInv, ToldInv, DiscoveryTypeOK
<1>8. ToldInv'
  BY <1>5, <1>6, <1>7 DEF ToldInv, Index
<1>9. QED
  BY <1>2, <1>8 DEF PortsInv

\* The other steps leave the map, and what was told.
LEMMA PortsStep == DiscoveryTypeOK /\ PortsInv /\ [DiscoveryNext]_discoveryVars => PortsInv'
<1> SUFFICES ASSUME DiscoveryTypeOK, PortsInv, [DiscoveryNext]_discoveryVars PROVE PortsInv'
  OBVIOUS
<1> USE DEF listening, network
<1>1. ASSUME UNCHANGED <<platform, network>> PROVE PortsInv'
  BY <1>1 DEF PortsInv, MapInv, Current, ToldInv
<1>2. ASSUME NEW a \in Addresses, Stop(a) PROVE PortsInv'
  <2>1. /\ UNCHANGED <<platform, map, next, told, assigned>>
        /\ socket' = [socket EXCEPT ![a] = 0]
    BY <1>2 DEF Stop
  <2>2. \A b \in Addresses : socket'[b] = socket[b] \/ socket'[b] = 0
    BY <2>1 DEF DiscoveryTypeOK
  <2>3. MapInv'
    BY <2>1 DEF PortsInv, MapInv, Current
  <2>4. ToldInv'
    BY <2>1, <2>2 DEF PortsInv, ToldInv
  <2>5. QED
    BY <2>3, <2>4 DEF PortsInv
<1>3. ASSUME NEW a \in Addresses, Broadcast(a) PROVE PortsInv'
  BY <1>1, <1>3 DEF Broadcast
<1>4. CASE OpenSocket \/ OpenSocketFails
  BY <1>1, <1>4 DEF OpenSocket, OpenSocketFails, BeginCall
<1>5. CASE PollEnds \/ ReceiveEnds \/ ReceiveFails
  BY <1>1, <1>5 DEF PollEnds, ReceiveEnds, ReceiveFails
<1>6. CASE Receive
  BY <1>1, <1>6 DEF Receive, Drain
<1>7. CASE UNCHANGED discoveryVars
  BY <1>1, <1>7 DEF discoveryVars
<1>8. QED
  BY <1>2, <1>3, <1>4, <1>5, <1>6, <1>7, PortsStart DEF DiscoveryNext

\* The devices that got a port last, as many as there are ports, have different
\* ones, whichever starts fail and whoever leaves and comes again; a port is kept
\* for good while there is one for every device.
THEOREM PortsAreOwn == DiscoverySpec => []NewestHaveOwnPorts
<1>1. DiscoveryTypeOK /\ PortsInv => NewestHaveOwnPorts
  <2> SUFFICES ASSUME DiscoveryTypeOK, PortsInv PROVE NewestHaveOwnPorts
    OBVIOUS
  <2>1. /\ assigned \in Seq(Addresses) /\ Len(assigned) \in Nat
        /\ DOMAIN assigned = 1 .. Len(assigned)
    BY DEF PortsInv, MapInv
  <2>2. ASSUME NEW a \in Newest, socket[a] # 0
        PROVE  \E k \in DOMAIN assigned :
                  Current(k) /\ assigned[k] = a /\ told[a] = FirstPort + Index(k)
    <3>1. PICK i \in DOMAIN assigned : i > Len(assigned) - MaxDevices /\ assigned[i] = a
      BY DEF Newest
    <3>2. a \in Addresses
      BY <2>1, <3>1
    <3>3. PICK k \in DOMAIN assigned :
              /\ assigned[k] = a /\ told[a] = FirstPort + Index(k)
              /\ \A m \in DOMAIN assigned : assigned[m] = a => m <= k
      BY <2>2, <3>2 DEF PortsInv, ToldInv
    <3>4. i <= k
      BY <3>1, <3>3
    <3>5. k > Len(assigned) - MaxDevices
      BY <2>1, <3>1, <3>4, Sizes
    <3>6. QED
      BY <3>3, <3>5 DEF Current
  <2>3. ASSUME NEW j \in DOMAIN assigned, NEW k \in DOMAIN assigned, Current(j), Current(k), j < k
        PROVE  Index(j) # Index(k)
    <3>1. j - 1 \in Nat /\ k - 1 \in Nat /\ j - 1 < k - 1 /\ k - 1 < (j - 1) + MaxDevices
      BY <2>1, <2>3, Sizes DEF Current
    <3>2. QED
      BY <3>1, Sizes, RemaindersDiffer DEF Index
  <2>4. ASSUME NEW a \in Newest, NEW b \in Newest, socket[a] # 0, socket[b] # 0, a # b
        PROVE  told[a] # told[b]
    <3>1. PICK j \in DOMAIN assigned :
              Current(j) /\ assigned[j] = a /\ told[a] = FirstPort + Index(j)
      BY <2>2, <2>4
    <3>2. PICK k \in DOMAIN assigned :
              Current(k) /\ assigned[k] = b /\ told[b] = FirstPort + Index(k)
      BY <2>2, <2>4
    <3>3. j < k \/ k < j
      BY <2>1, <2>4, <3>1, <3>2
    <3>4. Index(j) # Index(k)
      BY <2>3, <3>1, <3>2, <3>3
    <3>5. Index(j) \in Nat /\ Index(k) \in Nat
      BY <2>1, Sizes DEF Index
    <3>6. QED
      BY <3>1, <3>2, <3>4, <3>5, Sizes
  <2>5. ASSUME Len(assigned) <= MaxDevices, NEW i \in DOMAIN assigned
        PROVE  told[assigned[i]] \in {0, FirstPort + i - 1}
    <3>1. ASSUME told[assigned[i]] # 0 PROVE told[assigned[i]] = FirstPort + i - 1
      <4>1. PICK k \in DOMAIN assigned :
                assigned[k] = assigned[i] /\ told[assigned[i]] = FirstPort + Index(k)
        BY <2>1, <3>1 DEF PortsInv, ToldInv
      <4>2. Current(i) /\ Current(k)
        BY <2>1, <2>5, Sizes DEF Current
      <4>3. k = i
        BY <4>1, <4>2 DEF PortsInv, MapInv
      <4>4. Index(i) = i - 1
        <5>1. i - 1 \in 0 .. MaxDevices - 1
          BY <2>1, <2>5, Sizes
        <5>2. QED
          BY <5>1, Sizes DEF Index
      <4>5. QED
        BY <2>1, <4>1, <4>3, <4>4, Sizes
    <3>2. QED
      BY <3>1
  <2>6. platform = "windows" => \A a \in Addresses : socket[a] \in {0, told[a]}
    BY DEF PortsInv, ToldInv
  <2>7. QED
    BY <2>4, <2>5, <2>6 DEF NewestHaveOwnPorts
<1>2. QED
  BY <1>1, PortsInit, PortsStep, TypeCorrect, PTL DEF DiscoverySpec
=============================================================================
