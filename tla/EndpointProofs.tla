-------------------------- MODULE EndpointProofs --------------------------
(***************************************************************************)
(* Proofs about EndpointResolution and SpecValidation, for services with   *)
(* any number of addresses, backends and ports, written in any tokens: the *)
(* inductive invariant of the three loops, and from it where a cluster     *)
(* points to; and that what validation admits is accepted.                 *)
(***************************************************************************)
EXTENDS EndpointProperties, FiniteSetTheorems, TLAPS

(***************************************************************************)
(* Counting                                                                *)
(***************************************************************************)
(* Of the n-th round's string the rank is one more than the strings used   *)
(* before; the ranks of the earlier ones are among those.                  *)
LEMMA RankOfNext ==
    ASSUME NEW S, IsFiniteSet(S), S \subseteq Nat, NEW n \in Nat
    PROVE  LET before == {k \in S : k < n} IN
           /\ IsFiniteSet(before) /\ Cardinality(before) \in Nat
           /\ n \in S => Rank(S, n) = Cardinality(before) + 1
           /\ \A k \in before : Rank(S, k) \in 1..Cardinality(before)
<1> DEFINE before == {k \in S : k < n}
<1>1. IsFiniteSet(before) /\ Cardinality(before) \in Nat
  BY FS_Subset, FS_CardinalityType
<1>2. ASSUME n \in S PROVE Rank(S, n) = Cardinality(before) + 1
  <2>1. n \notin before
    OBVIOUS
  <2>2. \A m : m \in {l \in S : l <= n} <=> m \in before \cup {n}
    <3>1. \A m \in S : m <= n <=> m < n \/ m = n
      OBVIOUS
    <3> QED BY <1>2, <3>1, Zenon
  <2>3. {m \in S : m <= n} = before \cup {n}
    BY <2>2
  <2> HIDE DEF before
  <2> QED BY <1>1, <2>1, <2>3, FS_AddElement DEF Rank
<1>3. ASSUME NEW k \in before PROVE Rank(S, k) \in 1..Cardinality(before)
  <2> DEFINE upTo == {m \in S : m <= k}
  <2>1. upTo \in SUBSET before /\ upTo # {}
    <3>1. k \in S /\ k \in Nat /\ k < n
      OBVIOUS
    <3>2. k <= k /\ \A m \in S : m <= k => m < n
      BY <3>1
    <3> QED BY <3>1, <3>2
  <2>2. IsFiniteSet(upTo) /\ Cardinality(upTo) <= Cardinality(before)
    <3> HIDE DEF upTo, before
    <3> QED BY <1>1, <2>1, FS_Subset
  <2>3. Cardinality(upTo) \in Nat /\ Cardinality(upTo) # 0
    <3> HIDE DEF upTo
    <3> QED BY <2>1, <2>2, FS_CardinalityType, FS_EmptySet
  <2> QED BY <1>1, <2>2, <2>3 DEF Rank
<1> QED BY <1>1, <1>2, <1>3

(* Every number up to the size of a set is the rank of a member.           *)
LEMMA RanksCover ==
    ASSUME NEW S, IsFiniteSet(S), S \subseteq Nat
    PROVE  /\ \A k \in S : Rank(S, k) \in 1..Cardinality(S)
           /\ \A j \in 1..Cardinality(S) : \E k \in S : Rank(S, k) = j
<1> DEFINE f == [k \in S |-> Rank(S, k)]
           N == 1..Cardinality(S)
<1>1. Cardinality(S) \in Nat
  BY FS_CardinalityType
<1>2. \A k \in S : IsFiniteSet({m \in S : m <= k}) /\ Rank(S, k) \in Nat
  BY FS_Subset, FS_CardinalityType DEF Rank
<1>3. ASSUME NEW k \in S PROVE Rank(S, k) \in N
  <2> DEFINE upTo == {m \in S : m <= k}
  <2>1. upTo \in SUBSET S /\ upTo # {}
    OBVIOUS
  <2>2. Cardinality(upTo) <= Cardinality(S) /\ Cardinality(upTo) # 0
    <3>1. IsFiniteSet(upTo)
      BY <1>2
    <3> HIDE DEF upTo
    <3> QED BY <2>1, <3>1, FS_Subset, FS_EmptySet
  <2> QED BY <1>1, <1>2, <2>2 DEF Rank
<1>4. ASSUME NEW k \in S, NEW l \in S, k < l PROVE Rank(S, k) < Rank(S, l)
  <2> DEFINE upTo == {m \in S : m <= k}
             more == {m \in S : m <= l}
  <2>1. upTo \cup {l} \in SUBSET more /\ l \notin upTo
    <3>1. \A m \in S : m <= k => m <= l
      BY <1>4
    <3>2. l <= l /\ ~(l <= k)
      BY <1>4
    <3> QED BY <3>1, <3>2
  <2>2. IsFiniteSet(upTo) /\ IsFiniteSet(more)
    BY <1>2
  <2>3. Cardinality(upTo \cup {l}) = Cardinality(upTo) + 1
    <3> HIDE DEF upTo, more
    <3> QED BY <2>1, <2>2, FS_AddElement
  <2>4. Cardinality(upTo \cup {l}) <= Cardinality(more)
    <3> HIDE DEF upTo, more
    <3> QED BY <2>1, <2>2, FS_Subset
  <2>5. Cardinality(upTo) \in Nat /\ Cardinality(more) \in Nat
    BY <2>2, FS_CardinalityType
  <2> QED BY <2>3, <2>4, <2>5 DEF Rank
<1>5. f \in Injection(S, N)
  <2>1. \A k, l \in S : Rank(S, k) = Rank(S, l) => k = l
    <3> SUFFICES ASSUME NEW k \in S, NEW l \in S, k # l PROVE Rank(S, k) # Rank(S, l)
      OBVIOUS
    <3>1. Rank(S, k) \in Nat /\ Rank(S, l) \in Nat
      BY <1>2
    <3>2. CASE k < l
      BY <1>4, <3>1, <3>2
    <3>3. CASE l < k
      BY <1>4, <3>1, <3>3
    <3> QED BY <3>2, <3>3
  <2> QED BY <1>3, <2>1 DEF Injection, IsInjective
<1>6. IsFiniteSet(N) /\ Cardinality(N) = Cardinality(S)
  <2>1. \A n \in Nat : IsFiniteSet(1..n) /\ Cardinality(1..n) = n
    <3> TAKE n \in Nat
    <3>1. Cardinality(1..n) = IF 1 > n THEN 0 ELSE n - 1 + 1
      BY FS_Interval
    <3> QED BY <3>1, FS_Interval
  <2> QED BY <1>1, <2>1
<1>7. f \in Surjection(S, N)
  <2> HIDE DEF f, N
  <2> QED BY <1>5, <1>6, FS_Injection
<1> QED BY <1>3, <1>7 DEF Surjection

(***************************************************************************)
(* Strings                                                                 *)
(***************************************************************************)
(* An address is read as a host and a port; it gives an endpoint when a    *)
(* reader sees a host in it, and without an IPv6 address it is that host   *)
(* and that port.                                                          *)
LEMMA AddressParsed ==
    ASSUME NEW s \in Strings
    PROVE  /\ ParseAddress(s) \in [host : Seq(Tokens), port : Nat]
           /\ NoHost(ParseAddress(s)) <=> ~Named(s)
           /\ Len(s) <= 2 => ParseAddress(s).host = HostOf(s)
           /\ Len(s) = 2 => /\ ParseAddress(s).host = <<s[1]>>
                            /\ ParseAddress(s).port = OrDefault(Scan[s[2]])
<1>1. s \in Seq(Tokens) /\ Len(s) \in Nat /\ Len(s) >= 1 /\ \A j \in 1..Len(s) : s[j] \in Tokens
  BY DEF Strings
<1>2. Last(s) \in Tokens /\ Last(s) = s[Len(s)]
  BY <1>1 DEF Last
<1>3. OrDefault(Scan[Last(s)]) \in Nat
  <2>1. Scan[Last(s)] \in Nat \cup {NaN}
    BY <1>2, NumbersAssumption
  <2> QED BY <2>1 DEF OrDefault
<1>4. CASE Len(s) = 1
  <2>1. ParseAddress(s) = [host |-> s, port |-> 80]
    BY <1>4 DEF ParseAddress
  <2> QED BY <1>1, <1>4, <2>1 DEF NoHost, Named, HostOf
<1>5. CASE Len(s) >= 2
  <2>1. ParseAddress(s) = [host |-> Front(s), port |-> OrDefault(Scan[Last(s)])]
    BY <1>1, <1>5 DEF ParseAddress
  <2>2. /\ Front(s) \in Seq(Tokens) /\ Len(Front(s)) = Len(s) - 1
        /\ \A j \in 1..(Len(s) - 1) : Front(s)[j] = s[j]
    <3>1. Front(s) = SubSeq(s, 1, Len(s) - 1)
      BY DEF Front
    <3>2. Len(s) - 1 \in 1..Len(s)
      BY <1>1, <1>5
    <3> QED BY <1>1, <3>1, <3>2
  <2>3. CASE Len(s) = 2
    <3>1. Front(s) = <<s[1]>>
      BY <2>2, <2>3
    <3> QED BY <1>2, <1>3, <2>1, <2>2, <2>3, <3>1 DEF NoHost, Named, HostOf
  <2>4. CASE Len(s) > 2
    <3>1. Front(s) # <<Empty>> /\ s # <<Empty>>
      BY <1>1, <2>2, <2>4
    <3> QED BY <1>3, <2>1, <2>2, <2>4, <3>1 DEF NoHost, Named, HostOf
  <2>5. Len(s) = 2 \/ Len(s) > 2
    <3>1. \A n \in Nat : n >= 2 => n = 2 \/ n > 2
      OBVIOUS
    <3> QED BY <1>1, <1>5, <3>1, Zenon
  <2> QED BY <2>3, <2>4, <2>5, Zenon
<1>6. Len(s) = 1 \/ Len(s) >= 2
  <2>1. \A n \in Nat : n >= 1 => n = 1 \/ n >= 2
    OBVIOUS
  <2> QED BY <1>1, <2>1, Zenon
<1> QED BY <1>4, <1>5, <1>6, Zenon

(* Some port is read in every port string.                                 *)
LEMMA PortParsed ==
    ASSUME NEW s \in Strings
    PROVE  ParsePort(s) \in Nat
<1>1. Len(s) \in Nat \ {0} /\ \A j \in 1..Len(s) : s[j] \in Tokens
  BY DEF Strings
<1>2. \A t \in Tokens : Scan[t] \in Nat \cup {NaN}
  BY NumbersAssumption
<1> QED BY <1>1, <1>2 DEF ParsePort, OrDefault

(***************************************************************************)
(* The inductive invariant                                                 *)
(***************************************************************************)
(* The lists of a service are lists of its strings.                        *)
LEMMA ServiceLists ==
    ASSUME svc \in Services
    PROVE  /\ svc.addresses \in Seq(Strings) /\ svc.backends \in Seq(Backends)
           /\ svc.ports \in Seq(Strings) /\ svc.ports # <<>>
           /\ \A k \in DOMAIN svc.backends : References[k] \in Strings
           /\ IsFiniteSet(NamedAddresses) /\ NamedAddresses \subseteq Nat
           /\ IsFiniteSet(NamedBackends) /\ NamedBackends \subseteq Nat
<1>1. ASSUME NEW S, NEW l \in Lists(S) PROVE l \in Seq(S)
  <2>1. PICK n \in 0..MaxLen : l \in [1..n -> S]
    BY <1>1 DEF Lists
  <2> QED BY <2>1, BoundAssumption
<1>2. /\ svc.addresses \in Lists(Addresses) /\ svc.backends \in Lists(Backends)
      /\ svc.ports \in Lists(PortSpecs) /\ svc.ports # <<>>
  BY DEF Services
<1>3. /\ svc.addresses \in Seq(Addresses) /\ svc.backends \in Seq(Backends)
      /\ svc.ports \in Seq(PortSpecs)
  BY <1>1, <1>2
<1>4. svc.addresses \in Seq(Strings) /\ svc.ports \in Seq(Strings)
  BY <1>3, StringsAssumption
<1>5. \A k \in DOMAIN svc.backends : References[k] \in Strings
  BY <1>3, StringsAssumption DEF References
<1>6. ASSUME NEW n \in Nat, NEW T \in SUBSET (1..n) PROVE IsFiniteSet(T) /\ T \subseteq Nat
  <2>1. IsFiniteSet(1..n)
    BY FS_Interval
  <2>2. \A m \in 1..n : m \in Nat
    OBVIOUS
  <2>3. IsFiniteSet(T)
    BY <2>1, FS_Subset
  <2> QED BY <2>2, <2>3
<1>7. /\ NamedAddresses \in SUBSET (1..Len(svc.addresses)) /\ Len(svc.addresses) \in Nat
      /\ NamedBackends \in SUBSET (1..Len(svc.backends)) /\ Len(svc.backends) \in Nat
  BY <1>3 DEF NamedAddresses, NamedBackends
<1> QED BY <1>2, <1>3, <1>4, <1>5, <1>6, <1>7

LEMMA InitInv == Init => IInv
<1> SUFFICES ASSUME Init PROVE IInv
  OBVIOUS
<1>1. TypeOK
  BY DEF Init, TypeOK
<1>2. svc.addresses \in Seq(Strings)
  BY ServiceLists DEF TypeOK, Init
<1>3. {k \in NamedAddresses : k < 1} = {}
  BY <1>2 DEF NamedAddresses
<1>4. Filled(endpoints, NamedAddresses, svc.addresses, 1)
  BY <1>3, FS_EmptySet DEF Filled, Init
<1> QED BY <1>1, <1>2, <1>4 DEF Init, IInv, LoopInv

(* The lists and what is usable in them depend on the service only, which  *)
(* no step changes.                                                        *)
LEMMA ServiceLeft ==
    ASSUME svc' = svc
    PROVE  /\ NamedAddresses' = NamedAddresses /\ NamedBackends' = NamedBackends
           /\ References' = References
BY DEF NamedAddresses, NamedBackends, References

Endpoints == [host : Seq(Tokens), port : Nat]

(* A round of the loop over addresses or backends: S are the rounds whose  *)
(* string is usable, and the endpoint it gives is the next one.            *)
LEMMA StringUsed ==
    ASSUME NEW S, IsFiniteSet(S), S \subseteq Nat, NEW n \in Nat, NEW strings,
           \A k \in S : strings[k] \in Strings,
           NEW old \in Seq(Endpoints), Filled(old, S, strings, n), NEW new,
           n \in S => new = Append(old, ParseAddress(strings[n])),
           n \notin S => new = old
    PROVE  new \in Seq(Endpoints) /\ Filled(new, S, strings, n + 1)
<1> DEFINE before == {k \in S : k < n}
           upTo   == {k \in S : k < n + 1}
<1>1. /\ IsFiniteSet(before) /\ Cardinality(before) \in Nat
      /\ n \in S => Rank(S, n) = Cardinality(before) + 1
      /\ \A k \in before : Rank(S, k) \in 1..Cardinality(before)
  BY RankOfNext
<1>2. /\ Len(old) = Cardinality(before)
      /\ \A k \in before : old[Rank(S, k)] = ParseAddress(strings[k])
  BY DEF Filled
<1>0. ~(n < n) /\ \A k \in S : k < n + 1 <=> k < n \/ k = n
  OBVIOUS
<1>3. CASE n \in S
  <2>1. upTo = before \cup {n} /\ n \notin before
    <3>1. n \notin before
      BY <1>0, Zenon
    <3>2. \A k : k \in upTo <=> k \in before \cup {n}
      BY <1>0, <1>3, Zenon
    <3> QED BY <3>1, <3>2, Zenon
  <2>2. Cardinality(upTo) = Cardinality(before) + 1
    <3> HIDE DEF upTo, before
    <3> QED BY <1>1, <2>1, FS_AddElement
  <2>3. /\ new \in Seq(Endpoints) /\ Len(new) = Cardinality(before) + 1
        /\ new[Cardinality(before) + 1] = ParseAddress(strings[n])
        /\ \A j \in 1..Cardinality(before) : new[j] = old[j]
    <3>1. PICK e \in Endpoints : e = ParseAddress(strings[n])
      BY <1>3, AddressParsed DEF Endpoints
    <3>2. new = Append(old, e)
      BY <1>3, <3>1
    <3> HIDE DEF before
    <3> QED BY <1>1, <1>2, <3>1, <3>2
  <2>4. ASSUME NEW k \in upTo PROVE new[Rank(S, k)] = ParseAddress(strings[k])
    <3>1. CASE k = n
      BY <1>1, <1>3, <2>3, <3>1
    <3>2. CASE k \in before
      BY <1>1, <1>2, <2>3, <3>2
    <3> QED BY <2>1, <3>1, <3>2
  <2> QED BY <2>2, <2>3, <2>4 DEF Filled
<1>4. CASE n \notin S
  <2>1. upTo = before
    <3>1. \A k : k \in upTo <=> k \in before
      BY <1>0, <1>4, Zenon
    <3> QED BY <3>1, Zenon
  <2> QED BY <1>2, <1>4, <2>1 DEF Filled
<1> QED BY <1>3, <1>4

LEMMA UseAddressInv ==
    ASSUME IInv, UseAddress
    PROVE  IInv'
<1>1. /\ svc \in Services /\ i \in Nat /\ i >= 1 /\ endpoints \in Seq(Endpoints)
      /\ stage = "addresses" /\ i <= Len(svc.addresses)
      /\ svc' = svc /\ stage' = stage /\ i' = i + 1
      /\ Filled(endpoints, NamedAddresses, svc.addresses, i)
  BY DEF IInv, LoopInv, TypeOK, UseAddress, Endpoints
<1>2. /\ svc.addresses \in Seq(Strings)
      /\ IsFiniteSet(NamedAddresses) /\ NamedAddresses \subseteq Nat
  BY <1>1, ServiceLists
<1>3. i \in DOMAIN svc.addresses /\ svc.addresses[i] \in Strings
  BY <1>1, <1>2
<1>4. endpoints' = IF i \in NamedAddresses
                   THEN Append(endpoints, ParseAddress(svc.addresses[i])) ELSE endpoints
  BY <1>3, AddressParsed DEF UseAddress, Add, NamedAddresses
<1>5. \A k \in NamedAddresses : svc.addresses[k] \in Strings
  BY <1>2 DEF NamedAddresses
<1>6. endpoints' \in Seq(Endpoints) /\ Filled(endpoints', NamedAddresses, svc.addresses, i + 1)
  <2>1. PICK strings : strings = svc.addresses
    OBVIOUS
  <2>2. /\ Filled(endpoints, NamedAddresses, strings, i)
        /\ \A k \in NamedAddresses : strings[k] \in Strings
        /\ i \in NamedAddresses => endpoints' = Append(endpoints, ParseAddress(strings[i]))
        /\ i \notin NamedAddresses => endpoints' = endpoints
    BY <1>1, <1>4, <1>5, <2>1
  <2>3. endpoints' \in Seq(Endpoints) /\ Filled(endpoints', NamedAddresses, strings, i + 1)
    BY <1>1, <1>2, <2>2, StringUsed
  <2> QED BY <2>1, <2>3
<1>7. Filled(endpoints, NamedAddresses, svc.addresses, i)'
  BY <1>1, <1>6, ServiceLeft
<1>8. TypeOK'
  BY <1>1, <1>6 DEF TypeOK, Endpoints
<1>9. i' <= Len(svc.addresses) + 1
  BY <1>1, <1>2
<1> QED BY <1>1, <1>7, <1>8, <1>9 DEF IInv, LoopInv

LEMMA UseBackendInv ==
    ASSUME IInv, UseBackend
    PROVE  IInv'
<1>1. /\ svc \in Services /\ i \in Nat /\ i >= 1 /\ endpoints \in Seq(Endpoints)
      /\ stage = "backends" /\ i <= Len(svc.backends)
      /\ svc' = svc /\ stage' = stage /\ i' = i + 1
      /\ NamedAddresses = {} /\ Filled(endpoints, NamedBackends, References, i)
  BY DEF IInv, LoopInv, TypeOK, UseBackend, Endpoints
<1>2. /\ svc.backends \in Seq(Backends)
      /\ \A k \in DOMAIN svc.backends : References[k] \in Strings
      /\ IsFiniteSet(NamedBackends) /\ NamedBackends \subseteq Nat
  BY <1>1, ServiceLists
<1>3. i \in DOMAIN svc.backends /\ References[i] \in Strings
  BY <1>1, <1>2
<1>4. endpoints' = IF i \in NamedBackends
                   THEN Append(endpoints, ParseAddress(References[i])) ELSE endpoints
  <2>1. References[i] = svc.backends[i].ref
    BY <1>3 DEF References
  <2> QED BY <1>3, <2>1, AddressParsed DEF UseBackend, Add, NamedBackends
<1>5. \A k \in NamedBackends : References[k] \in Strings
  BY <1>2 DEF NamedBackends
<1>6. endpoints' \in Seq(Endpoints) /\ Filled(endpoints', NamedBackends, References, i + 1)
  BY <1>1, <1>2, <1>4, <1>5, StringUsed
<1>7. Filled(endpoints, NamedBackends, References, i)'
  BY <1>1, <1>6, ServiceLeft
<1>8. TypeOK'
  BY <1>1, <1>6 DEF TypeOK, Endpoints
<1>9. i' <= Len(svc.backends) + 1
  BY <1>1, <1>2
<1>10. NamedAddresses' = {}
  BY <1>1, ServiceLeft
<1> QED BY <1>1, <1>7, <1>8, <1>9, <1>10 DEF IInv, LoopInv

LEMMA UsePortInv ==
    ASSUME IInv, UsePort
    PROVE  IInv'
<1> DEFINE e == [host |-> Placeholder, port |-> ParsePort(svc.ports[i])]
<1>1. /\ svc \in Services /\ i \in Nat /\ i >= 1 /\ endpoints \in Seq(Endpoints)
      /\ stage = "ports" /\ i <= Len(svc.ports)
      /\ svc' = svc /\ stage' = stage /\ i' = i + 1
      /\ NamedAddresses = {} /\ NamedBackends = {} /\ Placed(i)
      /\ endpoints' = Append(endpoints, e)
  BY DEF IInv, LoopInv, TypeOK, UsePort, Endpoints
<1>2. svc.ports \in Seq(Strings)
  BY <1>1, ServiceLists
<1>3. e \in Endpoints
  BY <1>1, <1>2, PortParsed, StringsAssumption DEF Endpoints, Strings
<1>4. /\ endpoints' \in Seq(Endpoints) /\ Len(endpoints') = Len(endpoints) + 1
      /\ Len(endpoints) \in Nat /\ DOMAIN endpoints' = 1..(Len(endpoints) + 1)
      /\ endpoints'[Len(endpoints) + 1] = e
      /\ \A k \in 1..Len(endpoints) : endpoints'[k] = endpoints[k]
  <2> HIDE DEF e
  <2> QED BY <1>1, <1>3
<1>5. Placed(i)'
  <2>1. Len(endpoints) + 1 = i
    BY <1>1, <1>4 DEF Placed
  <2>2. ASSUME NEW k \in DOMAIN endpoints'
        PROVE  endpoints'[k] = [host |-> Placeholder, port |-> ParsePort(svc.ports[k])]
    <3>1. CASE k = i
      BY <1>4, <2>1, <3>1
    <3>2. CASE k # i
      <4>1. k \in 1..Len(endpoints) /\ k \in DOMAIN endpoints
        BY <1>1, <1>4, <2>1, <3>2
      <4> QED BY <1>1, <1>4, <4>1 DEF Placed
    <3> QED BY <3>1, <3>2
  <2>3. Len(endpoints') = i' - 1
    BY <1>1, <1>4, <2>1
  <2> QED BY <1>1, <2>2, <2>3 DEF Placed
<1>6. TypeOK'
  BY <1>1, <1>4 DEF TypeOK, Endpoints
<1>7. i' <= Len(svc.ports) + 1
  BY <1>1, <1>2
<1>8. NamedAddresses' = {} /\ NamedBackends' = {}
  BY <1>1, ServiceLeft
<1> QED BY <1>1, <1>5, <1>6, <1>7, <1>8 DEF IInv, LoopInv

(* A loop that has ended has been through all the strings; when it gave no *)
(* endpoint, no string was usable.                                         *)
LEMMA LoopEnded ==
    ASSUME NEW S, IsFiniteSet(S), NEW N \in Nat, S \subseteq 1..N, NEW n \in Nat, n > N,
           NEW list \in Seq(Endpoints), NEW strings, Filled(list, S, strings, n)
    PROVE  Filled(list, S, strings, N + 1) /\ (list = <<>> <=> S = {})
<1>1. {k \in S : k < n} = S /\ {k \in S : k < N + 1} = S
  <2>1. \A k \in S : k < n /\ k < N + 1
    OBVIOUS
  <2> QED BY <2>1
<1>2. Len(list) = Cardinality(S)
  BY <1>1 DEF Filled
<1>3. Filled(list, S, strings, N + 1)
  BY <1>1 DEF Filled
<1>4. list = <<>> <=> Len(list) = 0
  OBVIOUS
<1>5. list = <<>> <=> S = {}
  BY <1>2, <1>4, FS_EmptySet
<1> QED BY <1>3, <1>5

LEMMA AfterAddressesInv ==
    ASSUME IInv, AfterAddresses
    PROVE  IInv'
<1>1. /\ svc \in Services /\ i \in Nat /\ endpoints \in Seq(Endpoints)
      /\ stage = "addresses" /\ i > Len(svc.addresses)
      /\ svc' = svc /\ i' = 1 /\ endpoints' = endpoints
      /\ stage' = IF endpoints = <<>> THEN "backends" ELSE "done"
      /\ Filled(endpoints, NamedAddresses, svc.addresses, i)
  BY DEF IInv, LoopInv, TypeOK, AfterAddresses, Enter, Endpoints
<1>2. /\ svc.addresses \in Seq(Strings) /\ svc.backends \in Seq(Backends)
      /\ IsFiniteSet(NamedAddresses) /\ NamedAddresses \subseteq 1..Len(svc.addresses)
      /\ IsFiniteSet(NamedBackends) /\ NamedBackends \subseteq 1..Len(svc.backends)
  <2>1. svc.addresses \in Seq(Strings) /\ svc.backends \in Seq(Backends)
    BY <1>1, ServiceLists
  <2>2. /\ NamedAddresses \subseteq 1..Len(svc.addresses)
        /\ NamedBackends \subseteq 1..Len(svc.backends)
    BY <2>1 DEF NamedAddresses, NamedBackends
  <2> QED BY <1>1, <2>1, <2>2, ServiceLists
<1>3. /\ Filled(endpoints, NamedAddresses, svc.addresses, Len(svc.addresses) + 1)
      /\ endpoints = <<>> <=> NamedAddresses = {}
  <2>0. PICK strings : strings = svc.addresses
    OBVIOUS
  <2>1. PICK N \in Nat : N = Len(strings)
    BY <1>2, <2>0
  <2>2. /\ NamedAddresses \subseteq 1..N /\ i > N
        /\ Filled(endpoints, NamedAddresses, strings, i)
    BY <1>1, <1>2, <2>0, <2>1
  <2>3. /\ Filled(endpoints, NamedAddresses, strings, N + 1)
        /\ endpoints = <<>> <=> NamedAddresses = {}
    BY <1>1, <1>2, <2>2, LoopEnded
  <2> QED BY <2>0, <2>1, <2>3
<1>4. /\ NamedAddresses' = NamedAddresses /\ NamedBackends' = NamedBackends
      /\ References' = References
  BY <1>1, ServiceLeft
<1>5. TypeOK'
  BY <1>1 DEF TypeOK, Endpoints
<1>6. CASE endpoints = <<>>
  <2>1. {k \in NamedBackends : k < 1} = {}
    <3>1. \A n \in Nat : \A k \in 1..n : ~(k < 1)
      OBVIOUS
    <3>2. \A k \in NamedBackends : k \in 1..Len(svc.backends) /\ Len(svc.backends) \in Nat
      BY <1>2
    <3> QED BY <3>1, <3>2, Zenon
  <2>2. Filled(endpoints, NamedBackends, References, 1)
    BY <1>6, <2>1, FS_EmptySet DEF Filled
  <2>3. 1 <= Len(svc.backends) + 1
    BY <1>2
  <2> QED BY <1>1, <1>3, <1>4, <1>5, <1>6, <2>2, <2>3 DEF IInv, LoopInv
<1>7. CASE endpoints # <<>>
  BY <1>1, <1>3, <1>4, <1>5, <1>7 DEF IInv, LoopInv
<1> QED BY <1>6, <1>7

LEMMA AfterBackendsInv ==
    ASSUME IInv, AfterBackends
    PROVE  IInv'
<1>1. /\ svc \in Services /\ i \in Nat /\ endpoints \in Seq(Endpoints)
      /\ stage = "backends" /\ i > Len(svc.backends) /\ NamedAddresses = {}
      /\ svc' = svc /\ i' = 1 /\ endpoints' = endpoints
      /\ stage' = IF endpoints = <<>> THEN "ports" ELSE "done"
      /\ Filled(endpoints, NamedBackends, References, i)
  BY DEF IInv, LoopInv, TypeOK, AfterBackends, Enter, Endpoints
<1>2. /\ svc.backends \in Seq(Backends) /\ svc.ports \in Seq(Strings)
      /\ IsFiniteSet(NamedBackends) /\ NamedBackends \subseteq 1..Len(svc.backends)
  <2>1. svc.backends \in Seq(Backends) /\ svc.ports \in Seq(Strings)
    BY <1>1, ServiceLists
  <2>2. NamedBackends \subseteq 1..Len(svc.backends)
    BY <2>1 DEF NamedBackends
  <2> QED BY <1>1, <2>1, <2>2, ServiceLists
<1>3. /\ Filled(endpoints, NamedBackends, References, Len(svc.backends) + 1)
      /\ endpoints = <<>> <=> NamedBackends = {}
  <2>1. PICK N \in Nat : N = Len(svc.backends)
    BY <1>2
  <2>2. NamedBackends \subseteq 1..N /\ i > N
    BY <1>1, <1>2, <2>1
  <2>3. /\ Filled(endpoints, NamedBackends, References, N + 1)
        /\ endpoints = <<>> <=> NamedBackends = {}
    BY <1>1, <1>2, <2>2, LoopEnded
  <2> QED BY <2>1, <2>3
<1>4. /\ NamedAddresses' = NamedAddresses /\ NamedBackends' = NamedBackends
      /\ References' = References
  BY <1>1, ServiceLeft
<1>5. TypeOK'
  BY <1>1 DEF TypeOK, Endpoints
<1>6. CASE endpoints = <<>>
  <2>1. Placed(1)'
    BY <1>1, <1>6 DEF Placed
  <2>2. 1 <= Len(svc.ports) + 1
    BY <1>2
  <2> QED BY <1>1, <1>3, <1>4, <1>5, <1>6, <2>1, <2>2 DEF IInv, LoopInv
<1>7. CASE endpoints # <<>>
  BY <1>1, <1>3, <1>4, <1>5, <1>7 DEF IInv, LoopInv
<1> QED BY <1>6, <1>7

(* There is a port, so that the default of the last stage is not reached.  *)
LEMMA AfterPortsInv ==
    ASSUME IInv, AfterPorts
    PROVE  IInv'
<1>1. /\ svc \in Services /\ i \in Nat /\ endpoints \in Seq(Endpoints)
      /\ stage = "ports" /\ i > Len(svc.ports) /\ i <= Len(svc.ports) + 1
      /\ NamedAddresses = {} /\ NamedBackends = {} /\ Placed(i)
      /\ svc' = svc /\ i' = 1 /\ stage' = "done"
  BY DEF IInv, LoopInv, TypeOK, AfterPorts, Endpoints
<1>2. svc.ports \in Seq(Strings) /\ svc.ports # <<>>
  BY <1>1, ServiceLists
<1>3. i = Len(svc.ports) + 1 /\ Len(svc.ports) \in Nat /\ Len(svc.ports) # 0
  BY <1>1, <1>2
<1>4. endpoints' = endpoints
  <2>1. Len(endpoints) # 0
    BY <1>1, <1>3 DEF Placed
  <2> QED BY <1>1, <2>1 DEF AfterPorts
<1>5. Placed(Len(svc.ports) + 1)'
  BY <1>1, <1>3, <1>4 DEF Placed
<1>6. TypeOK'
  BY <1>1, <1>4 DEF TypeOK, Endpoints
<1>7. NamedAddresses' = {} /\ NamedBackends' = {}
  BY <1>1, ServiceLeft
<1> QED BY <1>1, <1>5, <1>6, <1>7 DEF IInv, LoopInv

LEMMA NextInv == IInv /\ [Next]_vars => IInv'
<1> SUFFICES ASSUME IInv, [Next]_vars PROVE IInv'
  OBVIOUS
<1>1. CASE UseAddress
  BY <1>1, UseAddressInv
<1>2. CASE AfterAddresses
  BY <1>2, AfterAddressesInv
<1>3. CASE UseBackend
  BY <1>3, UseBackendInv
<1>4. CASE AfterBackends
  BY <1>4, AfterBackendsInv
<1>5. CASE UsePort
  BY <1>5, UsePortInv
<1>6. CASE AfterPorts
  BY <1>6, AfterPortsInv
<1>7. CASE UNCHANGED vars
  <2>1. /\ NamedAddresses' = NamedAddresses /\ NamedBackends' = NamedBackends
        /\ References' = References
        /\ svc' = svc /\ stage' = stage /\ i' = i /\ endpoints' = endpoints
    BY <1>7, ServiceLeft DEF vars
  <2> QED BY <2>1 DEF IInv, TypeOK, LoopInv, Placed
<1> QED BY <1>1, <1>2, <1>3, <1>4, <1>5, <1>6, <1>7 DEF Next

(* In every round the endpoints are what the usable strings before it      *)
(* gave, each at its rank, and a later source is read only when the        *)
(* earlier ones had none: the loops of resolveTailscaleServiceEndpoints.   *)
THEOREM EndpointInvariant == Spec => []IInv
<1> QED BY InitInv, NextInv, PTL DEF Spec

(***************************************************************************)
(* Where the cluster points to                                             *)
(***************************************************************************)
(* A source that was used up is all there is in the cluster.               *)
LEMMA FilledAll ==
    ASSUME NEW S, IsFiniteSet(S), NEW N \in Nat, S \subseteq 1..N,
           NEW list \in Seq(Endpoints), NEW strings, Filled(list, S, strings, N + 1)
    PROVE  /\ Len(list) = Cardinality(S)
           /\ \A k \in S : list[Rank(S, k)] = ParseAddress(strings[k])
           /\ {list[j].host : j \in DOMAIN list} = HostsIn(S, strings)
<1>1. {k \in S : k < N + 1} = S
  <2>1. \A k \in S : k < N + 1
    OBVIOUS
  <2> QED BY <2>1
<1>2. Len(list) = Cardinality(S) /\ \A k \in S : list[Rank(S, k)] = ParseAddress(strings[k])
  BY <1>1 DEF Filled
<1>3. S \subseteq Nat
  <2>1. \A k \in 1..N : k \in Nat
    OBVIOUS
  <2> QED BY <2>1
<1>4. /\ DOMAIN list = 1..Cardinality(S)
      /\ \A k \in S : Rank(S, k) \in 1..Cardinality(S)
      /\ \A j \in 1..Cardinality(S) : \E k \in S : Rank(S, k) = j
  <2>1. DOMAIN list = 1..Len(list)
    OBVIOUS
  <2> QED BY <1>2, <1>3, <2>1, RanksCover
<1>5. ASSUME NEW j \in DOMAIN list PROVE list[j].host \in HostsIn(S, strings)
  <2>1. PICK k \in S : Rank(S, k) = j
    BY <1>4
  <2> QED BY <1>2, <2>1 DEF HostsIn
<1>6. ASSUME NEW k \in S
      PROVE  ParseAddress(strings[k]).host \in {list[j].host : j \in DOMAIN list}
  <2>1. Rank(S, k) \in DOMAIN list /\ list[Rank(S, k)] = ParseAddress(strings[k])
    BY <1>2, <1>4
  <2> QED BY <2>1
<1> QED BY <1>2, <1>5, <1>6 DEF HostsIn

(* What the invariant says of a cluster that is complete.                  *)
LEMMA Done ==
    ASSUME IInv, stage = "done"
    PROVE  /\ NamedAddresses # {} =>
                 /\ Len(endpoints) = Cardinality(NamedAddresses)
                 /\ \A k \in NamedAddresses :
                       endpoints[Rank(NamedAddresses, k)] = ParseAddress(svc.addresses[k])
                 /\ Hosts = HostsIn(NamedAddresses, svc.addresses)
           /\ NamedAddresses = {} /\ NamedBackends # {} =>
                 /\ Len(endpoints) = Cardinality(NamedBackends)
                 /\ \A k \in NamedBackends :
                       endpoints[Rank(NamedBackends, k)] = ParseAddress(References[k])
                 /\ Hosts = HostsIn(NamedBackends, References)
           /\ NamedAddresses = {} /\ NamedBackends = {} => Placed(Len(svc.ports) + 1)
<1>1. /\ svc \in Services /\ endpoints \in Seq(Endpoints)
      /\ svc.addresses \in Seq(Strings) /\ svc.backends \in Seq(Backends)
      /\ IsFiniteSet(NamedAddresses) /\ IsFiniteSet(NamedBackends)
  BY ServiceLists DEF IInv, TypeOK, Endpoints
<1>2. CASE NamedAddresses # {}
  <2>1. PICK strings : strings = svc.addresses
    OBVIOUS
  <2>2. PICK N \in Nat : N = Len(strings)
    BY <1>1, <2>1
  <2>3. Filled(endpoints, NamedAddresses, strings, N + 1) /\ NamedAddresses \subseteq 1..N
    BY <1>1, <1>2, <2>1, <2>2 DEF IInv, LoopInv, NamedAddresses
  <2>4. /\ Len(endpoints) = Cardinality(NamedAddresses)
        /\ \A k \in NamedAddresses :
              endpoints[Rank(NamedAddresses, k)] = ParseAddress(strings[k])
        /\ {endpoints[j].host : j \in DOMAIN endpoints} = HostsIn(NamedAddresses, strings)
    BY <1>1, <2>3, FilledAll
  <2> QED BY <1>2, <2>1, <2>4 DEF Hosts
<1>3. CASE NamedAddresses = {} /\ NamedBackends # {}
  <2>1. PICK N \in Nat : N = Len(svc.backends)
    BY <1>1
  <2>2. Filled(endpoints, NamedBackends, References, N + 1) /\ NamedBackends \subseteq 1..N
    BY <1>1, <1>3, <2>1 DEF IInv, LoopInv, NamedBackends
  <2>3. /\ Len(endpoints) = Cardinality(NamedBackends)
        /\ \A k \in NamedBackends :
              endpoints[Rank(NamedBackends, k)] = ParseAddress(References[k])
        /\ {endpoints[j].host : j \in DOMAIN endpoints} = HostsIn(NamedBackends, References)
    BY <1>1, <2>2, FilledAll
  <2> QED BY <1>3, <2>3 DEF Hosts
<1>4. CASE NamedAddresses = {} /\ NamedBackends = {}
  BY <1>4 DEF IInv, LoopInv
<1> QED BY <1>2, <1>3, <1>4

LEMMA InvFirstSource ==
    ASSUME IInv
    PROVE  FirstSourceOnly
<1> SUFFICES ASSUME stage = "done"
             PROVE  /\ endpoints # <<>>
                    /\ Len(endpoints) =
                          IF NamedAddresses # {} THEN Cardinality(NamedAddresses)
                          ELSE IF NamedBackends # {} THEN Cardinality(NamedBackends)
                          ELSE Len(svc.ports)
                    /\ Hosts = IF NamedAddresses # {}
                               THEN HostsIn(NamedAddresses, svc.addresses)
                               ELSE IF NamedBackends # {}
                               THEN HostsIn(NamedBackends, References)
                               ELSE {Placeholder}
  BY DEF FirstSourceOnly
<1>1. /\ endpoints \in Seq(Endpoints) /\ svc.ports \in Seq(Strings) /\ svc.ports # <<>>
      /\ IsFiniteSet(NamedAddresses) /\ IsFiniteSet(NamedBackends)
  BY ServiceLists DEF IInv, TypeOK, Endpoints
<1>2. endpoints = <<>> => Len(endpoints) = 0
  OBVIOUS
<1>3. CASE NamedAddresses # {}
  <2>1. Cardinality(NamedAddresses) # 0
    BY <1>1, <1>3, FS_EmptySet
  <2> QED BY <1>2, <1>3, <2>1, Done
<1>4. CASE NamedAddresses = {} /\ NamedBackends # {}
  <2>1. Cardinality(NamedBackends) # 0
    BY <1>1, <1>4, FS_EmptySet
  <2> QED BY <1>2, <1>4, <2>1, Done
<1>5. CASE NamedAddresses = {} /\ NamedBackends = {}
  <2>1. Len(svc.ports) \in Nat /\ Len(svc.ports) # 0
    BY <1>1
  <2>2. /\ Len(endpoints) = Len(svc.ports)
        /\ \A k \in DOMAIN endpoints : endpoints[k].host = Placeholder
    BY <1>5, <2>1, Done DEF Placed
  <2>3. 1 \in DOMAIN endpoints
    BY <1>1, <2>1, <2>2
  <2>4. Hosts = {Placeholder}
    BY <2>2, <2>3 DEF Hosts
  <2> QED BY <1>2, <1>5, <2>1, <2>2, <2>4
<1> QED BY <1>3, <1>4, <1>5

(* The cluster has the usable VIP addresses, or else the usable backends,  *)
(* or else one placeholder for each port, one endpoint each and no other.  *)
THEOREM OnlyFirstSource == Spec => []FirstSourceOnly
<1>1. IInv => FirstSourceOnly
  BY InvFirstSource
<1> QED BY <1>1, EndpointInvariant, PTL

(* A port of digits is read as its number when ParseInt can read it.       *)
LEMMA DigitsRead ==
    ASSUME NEW t \in Digits
    PROVE  Atoi[t] \in {NaN, OrDefault(Scan[t])}
<1>1. Atoi[t] = NaN \/ Atoi[t] = Scan[t]
  BY DigitsAssumption
<1>2. CASE Scan[t] = NaN
  BY <1>1, <1>2
<1>3. CASE Scan[t] # NaN
  BY <1>1, <1>3 DEF OrDefault
<1> QED BY <1>2, <1>3

LEMMA InvHostsAndPorts ==
    ASSUME IInv
    PROVE  HostsAndPortsKept
<1> SUFFICES ASSUME stage = "done",
                    \A k \in DOMAIN svc.addresses : ~IsIPv6(svc.addresses[k]),
                    NEW k \in NamedAddresses
             PROVE  LET s == svc.addresses[k]
                        e == endpoints[Rank(NamedAddresses, k)]
                    IN  /\ e.host = HostOf(s)
                        /\ Len(s) = 2 /\ s[2] \in Digits => Atoi[s[2]] \in {NaN, e.port}
  BY DEF HostsAndPortsKept
<1>1. endpoints[Rank(NamedAddresses, k)] = ParseAddress(svc.addresses[k])
  BY Done
<1>2. PICK s \in Strings : s = svc.addresses[k] /\ ~(Len(s) > 2)
  <2>1. svc.addresses \in Seq(Strings) /\ k \in DOMAIN svc.addresses
    BY ServiceLists DEF IInv, TypeOK, NamedAddresses
  <2> QED BY <2>1 DEF IsIPv6
<1>3. Len(s) <= 2
  BY <1>2 DEF Strings
<1>4. /\ ParseAddress(s).host = HostOf(s)
      /\ Len(s) = 2 => ParseAddress(s).port = OrDefault(Scan[s[2]])
  BY <1>3, AddressParsed
<1>5. Len(s) = 2 /\ s[2] \in Digits => Atoi[s[2]] \in {NaN, ParseAddress(s).port}
  BY <1>4, DigitsRead
<1> QED BY <1>1, <1>2, <1>4, <1>5

(* parseAddress: the n-th endpoint has the host and the port of the n-th   *)
(* usable VIP address.                                                     *)
THEOREM HostsAndPortsAreKept == Spec => []HostsAndPortsKept
<1>1. IInv => HostsAndPortsKept
  BY InvHostsAndPorts
<1> QED BY <1>1, EndpointInvariant, PTL

(***************************************************************************)
(* The ports of the proxy                                                  *)
(***************************************************************************)
(* A set of naturals that is not empty has a least element.                *)
LEMMA LeastElement ==
    ASSUME NEW T, T \subseteq Nat, T # {}
    PROVE  \E x \in T : \A y \in T : x <= y
<1> DEFINE R == {p \in Nat \X Nat : p[1] < p[2]}
<1>1. IsWellFoundedOn(R, Nat)
  BY NatLessThanWellFounded DEF OpToRel
<1>2. PICK x \in T : \A y \in T : ~(<<y, x>> \in R)
  <2> HIDE DEF R
  <2> QED BY <1>1, WFMin, Zenon
<1>3. ASSUME NEW y \in T, y < x PROVE FALSE
  <2>1. <<y, x>> \in Nat \X Nat /\ <<y, x>>[1] < <<y, x>>[2]
    BY <1>3
  <2>2. <<y, x>> \in R
    BY <2>1, Zenon
  <2> QED BY <1>2, <2>2
<1> QED BY <1>3

(* What holds for 0, and after each round when it did before it, holds     *)
(* after every round.                                                      *)
LEMMA EveryRound ==
    ASSUME NEW T, 0 \in T, \A n \in Nat : n \in T => n + 1 \in T
    PROVE  \A n \in Nat : n \in T
<1> DEFINE Others == {n \in Nat : n \notin T}
<1>1. SUFFICES ASSUME Others # {} PROVE FALSE
  OBVIOUS
<1>2. Others \subseteq Nat
  OBVIOUS
<1>3. PICK n \in Others : \A m \in Others : n <= m
  <2> HIDE DEF Others
  <2> QED BY <1>1, <1>2, LeastElement
<1>4. n \in Nat /\ n # 0
  OBVIOUS
<1>5. n - 1 \in Nat /\ n - 1 \notin Others /\ n = (n - 1) + 1
  BY <1>3, <1>4
<1> QED BY <1>5

(* Each port that ParseInt reads is mapped, to its number and protocol.    *)
LEMMA PortsMapped ==
    ASSUME NEW ports \in Seq(Strings), NEW j \in DOMAIN ports, MappedPort(ports[j]) # NaN
    PROVE  \E x \in DOMAIN Mappings(ports) :
              Mappings(ports)[x] = [port |-> MappedPort(ports[j]),
                                    udp |-> Len(ports[j]) > 1 /\ ports[j][1] \in UDP]
<1> DEFINE Mapping(k) == [port |-> MappedPort(ports[k]),
                          udp |-> Len(ports[k]) > 1 /\ ports[k][1] \in UDP]
           Round(f, k) == IF k = 0 THEN <<>>
                          ELSE IF MappedPort(ports[k]) = NaN THEN f[k - 1]
                          ELSE Append(f[k - 1], Mapping(k))
           IsLoop(f, n) == f = [k \in 0..n |-> Round(f, k)]
           upTo == CHOOSE f : IsLoop(f, Len(ports))
<1>1. Mappings(ports) = upTo[Len(ports)]
  BY DEF Mappings
<1>2. \A n \in Nat : \E f : IsLoop(f, n)
  <2> DEFINE T == {n \in Nat : \E f : IsLoop(f, n)}
  <2>1. 0 \in T
    <3>1. IsLoop([k \in 0..0 |-> <<>>], 0)
      OBVIOUS
    <3> QED BY <3>1
  <2>2. ASSUME NEW n \in Nat, n \in T PROVE n + 1 \in T
    <3>1. PICK f : IsLoop(f, n)
      BY <2>2
    <3> DEFINE g == [k \in 0..(n + 1) |-> IF k <= n THEN f[k] ELSE Round(f, k)]
    <3>2. ASSUME NEW k \in 0..(n + 1) PROVE g[k] = Round(g, k)
      <4>1. CASE k = n + 1
        <5>1. g[k] = Round(f, k) /\ g[k - 1] = f[k - 1] /\ k # 0
          BY <4>1
        <5> QED BY <5>1
      <4>2. CASE k <= n
        <5>1. k \in 0..n
          BY <4>2
        <5>2. g[k] = f[k] /\ f[k] = Round(f, k)
          BY <3>1, <4>2, <5>1
        <5>3. k # 0 => g[k - 1] = f[k - 1]
          BY <4>2
        <5> QED BY <5>2, <5>3
      <4> QED BY <4>1, <4>2
    <3>3. IsLoop(g, n + 1)
      <4> HIDE DEF Round
      <4> QED BY <3>2
    <3>4. n + 1 \in Nat
      OBVIOUS
    <3> HIDE DEF IsLoop, g
    <3> QED BY <3>3, <3>4
  <2>3. \A n \in Nat : n \in T
    <3> HIDE DEF T
    <3> QED BY <2>1, <2>2, EveryRound
  <2> HIDE DEF IsLoop
  <2> QED BY <2>3
<1>3. IsLoop(upTo, Len(ports))
  <2> HIDE DEF IsLoop
  <2> QED BY <1>2
<1> DEFINE N == Len(ports)
<1>4. \A k \in 0..N : upTo[k] = Round(upTo, k)
  <2> HIDE DEF upTo, Round
  <2> QED BY <1>3
<1>5. N \in Nat /\ DOMAIN ports = 1..N
  OBVIOUS
<1> HIDE DEF upTo, IsLoop, N
<1> DEFINE Pairs == {Mapping(k) : k \in DOMAIN ports}
           Kept(k) == /\ upTo[k] \in Seq(Pairs)
                      /\ \A m \in 1..k : MappedPort(ports[m]) # NaN =>
                            \E x \in DOMAIN upTo[k] : upTo[k][x] = Mapping(m)
           T == {k \in Nat : k <= N => Kept(k)}
<1>6. 0 \in T
  <2>1. upTo[0] = Round(upTo, 0)
    <3> HIDE DEF Round
    <3> QED BY <1>4, <1>5
  <2>2. Round(upTo, 0) = <<>>
    OBVIOUS
  <2>3. Kept(0)
    <3> HIDE DEF Pairs, Round, Mapping
    <3>1. upTo[0] = <<>> /\ <<>> \in Seq(Pairs)
      BY <2>1, <2>2
    <3>2. \A m \in 1..0 : FALSE
      OBVIOUS
    <3> QED BY <3>1, <3>2, Zenon
  <2> HIDE DEF Kept
  <2> QED BY <2>3
<1>7. ASSUME NEW n \in Nat, n \in T PROVE n + 1 \in T
  <2>1. SUFFICES ASSUME n + 1 <= N PROVE Kept(n + 1)
    OBVIOUS
  <2>2. Kept(n) /\ n + 1 \in DOMAIN ports /\ n + 1 \in 0..N
    <3>1. n <= N /\ n + 1 \in 1..N /\ n + 1 \in 0..N
      BY <1>5, <2>1
    <3> QED BY <1>5, <1>7, <3>1
  <2>3. /\ MappedPort(ports[n + 1]) = NaN => upTo[n + 1] = upTo[n]
        /\ MappedPort(ports[n + 1]) # NaN => upTo[n + 1] = Append(upTo[n], Mapping(n + 1))
    <3>1. upTo[n + 1] = Round(upTo, n + 1)
      <4> HIDE DEF Round, Kept
      <4> QED BY <1>4, <2>2
    <3>2. /\ MappedPort(ports[n + 1]) = NaN => Round(upTo, n + 1) = upTo[n]
          /\ MappedPort(ports[n + 1]) # NaN =>
                Round(upTo, n + 1) = Append(upTo[n], Mapping(n + 1))
      <4> HIDE DEF Mapping
      <4> QED OBVIOUS
    <3> HIDE DEF Round
    <3> QED BY <3>1, <3>2
  <2>4. Mapping(n + 1) \in Pairs
    BY <2>2
  <2>5. \A m \in 1..(n + 1) : m \in 1..n \/ m = n + 1
    OBVIOUS
  <2> HIDE DEF Mapping, Pairs
  <2>6. CASE MappedPort(ports[n + 1]) = NaN
    BY <2>2, <2>3, <2>5, <2>6
  <2>7. CASE MappedPort(ports[n + 1]) # NaN
    <3> DEFINE before == upTo[n]
               after == Append(before, Mapping(n + 1))
    <3>1. upTo[n + 1] = after
      BY <2>3, <2>7
    <3>2. before \in Seq(Pairs)
      BY <2>2
    <3> HIDE DEF before
    <3>3. /\ after \in Seq(Pairs)
          /\ Len(before) + 1 \in DOMAIN after /\ after[Len(before) + 1] = Mapping(n + 1)
          /\ \A x \in DOMAIN before : x \in DOMAIN after /\ after[x] = before[x]
      BY <2>4, <3>2
    <3> HIDE DEF after
    <3>4. ASSUME NEW m \in 1..(n + 1), MappedPort(ports[m]) # NaN
          PROVE  \E x \in DOMAIN after : after[x] = Mapping(m)
      <4>1. CASE m = n + 1
        BY <3>3, <4>1
      <4>2. CASE m \in 1..n
        <5>1. PICK x \in DOMAIN before : before[x] = Mapping(m)
          BY <2>2, <3>4, <4>2 DEF before
        <5> QED BY <3>3, <5>1
      <4> QED BY <2>5, <4>1, <4>2
    <3> QED BY <3>1, <3>3, <3>4
  <2> QED BY <2>6, <2>7
<1>8. \A n \in Nat : n \in T
  <2> HIDE DEF T
  <2> QED BY <1>6, <1>7, EveryRound
<1>9. Kept(N)
  <2>1. N <= N
    BY <1>5
  <2> HIDE DEF Kept
  <2> QED BY <1>8, <1>5, <2>1
<1> QED BY <1>1, <1>9, <1>5 DEF N

LEMMA InvSinglePorts ==
    ASSUME svc \in Services
    PROVE  SinglePortsMapped
<1>1. PICK ports \in Seq(Strings) : ports = svc.ports
  BY ServiceLists
<1>2. PortMappings(ports) # <<>>
  BY DEF PortMappings
<1>3. ASSUME NEW j \in DOMAIN ports, Len(ports[j]) = 2, ports[j][2] \in Digits,
             Atoi[ports[j][2]] # NaN
      PROVE  \E x \in DOMAIN PortMappings(ports) :
                PortMappings(ports)[x] = [port |-> ParsePort(ports[j]),
                                          udp |-> ports[j][1] \in UDP]
  <2> DEFINE s == ports[j]
  <2>1. MappedPort(s) = Atoi[s[2]]
    BY <1>3 DEF MappedPort
  <2>2. Atoi[s[2]] = Scan[s[2]]
    BY <1>3, DigitsAssumption
  <2>3. ParsePort(s) = MappedPort(s)
    BY <1>3, <2>1, <2>2 DEF ParsePort
  <2>4. (Len(s) > 1 /\ s[1] \in UDP) <=> s[1] \in UDP
    BY <1>3
  <2>5. (Len(s) > 1 /\ s[1] \in UDP) = (s[1] \in UDP)
    BY <2>4
  <2>6. MappedPort(s) # NaN
    BY <1>3, <2>1
  <2>7. PICK x \in DOMAIN Mappings(ports) :
              Mappings(ports)[x] = [port |-> MappedPort(s), udp |-> Len(s) > 1 /\ s[1] \in UDP]
    BY <2>6, PortsMapped
  <2>8. Mappings(ports)[x] = [port |-> ParsePort(s), udp |-> s[1] \in UDP]
    BY <2>3, <2>5, <2>7, Zenon
  <2>9. Mappings(ports) # <<>>
    BY <2>7
  <2>10. PortMappings(ports) = Mappings(ports)
    BY <2>9 DEF PortMappings
  <2> QED BY <2>8, <2>10, Zenon
<1> QED BY <1>1, <1>2, <1>3 DEF SinglePortsMapped

(* convertVIPPortsToPortMappings: the proxy has a port, and among its      *)
(* ports each single one that the client accepts, as Envoy reads it.       *)
THEOREM SinglePortsAreMapped == Spec => []SinglePortsMapped
<1>1. IInv => SinglePortsMapped
  BY InvSinglePorts DEF IInv, TypeOK
<1> QED BY <1>1, EndpointInvariant, PTL

(***************************************************************************)
(* What validation admits                                                  *)
(***************************************************************************)
(* An admitted backend that is resolved has a host and a port.             *)
LEMMA AdmittedBackend ==
    ASSUME NEW b, ValidBackend(b), b.type # "tailscale"
    PROVE  /\ b.type \in {"kubernetes", "external"}
           /\ Len(b.ref) = 2 /\ Named(b.ref)
<1>1. \/ b.type = "kubernetes" /\ ValidKubernetesService(b.ref)
      \/ b.type = "external" /\ ValidAddress(b.ref)
  BY DEF ValidBackend
<1>2. Len(b.ref) = 2 /\ b.ref[1] \in DNSNames \cup AddressHosts
  BY <1>1 DEF ValidKubernetesService, ValidAddress
<1>3. b.ref[1] # Empty
  BY <1>2, NamesAssumption
<1>4. HostOf(b.ref) = <<b.ref[1]>>
  BY <1>2 DEF HostOf
<1>5. Named(b.ref)
  <2> DEFINE x == b.ref[1]
  <2> HIDE DEF x
  <2>1. <<x>> # <<Empty>>
    BY <1>3 DEF x
  <2> QED BY <1>4, <2>1 DEF Named, x
<1> QED BY <1>1, <1>2, <1>5

LEMMA InvAdmittedBackends ==
    ASSUME IInv
    PROVE  AdmittedBackendsKept
<1> DEFINE used == {k \in DOMAIN svc.backends : svc.backends[k].type # "tailscale"}
<1> SUFFICES ASSUME stage = "done", NamedAddresses = {}, NEW head \in Heads,
                    Admitted(head, svc), used # {}
             PROVE  /\ Len(endpoints) = Cardinality(used)
                    /\ \A k \in used :
                          LET s == References[k]
                              e == endpoints[Rank(used, k)]
                          IN  /\ e.host = <<s[1]>>
                              /\ s[2] \in Digits => Atoi[s[2]] \in {NaN, e.port}
  BY DEF AdmittedBackendsKept
<1>1. \A k \in used : /\ svc.backends[k].type \in {"kubernetes", "external"}
                      /\ References[k] = svc.backends[k].ref
                      /\ Len(References[k]) = 2 /\ Named(References[k])
  <2>1. ASSUME NEW k \in used
        PROVE  /\ svc.backends[k].type \in {"kubernetes", "external"}
               /\ References[k] = svc.backends[k].ref
               /\ Len(References[k]) = 2 /\ Named(References[k])
    <3>1. ValidBackend(svc.backends[k]) /\ svc.backends[k].type # "tailscale"
      BY DEF Admitted
    <3>2. References[k] = svc.backends[k].ref
      BY DEF References
    <3> QED BY <3>1, <3>2, AdmittedBackend
  <2> QED BY <2>1
<1>2. used = NamedBackends
  <2>1. \A k \in used : k \in NamedBackends
    BY <1>1 DEF NamedBackends
  <2>2. \A k \in NamedBackends : k \in used
    BY DEF NamedBackends
  <2> QED BY <2>1, <2>2
<1> HIDE DEF used
<1>3. /\ Len(endpoints) = Cardinality(used)
      /\ \A k \in used : endpoints[Rank(used, k)] = ParseAddress(References[k])
  BY <1>2, Done
<1>4. ASSUME NEW k \in used
      PROVE  LET s == References[k]
                 e == endpoints[Rank(used, k)]
             IN  /\ e.host = <<s[1]>>
                 /\ s[2] \in Digits => Atoi[s[2]] \in {NaN, e.port}
  <2>1. PICK s \in Strings : s = References[k] /\ Len(s) = 2
    BY <1>1, <1>2, ServiceLists DEF IInv, TypeOK, NamedBackends
  <2>2. ParseAddress(s).host = <<s[1]>> /\ ParseAddress(s).port = OrDefault(Scan[s[2]])
    BY <2>1, AddressParsed
  <2>3. s[2] \in Digits => Atoi[s[2]] \in {NaN, ParseAddress(s).port}
    BY <2>2, DigitsRead
  <2> QED BY <1>3, <2>1, <2>2, <2>3
<1> QED BY <1>3, <1>4

(* resolveBackendEndpoints loses no backend that validation admits.        *)
THEOREM AdmittedBackendsAreKept == Spec => []AdmittedBackendsKept
<1>1. IInv => AdmittedBackendsKept
  BY InvAdmittedBackends
<1> QED BY <1>1, EndpointInvariant, PTL

(* A single port of digits that validation admits has a number, a port of  *)
(* a socket, that ParseInt and Sscanf read.                                *)
LEMMA AdmittedPort ==
    ASSUME NEW s \in Strings, ValidPortFormat(s)
    PROVE  /\ Len(s) = 2 /\ s[1] \in Protocols /\ Last(s) = s[2]
           /\ s[2] \in Digits => MappedPort(s) \in SocketPorts /\ ParsePort(s) = MappedPort(s)
<1>1. Len(s) = 2 /\ s[1] \in Protocols /\ Last(s) = s[2]
  BY DEF ValidPortFormat, Last
<1>2. ASSUME s[2] \in Digits
      PROVE  MappedPort(s) \in SocketPorts /\ ParsePort(s) = MappedPort(s)
  <2>1. NaN \notin SocketPorts
    <3>1. MaxPort \in Int
      BY DEF MaxPort
    <3> QED BY <3>1, NumbersAssumption DEF SocketPorts
  <2>2. PICK net \in {"tcp", "udp"} : Lookup[net][s[2]] # NaN
    BY DEF ValidPortFormat
  <2>3. Atoi[s[2]] \in SocketPorts
    BY <1>2, <2>2, LookupAssumption
  <2>4. Atoi[s[2]] = Scan[s[2]]
    BY <1>2, <2>1, <2>3, DigitsAssumption
  <2>5. MappedPort(s) = Atoi[s[2]]
    BY <1>1 DEF MappedPort
  <2>6. Scan[s[2]] # NaN
    BY <2>1, <2>3, <2>4
  <2>7. ParsePort(s) = Scan[s[2]]
    BY <1>1, <2>6 DEF ParsePort
  <2> QED BY <2>3, <2>4, <2>5, <2>7
<1> QED BY <1>1, <1>2

(* An admitted name is a label after "svc:", and the client takes what it  *)
(* does not reserve or find too long.                                      *)
LEMMA AdmittedName ==
    ASSUME NEW name \in Strings, ValidServiceName(name)
    PROVE  /\ Len(name) = 2 /\ name[1] = "svc" /\ name[2] \in DNSLabels
           /\ Last(name) = name[2]
           /\ name[2] \notin Reserved \cup TooLong => ValidName(name)
<1>1. /\ Len(name) = 2 /\ name[1] = "svc" /\ name[2] \in DNSLabels
      /\ Last(name) = name[2]
  BY DEF ValidServiceName, Last
<1>2. BaseName(name) = Tail(name) /\ Len(Tail(name)) = 1 /\ Tail(name)[1] = name[2]
  <2>1. BaseName(name) = Tail(name)
    BY <1>1 DEF BaseName
  <2>2. name \in Seq(Tokens)
    BY DEF Strings
  <2>3. ASSUME NEW S, NEW t \in Seq(S), Len(t) = 2
        PROVE  Len(Tail(t)) = 1 /\ Tail(t)[1] = t[2]
    BY <2>3
  <2>4. Len(Tail(name)) = 1 /\ Tail(name)[1] = name[2]
    BY <1>1, <2>2, <2>3, Zenon
  <2> QED BY <2>1, <2>4
<1>3. name[2] # Empty
  BY <1>1, NamesAssumption
<1>4. ASSUME name[2] \notin Reserved \cup TooLong PROVE ValidName(name)
  <2>1. name[2] \in DNSLabels \ (TooLong \cup Reserved \cup {Empty})
    BY <1>1, <1>3, <1>4
  <2> QED BY <1>2, <2>1 DEF ValidName
<1> QED BY <1>1, <1>4

LEMMA AdmittedAccepted ==
    ASSUME svc \in Services, NEW head \in Heads, Admitted(head, svc)
    PROVE  /\ SchemaAdmits(head, svc) <=>
                 \A j \in DOMAIN svc.backends : SchemaPriority(svc.backends[j])
           /\ \/ head.name = <<Empty>> \/ Last(head.name) \in Reserved \cup TooLong
              \/ \E j \in DOMAIN svc.ports : Last(svc.ports[j]) = Empty
              \/ ClientAccepts(head.name, head.tags, svc.ports)
           /\ \A j \in DOMAIN svc.ports :
                 Last(svc.ports[j]) \in Digits =>
                     /\ MappedPort(svc.ports[j]) \in SocketPorts
                     /\ ParsePort(svc.ports[j]) = MappedPort(svc.ports[j])
<1>1. PICK ports \in Seq(Strings) : ports = svc.ports
  BY ServiceLists
<1>2. PICK name \in Strings : name = head.name
  BY HeadsAssumption
<1>3. \A j \in DOMAIN ports : ports[j] \in Strings /\ ValidPortFormat(ports[j])
  BY <1>1 DEF Admitted, ValidVIP
<1>4. \A j \in DOMAIN ports :
          /\ Len(ports[j]) = 2 /\ ports[j][1] \in Protocols /\ Last(ports[j]) = ports[j][2]
          /\ ports[j][2] \in Digits => /\ MappedPort(ports[j]) \in SocketPorts
                                       /\ ParsePort(ports[j]) = MappedPort(ports[j])
  BY <1>3, AdmittedPort
<1>5. name = <<Empty>> \/ ValidServiceName(name)
  BY <1>2 DEF Admitted, ValidVIP
<1>6. \A t \in head.tags : Len(t) > 1
  BY DEF Admitted, ValidVIP, ValidTagFormat
<1>7. SchemaAdmits(head, svc) <=>
          \A j \in DOMAIN svc.backends : SchemaPriority(svc.backends[j])
  <2>1. head.name # <<Empty>> =>
            Len(head.name) = 2 /\ head.name[1] = "svc" /\ head.name[2] \in DNSLabels
    BY <1>2, <1>5, AdmittedName
  <2>2. svc.ports # <<>> /\ head.tags # {}
    BY DEF Admitted, ValidVIP
  <2>3. \A j \in DOMAIN svc.backends :
            /\ svc.backends[j].type \in {"kubernetes", "external", "tailscale"}
            /\ svc.backends[j].weight # None => svc.backends[j].weight \in 1..100
    BY DEF Admitted, ValidBackend, ValidWeight
  <2>4. head.proxy # None =>
            /\ head.proxy.replicas # None => head.proxy.replicas >= 1
            /\ head.proxy.type \in ConnectionTypes \cup {Empty}
    BY DEF Admitted, ValidProxy
  <2> QED BY <2>1, <2>2, <2>3, <2>4 DEF SchemaAdmits
<1>8. ASSUME name # <<Empty>>, Last(name) \notin Reserved \cup TooLong,
             \A j \in DOMAIN ports : Last(ports[j]) # Empty
      PROVE  ClientAccepts(name, head.tags, ports)
  <2>1. ValidName(name)
    BY <1>5, <1>8, AdmittedName
  <2>2. ASSUME NEW j \in DOMAIN ports PROVE ValidPort(ports[j])
    <3>1. PICK s \in Strings : s = ports[j]
      BY <1>3
    <3>2. Len(s) = 2 /\ s[1] \in Protocols /\ s[2] # Empty
      BY <1>4, <1>8, <3>1
    <3>3. s # <<s[1], Empty>>
      <4>1. <<s[1], Empty>>[2] = Empty
        OBVIOUS
      <4> QED BY <3>2, <4>1, Zenon
    <3>4. Len(s) > 1
      BY <3>2
    <3> QED BY <3>1, <3>2, <3>3, <3>4 DEF ValidPort
  <2>3. ASSUME NEW t \in head.tags PROVE t # <<Empty>>
    <3>1. Len(t) > 1 /\ Len(<<Empty>>) = 1 /\ ~(1 > 1)
      BY <1>6
    <3> QED BY <3>1, Zenon
  <2> QED BY <2>1, <2>2, <2>3 DEF ClientAccepts
<1>9. ASSUME NEW j \in DOMAIN ports, Last(ports[j]) \in Digits
      PROVE  MappedPort(ports[j]) \in SocketPorts /\ ParsePort(ports[j]) = MappedPort(ports[j])
  BY <1>4, <1>9, Zenon
<1> QED BY <1>1, <1>2, <1>7, <1>8, <1>9, Zenon

(* ValidateTailscaleService admits nothing that the schema forbids, but    *)
(* for negative priorities, all of which it forbids, or that               *)
(* ValidateVIPService refuses, but for names that are empty, reserved or   *)
(* too long and ports that are empty; and its ports of digits are ports.   *)
THEOREM AdmittedIsAcceptedByAll == Spec => []AdmittedIsAccepted
<1>1. IInv => AdmittedIsAccepted
  <2>1. SUFFICES ASSUME svc \in Services PROVE AdmittedIsAccepted
    BY DEF IInv, TypeOK
  <2> QED BY <2>1, AdmittedAccepted DEF AdmittedIsAccepted
<1> QED BY <1>1, EndpointInvariant, PTL
=============================================================================
