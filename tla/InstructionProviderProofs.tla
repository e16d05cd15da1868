---------------------- MODULE InstructionProviderProofs ----------------------
(***************************************************************************)
(* Theorems about InstructionProvider, for every set of files, every width *)
(* of addresses, every size of the ring and any number of translations and *)
(* pointers to them.                                                        *)
(***************************************************************************)
EXTENDS InstructionProvider, FiniteSetTheorems, TLAPS

\* Every set of numbers has a least one.
LEMMA Least ==
  ASSUME NEW S \in SUBSET Nat, S # {}
  PROVE  \E m \in S : \A k \in S : m <= k
<1>1. PICK m \in S : \A k \in S : ~ (<<k, m>> \in OpToRel(<, Nat))
  BY NatLessThanWellFounded, WFMin, Zenon
<1>2. \A k \in S : <<k, m>> \in OpToRel(<, Nat) <=> k < m
  BY DEF OpToRel
<1>3. m \in Nat /\ \A k \in S : ~(k < m) /\ k \in Nat BY <1>1, <1>2
<1>4. \A k \in S : m <= k BY <1>3
<1> QED BY <1>4

\* A number is the divisor times the quotient and the remainder.
LEMMA Division ==
  ASSUME NEW r \in Nat \ {0}, NEW a \in Nat
  PROVE  /\ a \div r \in Int /\ a % r \in 0 .. r - 1
         /\ a = r * (a \div r) + (a % r)
<1>1. a \div r \in Int /\ a % r \in 0 .. r - 1 BY SMT
<1>2. a = r * (a \div r) + (a % r) BY Z3
<1> QED BY <1>1, <1>2

\* Of so many numbers in a row, no two have the same remainder.
LEMMA Remainders ==
  ASSUME NEW r \in Nat \ {0}, NEW a \in Nat, NEW b \in Nat, a < b, b < a + r
  PROVE  a % r # b % r
<1> SUFFICES ASSUME a % r = b % r PROVE FALSE OBVIOUS
<1>1. PICK q \in Int : q = a \div r BY Division
<1>2. PICK p \in Int : p = b \div r BY Division
<1>3. PICK m \in 0 .. r - 1 : m = a % r BY Division
<1>4. a = r * q + m /\ b = r * p + m BY <1>1, <1>2, <1>3, Division
<1>5. CASE p <= q
  <2>1. r * p <= r * q BY <1>5, Z3
  <2> QED BY <1>4, <2>1, Z3
<1>6. CASE q + 1 <= p
  <2>1. r * (q + 1) <= r * p BY <1>6, Z3
  <2>2. r * (q + 1) = r * q + r BY Z3
  <2> QED BY <1>4, <2>1, <2>2, Z3
<1> QED BY <1>5, <1>6, SMT

\* The next number after them has the remainder of the first.
LEMMA NextRemainder ==
  ASSUME NEW r \in Nat \ {0}, NEW a \in Nat PROVE (a + r) % r = a % r
<1>1. PICK q \in Int : q = a \div r BY Division
<1>2. PICK m \in 0 .. r - 1 : m = a % r BY Division
<1>3. a + r = r * (q + 1) + m
  <2>1. a = r * q + m BY <1>1, <1>2, Division
  <2>2. r * (q + 1) = r * q + r BY Z3
  <2> QED BY <2>1, <2>2, Z3
<1>4. (r * (q + 1) + m) % r = m BY SMT
<1> QED BY <1>2, <1>3, <1>4

\* A sequence of anything is one of its elements, with one more as well.
LEMMA Appended ==
  ASSUME NEW S, NEW s \in Seq(S), NEW x
  PROVE  LET t == Append(s, x) IN
         /\ t \in Seq({t[k] : k \in DOMAIN t})
         /\ Len(s) \in Nat /\ DOMAIN s = 1 .. Len(s)
         /\ Len(t) = Len(s) + 1 /\ DOMAIN t = 1 .. Len(s) + 1
         /\ \A k \in DOMAIN s : t[k] = s[k]
         /\ t[Len(s) + 1] = x
<1> DEFINE t == Append(s, x)
<1>1. s \in Seq(S \cup {x}) OBVIOUS
<1>2. /\ t \in Seq(S \cup {x})
      /\ Len(s) \in Nat /\ DOMAIN s = 1 .. Len(s)
      /\ Len(t) = Len(s) + 1 /\ DOMAIN t = 1 .. Len(s) + 1
      /\ \A k \in DOMAIN s : t[k] = s[k]
      /\ t[Len(s) + 1] = x
  BY <1>1
<1>3. t \in Seq({t[k] : k \in DOMAIN t})
  <2> HIDE DEF t
  <2> QED BY <1>2
<1> QED BY <1>2, <1>3

-----------------------------------------------------------------------------
(* The invariant.                                                          *)

\* Everything that is pointed to has been translated, at some address.
TypeInv ==
  /\ made \in Seq({made[ni] : ni \in Translations})
  /\ cache__ \in [0 .. RingSize - 1 -> Translations \cup {Null}]
  /\ cache__index_ = Len(made)
  /\ held \subseteq Translations

Recent(ni) == ni > Len(made) - RingSize
Slot(ni) == (ni - 1) % RingSize

\* Of the translations, the ring has the last ones, each in its place.
RingInv ==
  /\ \A ni \in Translations : Recent(ni) => cache__[Slot(ni)] = ni
  /\ \A k \in 0 .. RingSize - 1 :
       cache__[k] # Null => Recent(cache__[k]) /\ Slot(cache__[k]) = k

\* The cache has what is alive.
CacheInv ==
  \A ni \in Alive : made[ni].address \in DOMAIN cache_ /\ cache_[made[ni].address] = ni

IInv == TypeInv /\ RingInv /\ CacheInv

LEMMA Facts ==
  ASSUME TypeInv
  PROVE  /\ Len(made) \in Nat /\ Translations = 1 .. Len(made)
         /\ Null \notin Translations
         /\ Alive \subseteq Translations
         /\ \A ni \in Translations : Slot(ni) \in 0 .. RingSize - 1
<1>1. Len(made) \in Nat /\ Translations = 1 .. Len(made)
  BY DEF TypeInv, Translations
<1>2. Null \notin Translations BY <1>1, NullAssumption
<1>3. Alive \subseteq Translations BY <1>2 DEF TypeInv, Alive
<1>4. ASSUME NEW ni \in Translations PROVE Slot(ni) \in 0 .. RingSize - 1
  <2>1. ni - 1 \in Nat BY <1>1, <1>4
  <2> QED BY <2>1, Division, RingAssumption DEF Slot
<1> QED BY <1>1, <1>2, <1>3, <1>4

LEMMA Initially == Init => IInv
<1> SUFFICES ASSUME Init PROVE IInv OBVIOUS
<1>1. made = <<>> /\ held = {} /\ cache__index_ = 0 BY DEF Init
<1>2. cache__ = [k \in 0 .. RingSize - 1 |-> Null] BY DEF Init
<1>3. Translations = {} /\ Len(made) = 0 BY <1>1 DEF Translations
<1>4. TypeInv BY <1>1, <1>2, <1>3 DEF TypeInv
<1>5. RingInv BY <1>2, <1>3 DEF RingInv
<1>6. Alive = {} BY <1>1, <1>2 DEF Alive
<1> QED BY <1>4, <1>5, <1>6 DEF IInv, CacheInv

-----------------------------------------------------------------------------
(* A translation is made.                                                  *)

LEMMA Made ==
  ASSUME IInv, NEW address, Make(address)
  PROVE  /\ Len(made') = Len(made) + 1 /\ Translations' = Translations \cup {Len(made) + 1}
         /\ made' \in Seq({made'[ni] : ni \in Translations'})
         /\ \A ni \in Translations : made'[ni] = made[ni]
         /\ made'[Len(made) + 1].address = address
         /\ cache__' = [cache__ EXCEPT ![Len(made) % RingSize] = Len(made) + 1]
         /\ Len(made) % RingSize \in 0 .. RingSize - 1
<1> DEFINE x == [address |-> address, code |-> Translated(Read(mappings, address))]
<1>1. made' = Append(made, x) BY DEF Make
<1>2. made \in Seq({made[ni] : ni \in Translations}) /\ cache__index_ = Len(made)
  BY DEF IInv, TypeInv
<1> HIDE DEF x
<1>3. /\ Len(made) \in Nat /\ Len(made') = Len(made) + 1
      /\ DOMAIN made = 1 .. Len(made) /\ DOMAIN made' = 1 .. Len(made) + 1
      /\ made' \in Seq({made'[ni] : ni \in DOMAIN made'})
      /\ \A ni \in DOMAIN made : made'[ni] = made[ni]
      /\ made'[Len(made) + 1] = x
  BY <1>1, <1>2, Appended
<1>4. Translations' = Translations \cup {Len(made) + 1} BY <1>3 DEF Translations
<1>5. x.address = address BY DEF x
<1>6. cache__' = [cache__ EXCEPT ![Len(made) % RingSize] = Len(made) + 1]
  BY <1>2 DEF Make
<1>7. Len(made) % RingSize \in 0 .. RingSize - 1 BY <1>3, Division, RingAssumption
<1> QED BY <1>3, <1>4, <1>5, <1>6, <1>7 DEF Translations

LEMMA MadeType ==
  ASSUME IInv, NEW address, Make(address), held' \subseteq held \cup {Len(made) + 1}
  PROVE  TypeInv'
<1>1. TypeInv /\ Len(made) \in Nat /\ Translations = 1 .. Len(made)
  BY Facts DEF IInv
<1>2. cache__' \in [0 .. RingSize - 1 -> Translations' \cup {Null}]
  BY <1>1, Made DEF TypeInv
<1>3. cache__index_' = Len(made') BY <1>1, Made DEF Make, TypeInv
<1>4. held' \subseteq Translations' BY <1>1, Made DEF TypeInv
<1> QED BY <1>2, <1>3, <1>4, Made DEF TypeInv

\* The oldest of the recent translations loses its place to the new one.
LEMMA MadeRing ==
  ASSUME IInv, NEW address, Make(address) PROVE RingInv'
<1> DEFINE new == Len(made) + 1
<1>1. /\ Len(made) \in Nat /\ Translations = 1 .. Len(made) /\ Null \notin Translations
      /\ cache__ \in [0 .. RingSize - 1 -> Translations \cup {Null}]
      /\ \A ni \in Translations : Slot(ni) \in 0 .. RingSize - 1
      /\ RingSize \in Nat \ {0}
  BY Facts, RingAssumption DEF IInv, TypeInv
<1>2. /\ Len(made') = new /\ Translations' = Translations \cup {new}
      /\ cache__' = [cache__ EXCEPT ![Len(made) % RingSize] = new]
      /\ Len(made) % RingSize \in 0 .. RingSize - 1
  BY Made
<1>3. Slot(new) = Len(made) % RingSize BY <1>1 DEF Slot
<1>4. cache__'[Slot(new)] = new BY <1>1, <1>2, <1>3
<1>5. \A k \in (0 .. RingSize - 1) \ {Slot(new)} : cache__'[k] = cache__[k]
  BY <1>1, <1>2, <1>3
<1>6. ASSUME NEW ni \in Translations', Recent(ni)' PROVE cache__'[Slot(ni)] = ni
  <2>1. CASE ni = new BY <1>4, <2>1
  <2>2. CASE ni \in Translations
    <3>1. ni \in Nat /\ ni > new - RingSize /\ ni < new
      BY <1>1, <1>2, <1>6, <2>2 DEF Recent
    <3>2. Slot(ni) # Slot(new)
      <4>1. ni - 1 \in Nat /\ ni - 1 < Len(made) /\ Len(made) < (ni - 1) + RingSize
        BY <1>1, <2>2, <3>1
      <4>2. (ni - 1) % RingSize # Len(made) % RingSize BY <1>1, <4>1, Remainders
      <4> QED BY <1>3, <4>2 DEF Slot
    <3>3. Recent(ni) BY <1>1, <3>1 DEF Recent
    <3>4. cache__[Slot(ni)] = ni BY <2>2, <3>3 DEF IInv, RingInv
    <3> QED BY <1>1, <1>5, <2>2, <3>2, <3>4
  <2> QED BY <1>2, <2>1, <2>2
<1>7. ASSUME NEW k \in 0 .. RingSize - 1, cache__'[k] # Null
      PROVE  cache__'[k] > Len(made') - RingSize /\ Slot(cache__'[k]) = k
  <2>1. CASE k = Slot(new)
    <3>1. new > Len(made') - RingSize BY <1>1, <1>2
    <3> QED BY <1>4, <2>1, <3>1
  <2>2. CASE k # Slot(new)
    <3>1. cache__'[k] = cache__[k] BY <1>5, <2>2
    <3>2. PICK ni \in Translations : ni = cache__[k] BY <1>1, <1>7, <3>1
    <3>3. Recent(ni) /\ Slot(ni) = k BY <1>7, <3>1, <3>2 DEF IInv, RingInv
    <3>4. ni # new - RingSize
      <4> SUFFICES ASSUME ni = new - RingSize PROVE FALSE OBVIOUS
      <4>1. ni - 1 \in Nat /\ Len(made) = (ni - 1) + RingSize BY <1>1
      <4>2. Len(made) % RingSize = (ni - 1) % RingSize BY <1>1, <4>1, NextRemainder
      <4> QED BY <1>3, <2>2, <3>3, <4>2 DEF Slot
    <3>5. ni > Len(made') - RingSize
      <4>1. ni \in Nat /\ ni > Len(made) - RingSize BY <1>1, <3>2, <3>3 DEF Recent
      <4>2. Len(made) \in Nat /\ RingSize \in Nat /\ Len(made') = Len(made) + 1
        BY <1>1, <1>2
      <4> QED BY <3>4, <4>1, <4>2
    <3> QED BY <3>1, <3>2, <3>3, <3>5
  <2> QED BY <2>1, <2>2
<1>8. \A ni \in Translations' : Recent(ni)' => cache__'[Slot(ni)] = ni BY <1>6
<1>9. \A k \in 0 .. RingSize - 1 :
        cache__'[k] # Null => cache__'[k] > Len(made') - RingSize /\ Slot(cache__'[k]) = k
  BY <1>7
<1> QED BY <1>8, <1>9 DEF RingInv, Slot, Recent

\* The entry that is written is of an address of which nothing was alive.
LEMMA MadeCache ==
  ASSUME IInv, NEW address, Lock(address) = Null, Make(address),
         held' \subseteq held \cup {Len(made) + 1}
  PROVE  CacheInv'
<1> DEFINE new == Len(made) + 1
<1>1. TypeInv /\ Null \notin Translations /\ Alive \subseteq Translations
  BY Facts DEF IInv
<1>2. Alive' \subseteq Alive \cup {new}
  BY <1>1, Made DEF Alive, TypeInv
<1>3. cache_' = [a \in DOMAIN cache_ \cup {address} |->
                   IF a = address THEN new ELSE cache_[a]]
  BY DEF Make
<1>4. ASSUME NEW ni \in Alive'
      PROVE  made'[ni].address \in DOMAIN cache_' /\ cache_'[made'[ni].address] = ni
  <2>1. CASE ni = new BY <1>3, <2>1, Made
  <2>2. CASE ni \in Alive
    <3>1. made'[ni].address = made[ni].address BY <1>1, <2>2, Made
    <3>2. made[ni].address \in DOMAIN cache_ /\ cache_[made[ni].address] = ni
      BY <2>2 DEF IInv, CacheInv
    <3>3. made[ni].address # address
      BY <1>1, <2>2, <3>2 DEF Lock
    <3> QED BY <1>3, <3>1, <3>2, <3>3
  <2> QED BY <1>2, <1>4, <2>1, <2>2
<1> QED BY <1>4 DEF CacheInv

-----------------------------------------------------------------------------
(* The theorems.                                                           *)

\* Nothing but what users hold has changed.
LEMMA HeldStep ==
  ASSUME IInv, UNCHANGED provider, held' \subseteq Alive PROVE IInv'
<1>1. Alive \subseteq Translations BY Facts DEF IInv
<1>2. UNCHANGED <<made, cache_, cache__, cache__index_>> BY DEF provider
<1>3. TypeInv' BY <1>1, <1>2 DEF IInv, TypeInv, Translations
<1>4. RingInv' BY <1>2 DEF IInv, RingInv, Translations, Recent
<1>5. Alive' \subseteq Alive BY <1>2 DEF Alive
<1>6. CacheInv' BY <1>2, <1>5 DEF IInv, CacheInv
<1> QED BY <1>3, <1>4, <1>6 DEF IInv

LEMMA NativeStep ==
  ASSUME IInv, NEW address, NativeInstruction(address),
         held' \subseteq held \cup ({Returned(address)} \ {Null})
  PROVE  IInv'
<1>1. held \subseteq Alive BY DEF Alive
<1>2. CASE Lock(address) # Null
  <2>1. Lock(address) \in Alive BY <1>2 DEF Lock
  <2>2. Returned(address) = Lock(address) BY <1>2 DEF Returned
  <2>3. held' \subseteq Alive BY <1>1, <2>1, <2>2
  <2>4. UNCHANGED provider BY <1>2 DEF NativeInstruction
  <2> QED BY <2>3, <2>4, HeldStep
<1>3. CASE Lock(address) = Null /\ executable(mappings, address)
  <2>1. Returned(address) = Len(made) + 1 BY <1>3 DEF Returned
  <2>2. held' \subseteq held \cup {Len(made) + 1} BY <2>1
  <2>3. Make(address) BY <1>3 DEF NativeInstruction
  <2> QED BY <1>3, <2>2, <2>3, MadeType, MadeRing, MadeCache DEF IInv
<1>4. CASE Lock(address) = Null /\ ~executable(mappings, address)
  <2>1. Returned(address) = Null BY <1>4 DEF Returned
  <2>2. UNCHANGED provider BY <1>4 DEF NativeInstruction
  <2> QED BY <1>1, <2>1, <2>2, HeldStep
<1> QED BY <1>2, <1>3, <1>4

LEMMA Step == IInv /\ [Next]_vars => IInv'
<1> SUFFICES ASSUME IInv, [Next]_vars PROVE IInv' OBVIOUS
<1>1. held \subseteq Alive BY DEF Alive
<1>2. ASSUME NEW address \in Address, Hold(address) PROVE IInv'
  <2>1. held' \subseteq held \cup ({Returned(address)} \ {Null}) BY <1>2 DEF Hold
  <2>2. NativeInstruction(address) BY <1>2 DEF Hold
  <2> QED BY <2>1, <2>2, NativeStep
<1>3. ASSUME NEW address \in Address, Instruction(address) PROVE IInv'
  <2>1. NativeInstruction(address) /\ held' = held BY <1>3 DEF Instruction
  <2> QED BY <2>1, NativeStep
<1>4. ASSUME NEW address \in Address, NEW offset \in 0 .. 1, NextInstruction(address, offset)
      PROVE  IInv'
  <2>1. NativeInstruction(address) /\ held' = held BY <1>4 DEF NextInstruction
  <2> QED BY <2>1, NativeStep
<1>5. ASSUME NEW address \in Address, NEW size \in 1 .. 2, Load(address, size) PROVE IInv'
  <2>1. UNCHANGED <<provider, held>> BY <1>5 DEF Load
  <2> QED BY <1>1, <2>1, HeldStep
<1>6. ASSUME NEW ni \in held, Drop(ni) PROVE IInv'
  <2>1. held' \subseteq held /\ UNCHANGED provider BY <1>6 DEF Drop
  <2> QED BY <1>1, <2>1, HeldStep
<1>7. CASE UNCHANGED vars
  <2>1. UNCHANGED <<provider, held>> BY <1>7 DEF vars
  <2> QED BY <1>1, <2>1, HeldStep
<1> QED BY <1>2, <1>3, <1>4, <1>5, <1>6, <1>7 DEF Next

LEMMA Inductive == Spec => []IInv
BY Initially, Step, PTL DEF Spec

\* Whatever is alive is what the cache finds at its address: no instruction is
\* translated again while the ring or a user has its translation.
THEOREM LiveAreCachedAlways == Spec => []LiveAreCached
<1>1. IInv => LiveAreCached
  <2> SUFFICES ASSUME IInv, NEW ni \in Alive PROVE Lock(made[ni].address) = ni
    BY DEF LiveAreCached
  <2> QED BY DEF IInv, CacheInv, Lock
<1> QED BY <1>1, Inductive, PTL

\* The ring keeps the last RingSize translations, and nothing else is kept but what
\* users hold.
THEOREM RecentKeptAlways == Spec => []RecentKept
<1>1. ASSUME IInv PROVE RecentKept
  <2>1. /\ Len(made) \in Nat /\ Translations = 1 .. Len(made) /\ Null \notin Translations
        /\ cache__ \in [0 .. RingSize - 1 -> Translations \cup {Null}]
        /\ \A ni \in Translations : Slot(ni) \in 0 .. RingSize - 1
    BY <1>1, Facts DEF IInv, TypeInv
  <2>2. {cache__[k] : k \in DOMAIN cache__} \ {Null}
          = {ni \in Translations : ni > Len(made) - RingSize}
    <3>1. ASSUME NEW ni \in Translations, Recent(ni)
          PROVE  ni \in {cache__[k] : k \in DOMAIN cache__} \ {Null}
      <4>1. cache__[Slot(ni)] = ni BY <1>1, <3>1 DEF IInv, RingInv
      <4> QED BY <2>1, <4>1
    <3>2. ASSUME NEW k \in DOMAIN cache__, cache__[k] # Null
          PROVE  cache__[k] \in Translations /\ Recent(cache__[k])
      BY <1>1, <2>1, <3>2 DEF IInv, RingInv
    <3> QED BY <3>1, <3>2 DEF Recent
  <2> QED BY <2>2 DEF RecentKept, Alive
<1> QED BY <1>1, Inductive, PTL

-----------------------------------------------------------------------------
(* The memory that users see.                                              *)

Space == 2 ^ AddressBits

\* What an access check looks at.
Granting(image, a, size) ==
  {k \in DOMAIN image : /\ image[k].address <= a
                        /\ Wrapped(a + size) <= Wrapped(End(image[k]))}

\* The mappings that have an address.
Having(image, a) ==
  {k \in DOMAIN image : /\ image[k].address <= a
                        /\ a - image[k].address < Len(image[k].data)}

LEMMA SpaceIs ==
  /\ Space \in Nat \ {0} /\ Address = 0 .. Space - 1
  /\ \A a \in 0 .. Space : Wrapped(a) = IF a = Space THEN 0 ELSE a
<1>1. Space \in Nat \ {0} /\ Address = 0 .. Space - 1
  BY AddressAssumption, Zenon DEF Space, Address
<1>2. ASSUME NEW s \in Nat \ {0}, NEW a \in 0 .. s PROVE (a % s) = IF a = s THEN 0 ELSE a
  <2>1. PICK q \in Int : q = a \div s BY Division
  <2>2. PICK m \in 0 .. s - 1 : m = a % s BY Division
  <2>3. a = s * q + m BY <2>1, <2>2, Division
  <2>4. CASE q <= 0 - 1
    <3>1. s * q <= s * (0 - 1) BY <2>4, Z3
    <3> QED BY <2>3, <3>1, Z3
  <2>5. CASE q = 0 BY <2>2, <2>3, <2>5, Z3
  <2>6. CASE q = 1 BY <2>2, <2>3, <2>6, Z3
  <2>7. CASE q >= 2
    <3>1. s * q >= s * 2 BY <2>7, Z3
    <3> QED BY <2>3, <3>1, Z3
  <2> QED BY <2>4, <2>5, <2>6, <2>7, SMT
<1>3. \A a : Wrapped(a) = (a % Space) BY Zenon DEF Wrapped, Space
<1> QED BY <1>1, <1>2, <1>3

LEMMA MappingIs ==
  ASSUME NEW image, Loadable(image), NEW k \in DOMAIN image
  PROVE  LET m == image[k] IN
         /\ k \in Nat /\ m.address \in Address /\ m.address \in Nat
         /\ m.data \in Seq(0 .. 255) /\ Len(m.data) \in Nat /\ m.permissions \subseteq Permission
         /\ End(m) = m.address + Len(m.data) /\ End(m) \in Nat
         /\ End(m) <= Space /\ Len(m.data) < Space
<1>1. image[k] \in [address : Address, data : Seq(0 .. 255), permissions : SUBSET Permission]
  <2> DEFINE S == [address : Address, data : Seq(0 .. 255), permissions : SUBSET Permission]
  <2>1. image \in Seq(S) BY Zenon DEF Loadable
  <2> HIDE DEF S
  <2>2. image[k] \in S BY <2>1
  <2> QED BY <2>2 DEF S
<1>2. image[k].address \in Nat BY <1>1, SpaceIs
<1>3. End(image[k]) <= Space /\ Len(image[k].data) < Space BY Zenon DEF Loadable, Space
<1>4. Len(image[k].data) \in Nat BY <1>1
<1>5. k \in Nat BY DEF Loadable
<1> QED BY <1>1, <1>2, <1>3, <1>4, <1>5 DEF End

\* There is no more than one mapping at an address.
LEMMA OneMapping ==
  ASSUME NEW image, Loadable(image), NEW a \in Nat, NEW j \in Having(image, a),
         NEW k \in Having(image, a)
  PROVE  j = k
<1>1. /\ j \in DOMAIN image /\ k \in DOMAIN image
      /\ image[j].address <= a /\ a - image[j].address < Len(image[j].data)
      /\ image[k].address <= a /\ a - image[k].address < Len(image[k].data)
  BY DEF Having
<1>2. /\ image[j].address \in Nat /\ Len(image[j].data) \in Nat
      /\ End(image[j]) = image[j].address + Len(image[j].data)
      /\ image[k].address \in Nat /\ Len(image[k].data) \in Nat
      /\ End(image[k]) = image[k].address + Len(image[k].data)
  BY <1>1, MappingIs
<1>3. j # k => End(image[j]) <= image[k].address \/ End(image[k]) <= image[j].address
  BY <1>1 DEF Loadable
<1> QED BY <1>1, <1>2, <1>3

\* The access check, which compares sums modulo Space, finds the mappings that the memory
\* of the abstract specification has around an access.
LEMMA GrantingIs ==
  ASSUME Loadable(mappings), NEW a \in Address, NEW size \in Nat, a + size < Space
  PROVE  Granting(mappings, a, size)
           = {k \in DOMAIN mappings : {a, a + size} \subseteq Memory!Within(mappings[k])}
<1> SUFFICES ASSUME NEW k \in DOMAIN mappings
             PROVE  (/\ mappings[k].address <= a
                     /\ Wrapped(a + size) <= Wrapped(End(mappings[k])))
                    <=> {a, a + size} \subseteq Memory!Within(mappings[k])
  BY DEF Granting
<1> DEFINE m == mappings[k]
<1>1. /\ m.address \in Nat /\ m.address \in Address /\ Len(m.data) \in Nat
      /\ End(m) = m.address + Len(m.data) /\ End(m) <= Space /\ Len(m.data) < Space
  BY MappingIs
<1>2. a \in Nat /\ Space \in Nat \ {0} BY SpaceIs
<1>3. Memory!End(m) = End(m) BY Zenon DEF Memory!End, End
<1>4. Memory!Within(m) = IF End(m) = Space THEN {} ELSE m.address .. End(m)
  BY <1>3, Zenon DEF Memory!Within, Space
<1>5. Wrapped(a + size) = a + size BY <1>2, SpaceIs
<1>6. Wrapped(End(m)) = IF End(m) = Space THEN 0 ELSE End(m) BY <1>1, <1>2, SpaceIs
<1> HIDE DEF m
<1>7. CASE End(m) = Space
  <2>1. ~(m.address <= a /\ a + size <= 0) BY <1>1, <1>2, <1>7
  <2> QED BY <1>4, <1>5, <1>6, <1>7, <2>1 DEF m
<1>8. CASE End(m) # Space
  <2>1. (m.address <= a /\ a + size <= End(m))
          <=> {a, a + size} \subseteq m.address .. End(m)
    BY <1>1, <1>2
  <2> QED BY <1>4, <1>5, <1>6, <1>8, <2>1 DEF m
<1> QED BY <1>7, <1>8

\* A stretch of one byte or more is in one mapping, the one that Read takes it from.
LEMMA StretchIs ==
  ASSUME Loadable(mappings), NEW a \in Nat, NEW count \in Nat \ {0}
  PROVE  /\ Memory!Holding(a, count) # {} =>
              /\ Len(Read(mappings, a)) \in Nat /\ count <= Len(Read(mappings, a))
              /\ SubSeq(Read(mappings, a), 1, count) = Memory!Stretch(a, count)
         /\ Memory!Holding(a, count) = {} =>
              Len(Read(mappings, a)) \in Nat /\ Len(Read(mappings, a)) < count
<1> DEFINE S == Having(mappings, a)
           data(k) == mappings[k].data
           at(k) == a - mappings[k].address
<1>1. ASSUME NEW k \in S
      PROVE  /\ S = {k} /\ k \in DOMAIN mappings
             /\ Read(mappings, a) = SubSeq(data(k), at(k) + 1, Len(data(k)))
  <2>1. S = {k} BY OneMapping
  <2>2. k \in Nat /\ k \in DOMAIN mappings
    <3>1. k \in DOMAIN mappings BY DEF Having
    <3> QED BY <3>1, MappingIs
  <2>3. Max({k}) = k BY <2>2 DEF Max
  <2>4. Read(mappings, a) = LET last == mappings[Max(S)]
                            IN  IF S = {} THEN <<>>
                                ELSE SubSeq(last.data, a - last.address + 1, Len(last.data))
    BY Zenon DEF Read, Having
  <2> HIDE DEF S
  <2> QED BY <2>1, <2>2, <2>3, <2>4
<1>2. S = {} => Read(mappings, a) = <<>> BY Zenon DEF Read, Having
<1>3. ASSUME NEW k \in S
      PROVE  /\ Len(Read(mappings, a)) = Len(data(k)) - at(k)
             /\ Read(mappings, a) = [j \in 1 .. Len(data(k)) - at(k) |-> data(k)[at(k) + j]]
             /\ at(k) \in Nat /\ at(k) < Len(data(k)) /\ Len(data(k)) \in Nat
             /\ End(mappings[k]) = mappings[k].address + Len(data(k))
             /\ mappings[k].address \in Nat /\ mappings[k].address <= a
  <2>1. k \in DOMAIN mappings /\ mappings[k].address <= a /\ at(k) < Len(data(k))
    BY DEF Having
  <2>2. /\ mappings[k].address \in Nat /\ data(k) \in Seq(0 .. 255) /\ Len(data(k)) \in Nat
        /\ End(mappings[k]) = mappings[k].address + Len(data(k))
    BY <2>1, MappingIs
  <2>3. at(k) \in Nat BY <2>1, <2>2
  <2>4. Read(mappings, a) = SubSeq(data(k), at(k) + 1, Len(data(k))) BY <1>1
  <2>5. ASSUME NEW s \in Seq(0 .. 255), NEW i \in Nat, i < Len(s)
        PROVE  /\ Len(SubSeq(s, i + 1, Len(s))) = Len(s) - i
               /\ SubSeq(s, i + 1, Len(s)) = [j \in 1 .. Len(s) - i |-> s[i + j]]
    <3> DEFINE r == SubSeq(s, i + 1, Len(s))
    <3>1. Len(s) \in Nat BY <2>5
    <3>2. Len(r) = Len(s) - i /\ DOMAIN r = 1 .. Len(s) - i BY <2>5, <3>1
    <3>3. \A j \in 1 .. Len(s) - i : r[j] = s[i + j]
      <4> SUFFICES ASSUME NEW j \in 1 .. Len(s) - i PROVE r[j] = s[i + j] OBVIOUS
      <4>1. r[j] = s[(i + 1) + j - 1] BY <2>5, <3>1
      <4>2. (i + 1) + j - 1 = i + j BY <3>1
      <4> QED BY <4>1, <4>2
    <3>5. r = [j \in DOMAIN r |-> r[j]]
      <4>1. r = [j \in 1 .. (Len(s) - (i + 1) + 1) |-> s[j + (i + 1) - 1]] BY <2>5, <3>1
      <4> HIDE DEF r
      <4> QED BY <4>1
    <3> HIDE DEF r
    <3> QED BY <3>2, <3>3, <3>5 DEF r
  <2> HIDE DEF data, at
  <2>6. /\ Len(SubSeq(data(k), at(k) + 1, Len(data(k)))) = Len(data(k)) - at(k)
        /\ SubSeq(data(k), at(k) + 1, Len(data(k)))
             = [j \in 1 .. Len(data(k)) - at(k) |-> data(k)[at(k) + j]]
    BY <2>1, <2>2, <2>3, <2>5
  <2> QED BY <2>1, <2>2, <2>3, <2>4, <2>6
<1>4. ASSUME NEW k
      PROVE  k \in Memory!Holding(a, count) <=>
               k \in S /\ count <= Len(data(k)) - at(k)
  <2>1. k \in Memory!Holding(a, count) <=>
          /\ k \in DOMAIN mappings /\ mappings[k].address <= a
          /\ a + count <= mappings[k].address + Len(data(k))
    BY DEF Memory!Holding, Memory!End
  <2>2. k \in S <=> k \in DOMAIN mappings /\ mappings[k].address <= a /\ at(k) < Len(data(k))
    BY DEF Having
  <2>3. k \in DOMAIN mappings => mappings[k].address \in Nat /\ Len(data(k)) \in Nat
    BY MappingIs
  <2> QED BY <2>1, <2>2, <2>3
<1>5. ASSUME Memory!Holding(a, count) # {}
      PROVE  /\ Len(Read(mappings, a)) \in Nat /\ count <= Len(Read(mappings, a))
             /\ SubSeq(Read(mappings, a), 1, count) = Memory!Stretch(a, count)
  <2>1. PICK k \in Memory!Holding(a, count) : TRUE BY <1>5
  <2>2. k \in S /\ count <= Len(data(k)) - at(k) BY <1>4
  <2>3. Memory!Holding(a, count) = {k} BY <1>1, <1>4, <2>2
  <2>4. (CHOOSE j \in Memory!Holding(a, count) : TRUE) = k BY <2>3
  <2>5. Memory!Stretch(a, count) = [j \in 1 .. count |-> data(k)[at(k) + j]]
    BY <2>4 DEF Memory!Stretch
  <2>6. Len(Read(mappings, a)) \in Nat /\ count <= Len(Read(mappings, a)) BY <1>3, <2>2
  <2>7. SubSeq(Read(mappings, a), 1, count) = [j \in 1 .. count |-> data(k)[at(k) + j]]
    <3> DEFINE n == Len(data(k)) - at(k)
               e(j) == data(k)[at(k) + j]
               r == [j \in 1 .. n |-> e(j)]
    <3>1. n \in Nat /\ count <= n BY <1>3, <2>2
    <3>2. Read(mappings, a) = r BY <1>3, <2>2
    <3> HIDE DEF n, e
    <3>3. SubSeq(r, 1, count) = [j \in 1 .. count |-> e(j)]
      <4>1. SubSeq(r, 1, count) = [j \in 1 .. (1 + count - 1) |-> r[j + 1 - 1]]
        BY <3>1
      <4>2. 1 + count - 1 = count /\ \A j \in 1 .. count : j + 1 - 1 = j /\ r[j] = e(j)
        BY <3>1
      <4> HIDE DEF r
      <4> QED BY <4>1, <4>2
    <3> QED BY <3>2, <3>3 DEF e
  <2> QED BY <2>5, <2>6, <2>7
<1>6. ASSUME Memory!Holding(a, count) = {}
      PROVE  Len(Read(mappings, a)) \in Nat /\ Len(Read(mappings, a)) < count
  <2>1. CASE S = {} BY <1>2, <2>1
  <2>2. CASE S # {}
    <3>1. PICK k \in S : TRUE BY <2>2
    <3>2. ~(count <= Len(data(k)) - at(k)) BY <1>4, <1>6
    <3>3. /\ Len(Read(mappings, a)) = Len(data(k)) - at(k)
          /\ at(k) \in Nat /\ at(k) < Len(data(k)) /\ Len(data(k)) \in Nat
      BY <1>3
    <3> HIDE DEF data, at
    <3> QED BY <3>2, <3>3
  <2> QED BY <2>1, <2>2
<1> QED BY <1>5, <1>6

\* The mappings of an image are those of its file.
LEMMA LoadedIs ==
  ASSUME NEW file, Loadable(file) PROVE Loaded(file) = file
<1> DEFINE S == [address : Address, data : Seq(0 .. 255), permissions : SUBSET Permission]
           n == Len(file)
           F(g) == [k \in 0 .. n |-> IF k = 0 THEN <<>> ELSE AddMapping(g[k - 1], file[k])]
           h == [k \in 0 .. n |-> SubSeq(file, 1, k)]
           f == CHOOSE g : g = F(g)
<1>1. file \in Seq(S) BY Zenon DEF Loadable
<1> HIDE DEF S
<1>2. n \in Nat BY <1>1
<1>3. h = F(h)
  <2>1. ASSUME NEW k \in 0 .. n, k # 0
        PROVE  SubSeq(file, 1, k) = Append(SubSeq(file, 1, k - 1), file[k])
    <3> DEFINE s == SubSeq(file, 1, k - 1)
               t == SubSeq(file, 1, k)
    <3>1. k \in 1 .. n /\ k - 1 \in 0 .. n BY <1>2, <2>1
    <3>2. s = [j \in 1 .. (k - 1) - 1 + 1 |-> file[j + 1 - 1]] BY <1>1, <3>1
    <3>3. t = [j \in 1 .. k - 1 + 1 |-> file[j + 1 - 1]] BY <1>1, <3>1
    <3>4. s \in Seq(S) /\ Len(s) = k - 1 /\ file[k] \in S BY <1>1, <3>1
    <3>5. t \in Seq(S) /\ Len(t) = k BY <1>1, <3>1
    <3>6. Append(s, file[k]) \in Seq(S) /\ Len(Append(s, file[k])) = k BY <3>1, <3>4
    <3>7. \A j \in 1 .. k : Append(s, file[k])[j] = file[j]
      <4>1. \A j \in 1 .. (k - 1) : s[j] = file[j] BY <3>1, <3>2
      <4> HIDE DEF s
      <4> QED BY <3>1, <3>4, <4>1
    <3>8. \A j \in 1 .. k : t[j] = file[j] BY <3>1, <3>3
    <3> HIDE DEF s, t
    <3>9. t = Append(s, file[k]) BY <3>5, <3>6, <3>7, <3>8
    <3> QED BY <3>9 DEF s, t
  <2>2. SubSeq(file, 1, 0) = <<>> BY <1>1
  <2>3. ASSUME NEW k \in 0 .. n
        PROVE  h[k] = IF k = 0 THEN <<>> ELSE AddMapping(h[k - 1], file[k])
    <3>1. k # 0 => k - 1 \in 0 .. n BY <1>2
    <3> QED BY <2>1, <2>2, <3>1 DEF AddMapping
  <2>4. h = [k \in 0 .. n |-> h[k]] OBVIOUS
  <2> HIDE DEF h
  <2> QED BY <2>3, <2>4
<1>4. Loaded(file) = f[n] BY Zenon DEF Loaded
<1> HIDE DEF F, h
<1>5. f = F(f) BY <1>3, Zenon
<1> HIDE DEF f
<1>6. f = [k \in 0 .. n |-> IF k = 0 THEN <<>> ELSE AddMapping(f[k - 1], file[k])]
  BY <1>5 DEF F
<1>7. \A k \in 0 .. n : f[k] = h[k]
  <2> DEFINE D == {k \in 0 .. n : f[k] # h[k]}
  <2> SUFFICES ASSUME D # {} PROVE FALSE OBVIOUS
  <2>1. \A k \in 0 .. n : h[k] = IF k = 0 THEN <<>> ELSE AddMapping(h[k - 1], file[k])
    <3>1. h = [k \in 0 .. n |-> IF k = 0 THEN <<>> ELSE AddMapping(h[k - 1], file[k])]
      BY <1>3 DEF F
    <3> QED BY <3>1
  <2>2. PICK k \in D : \A j \in D : k <= j
    <3>1. D \in SUBSET Nat BY <1>2
    <3> HIDE DEF D
    <3> QED BY <3>1, Least
  <2>3. f[k] = IF k = 0 THEN <<>> ELSE AddMapping(f[k - 1], file[k]) BY <1>6, <2>2
  <2>4. k # 0 BY <2>1, <2>2, <2>3
  <2>5. k - 1 \in 0 .. n /\ ~(k <= k - 1) BY <1>2, <2>2, <2>4
  <2>6. f[k - 1] = h[k - 1] BY <2>2, <2>5
  <2>7. f[k] = h[k] BY <2>1, <2>2, <2>3, <2>4, <2>6
  <2> QED BY <2>2, <2>7
<1>8. h[n] = SubSeq(file, 1, n) BY <1>2 DEF h
<1>9. SubSeq(file, 1, n) = file
  <2>1. SubSeq(file, 1, n) = [j \in 1 .. n - 1 + 1 |-> file[j + 1 - 1]] BY <1>1, <1>2
  <2>2. file = [j \in 1 .. n |-> file[j]] BY <1>1, <1>2
  <2> HIDE DEF n
  <2>3. n - 1 + 1 = n /\ \A j \in 1 .. n : j + 1 - 1 = j BY <1>2
  <2> QED BY <1>2, <2>1, <2>2, <2>3
<1> QED BY <1>2, <1>4, <1>7, <1>8, <1>9

\* What is translated is the code at its address, which may be executed, and the cache
\* mixes up no addresses.
CodeInv ==
  /\ \A ni \in Translations :
       /\ executable(mappings, made[ni].address)
       /\ made[ni].code = Translated(Read(mappings, made[ni].address))
  /\ \A a \in DOMAIN cache_ : cache_[a] \in Translations /\ made[cache_[a]].address = a

MemoryInv == IInv /\ CodeInv /\ Loadable(mappings)

LEMMA InitMemory == Init => MemoryInv
<1> SUFFICES ASSUME Init PROVE MemoryInv OBVIOUS
<1>1. PICK file \in Files : mappings = Loaded(file) BY DEF Init
<1>2. Loadable(mappings) BY <1>1, FilesAssumption, LoadedIs
<1>3. made = <<>> /\ cache_ = <<>> BY DEF Init
<1>4. CodeInv BY <1>3 DEF CodeInv, Translations
<1> QED BY <1>2, <1>4, Initially DEF MemoryInv

\* A step that makes no translation, or one.
LEMMA MemoryStep ==
  ASSUME MemoryInv, IInv', mappings' = mappings,
         UNCHANGED provider \/ \E a \in Address : NativeInstruction(a)
  PROVE  MemoryInv'
<1>1. CASE UNCHANGED provider
  <2>1. made' = made /\ cache_' = cache_ BY <1>1 DEF provider
  <2>2. CodeInv' BY <2>1 DEF MemoryInv, CodeInv, Translations
  <2> QED BY <2>2 DEF MemoryInv
<1>2. ASSUME NEW a \in Address, executable(mappings, a), Make(a) PROVE MemoryInv'
  <2> DEFINE ni == Len(made) + 1
             x == [address |-> a, code |-> Translated(Read(mappings, a))]
  <2>1. IInv /\ CodeInv BY DEF MemoryInv
  <2>2. /\ Translations' = Translations \cup {ni}
        /\ \A k \in Translations : made'[k] = made[k]
    BY <1>2, <2>1, Made
  <2>3. made'[ni] = x
    <3>1. made' = Append(made, x) BY <1>2 DEF Make
    <3>2. made \in Seq({made[k] : k \in Translations}) BY <2>1 DEF IInv, TypeInv
    <3> HIDE DEF x
    <3> QED BY <3>1, <3>2, Appended
  <2>4. x.address = a /\ x.code = Translated(Read(mappings, a)) OBVIOUS
  <2>5. cache_' = [b \in DOMAIN cache_ \cup {a} |-> IF b = a THEN ni ELSE cache_[b]]
    BY <1>2 DEF Make
  <2> HIDE DEF ni, x
  <2>6. ASSUME NEW k \in Translations'
        PROVE  /\ executable(mappings, made'[k].address)
               /\ made'[k].code = Translated(Read(mappings, made'[k].address))
    <3>1. CASE k = ni BY <1>2, <2>3, <2>4, <3>1
    <3>2. CASE k \in Translations BY <2>1, <2>2, <3>2 DEF CodeInv
    <3> QED BY <2>2, <3>1, <3>2
  <2>7. ASSUME NEW b \in DOMAIN cache_'
        PROVE  cache_'[b] \in Translations' /\ made'[cache_'[b]].address = b
    <3>1. CASE b = a BY <2>2, <2>3, <2>4, <2>5, <3>1
    <3>2. CASE b # a
      <4>1. b \in DOMAIN cache_ /\ cache_'[b] = cache_[b] BY <2>5, <2>7, <3>2
      <4> QED BY <2>1, <2>2, <4>1 DEF CodeInv
    <3> QED BY <3>1, <3>2
  <2>8. Loadable(mappings)' BY DEF MemoryInv
  <2>9. CodeInv' BY <2>6, <2>7 DEF CodeInv
  <2> QED BY <2>8, <2>9 DEF MemoryInv
<1> QED BY <1>1, <1>2 DEF NativeInstruction

LEMMA NextMemory == ASSUME MemoryInv, [Next]_vars PROVE MemoryInv'
<1>1. IInv' BY Step DEF MemoryInv
<1>2. mappings' = mappings BY DEF Next, vars
<1>3. UNCHANGED provider \/ \E a \in Address : NativeInstruction(a)
  BY DEF Next, vars, Hold, Drop, Instruction, NextInstruction, Load
<1> QED BY <1>1, <1>2, <1>3, MemoryStep

\* What may be executed in the image may be executed in the memory.
LEMMA ExecutableIs ==
  ASSUME Loadable(mappings), NEW a \in Address
  PROVE  /\ executable(mappings, a) <=> Memory!Granted({a}, {"execute"})
         /\ executable(mappings, a) => Memory!CodeAt(a) = Translated(Read(mappings, a))
         /\ ~executable(mappings, a) => Memory!CodeAt(a) = Null
<1>1. a \in Nat /\ a + 0 = a /\ a < Space BY SpaceIs
<1>2. executable(mappings, a)
        <=> /\ Granting(mappings, a, 0) # {}
            /\ \A k \in Granting(mappings, a, 0) : {"execute"} \subseteq mappings[k].permissions
  BY Zenon DEF executable, AccessOk, Granting, End
<1>3. Granting(mappings, a, 0) = {k \in DOMAIN mappings : {a} \subseteq Memory!Within(mappings[k])}
  <2>1. Granting(mappings, a, 0)
          = {k \in DOMAIN mappings : {a, a + 0} \subseteq Memory!Within(mappings[k])}
    BY <1>1, GrantingIs
  <2> QED BY <1>1, <2>1
<1>4. executable(mappings, a) <=> Memory!Granted({a}, {"execute"})
  BY <1>2, <1>3, Zenon DEF Memory!Granted
<1>5. Memory!Granted({a}, {"execute"}) => Memory!CodeAt(a) = Translated(Read(mappings, a))
  <2>1. InstructionBytes \in Nat \ {0} BY InstructionAssumption
  <2>2. CASE Memory!Holding(a, InstructionBytes) = {}
    <3>1. Len(Read(mappings, a)) < InstructionBytes BY <1>1, <2>1, <2>2, StretchIs
    <3> QED BY <2>2, <3>1 DEF Memory!CodeAt, Translated
  <2>3. CASE Memory!Holding(a, InstructionBytes) # {}
    <3>1. /\ Len(Read(mappings, a)) \in Nat /\ InstructionBytes <= Len(Read(mappings, a))
          /\ SubSeq(Read(mappings, a), 1, InstructionBytes) = Memory!Stretch(a, InstructionBytes)
      BY <1>1, <2>1, <2>3, StretchIs
    <3>2. ~(Len(Read(mappings, a)) < InstructionBytes) BY <2>1, <3>1
    <3> QED BY <2>3, <3>1, <3>2 DEF Memory!CodeAt, Translated
  <2> QED BY <2>2, <2>3
<1>6. ~Memory!Granted({a}, {"execute"}) => Memory!CodeAt(a) = Null BY DEF Memory!CodeAt
<1> QED BY <1>4, <1>5, <1>6

\* Cached, new or none, a translation is that of the code at its address.
LEMMA CodeReturned ==
  ASSUME MemoryInv, NEW a \in Address, NativeInstruction(a)
  PROVE  Code(Returned(a)) = Memory!CodeAt(a)
<1>1. IInv /\ CodeInv /\ Loadable(mappings) BY DEF MemoryInv
<1>2. Null \notin Translations /\ Len(made) \in Nat /\ Translations = 1 .. Len(made)
  BY <1>1, Facts DEF IInv
<1>3. CASE Lock(a) # Null
  <2>1. a \in DOMAIN cache_ /\ Returned(a) = cache_[a] BY <1>3 DEF Lock, Returned
  <2>2. /\ cache_[a] \in Translations /\ made[cache_[a]].address = a
        /\ executable(mappings, a) /\ made[cache_[a]].code = Translated(Read(mappings, a))
    BY <1>1, <2>1 DEF CodeInv
  <2>3. made' = made BY <1>3 DEF NativeInstruction, provider
  <2>4. Code(Returned(a)) = Translated(Read(mappings, a))
    BY <1>2, <2>1, <2>2, <2>3 DEF Code
  <2> QED BY <1>1, <2>2, <2>4, ExecutableIs
<1>4. CASE Lock(a) = Null /\ executable(mappings, a)
  <2> DEFINE ni == Len(made) + 1
             x == [address |-> a, code |-> Translated(Read(mappings, a))]
  <2>1. Returned(a) = ni /\ made' = Append(made, x)
    BY <1>4 DEF Returned, NativeInstruction, Make
  <2>2. made \in Seq({made[k] : k \in Translations}) BY <1>1 DEF IInv, TypeInv
  <2>3. x.code = Translated(Read(mappings, a)) OBVIOUS
  <2> HIDE DEF x
  <2>4. made'[ni] = x BY <2>1, <2>2, Appended
  <2>5. ni # Null BY <1>2, NullAssumption
  <2>6. Code(Returned(a)) = Translated(Read(mappings, a))
    BY <2>1, <2>3, <2>4, <2>5 DEF Code
  <2> QED BY <1>1, <1>4, <2>6, ExecutableIs
<1>5. CASE Lock(a) = Null /\ ~executable(mappings, a)
  <2>1. Code(Returned(a)) = Null BY <1>5 DEF Returned, Code
  <2> QED BY <1>1, <1>5, <2>1, ExecutableIs
<1> QED BY <1>3, <1>4, <1>5

\* A load gives what the file has there if the memory may be read and written from its
\* first place to the one behind its last, and nothing that is known otherwise.
LEMMA LoadIs ==
  ASSUME Loadable(mappings), NEW a \in Address, NEW size \in 1 .. 2, Load(a, size)
  PROVE  Memory!Loaded(a, size)
<1> DEFINE bytes == Read(mappings, a)
           may == readable(mappings, a, size) /\ writable(mappings, a, size)
           given == IF may
                    THEN IF Len(bytes) < size THEN Undefined ELSE SubSeq(bytes, 1, size)
                    ELSE Unknown
           G == Granting(mappings, a, size)
           there == IF Memory!Granted({a, a + size}, {"read", "write"})
                    THEN Memory!Stretch(a, size) ELSE Unknown
<1>1. answer' = <<"data", a, given>> BY Zenon DEF Load
<1>2. a \in Nat /\ size \in Nat \ {0} /\ size \in Nat BY SpaceIs
<1>3. ASSUME a + size < Space PROVE given = there
  <2>1. G = {k \in DOMAIN mappings : {a, a + size} \subseteq Memory!Within(mappings[k])}
    BY <1>2, <1>3, GrantingIs
  <2>2. may <=> /\ G # {}
                /\ \A k \in G : /\ {"read"} \subseteq mappings[k].permissions
                                /\ {"write"} \subseteq mappings[k].permissions
    BY DEF readable, writable, AccessOk, Granting, End
  <2>3. Memory!Granted({a, a + size}, {"read", "write"})
          <=> G # {} /\ \A k \in G : {"read", "write"} \subseteq mappings[k].permissions
    BY <2>1, Zenon DEF Memory!Granted
  <2>4. may <=> Memory!Granted({a, a + size}, {"read", "write"})
    <3> HIDE DEF may, G
    <3> QED BY <2>2, <2>3
  <2>5. ASSUME may
        PROVE  /\ ~(Len(bytes) < size) /\ SubSeq(bytes, 1, size) = Memory!Stretch(a, size)
    <3>1. PICK k \in DOMAIN mappings : {a, a + size} \subseteq Memory!Within(mappings[k])
      BY <2>1, <2>2, <2>5
    <3>2. Memory!End(mappings[k]) = End(mappings[k]) BY Zenon DEF Memory!End, End
    <3>3. {a, a + size} \subseteq mappings[k].address .. End(mappings[k])
      BY <3>1, <3>2 DEF Memory!Within
    <3>4. mappings[k].address \in Nat /\ End(mappings[k]) \in Nat
      BY MappingIs
    <3>5. mappings[k].address <= a /\ a + size <= End(mappings[k])
      BY <1>2, <3>3, <3>4
    <3>6. Memory!Holding(a, size) # {} BY <3>2, <3>5 DEF Memory!Holding
    <3>7. /\ Len(bytes) \in Nat /\ size <= Len(bytes)
          /\ SubSeq(bytes, 1, size) = Memory!Stretch(a, size)
      BY <1>2, <3>6, StretchIs
    <3> QED BY <1>2, <3>7
  <2> HIDE DEF may, bytes
  <2> QED BY <2>4, <2>5
<1> HIDE DEF given
<1>4. answer'[3] = given BY <1>1
<1>5. a + size < 2 ^ AddressBits => given = there BY <1>3, Zenon DEF Space
<1> HIDE DEF there
<1>6. /\ answer' = <<"data", a, answer'[3]>>
      /\ a + size < 2 ^ AddressBits => answer'[3] = there
  BY <1>1, <1>4, <1>5
<1> QED BY <1>6, Zenon DEF Memory!Loaded, there

LEMMA StepOfMemory == ASSUME MemoryInv, [Next]_vars PROVE [Memory!Next]_(Memory!vars)
<1>1. Loadable(mappings) /\ mappings' = mappings BY DEF MemoryInv, Next, vars
<1>2. Address = 0 .. 2 ^ AddressBits - 1 BY Zenon DEF Address
<1>3. ASSUME NEW a \in Address, NativeInstruction(a),
             answer' = <<"code", a, Code(Returned(a))>>
      PROVE  Memory!Next
  <2>1. Memory!Fetch(a) BY <1>3, CodeReturned DEF Memory!Fetch
  <2> QED BY <1>1, <1>2, <2>1 DEF Memory!Next
<1>4. ASSUME NEW a \in Address, NEW offset \in 0 .. 1, NextInstruction(a, offset)
      PROVE  Memory!Next
  <2> DEFINE code == Code(Returned(a))
  <2>1. NativeInstruction(a) /\ executable(mappings, a) BY <1>4 DEF NextInstruction
  <2>2. code = Memory!CodeAt(a) BY <2>1, CodeReturned
  <2>3. ReilSize(code) = Memory!ReilLength(code) BY DEF ReilSize, Memory!ReilLength
  <2> HIDE DEF code
  <2>4. /\ offset < ReilSize(code)
        /\ answer' = IF offset + 1 < ReilSize(code) THEN <<"node", a, offset + 1>>
                     ELSE <<"node", NextNativeInstruction(a), 0>>
    BY <1>4 DEF NextInstruction, code
  <2>5. NextNativeInstruction(a) = ((a + InstructionBytes) % 2 ^ AddressBits)
    BY <2>1, Zenon DEF NextNativeInstruction, Wrapped
  <2>6. Memory!Granted({a}, {"execute"}) BY <1>1, <2>1, ExecutableIs
  <2>7. Memory!After(a, offset) BY <2>2, <2>3, <2>4, <2>5, <2>6, Zenon DEF Memory!After
  <2> QED BY <1>1, <1>2, <2>7 DEF Memory!Next
<1>5. ASSUME NEW a \in Address, NEW size \in 1 .. 2, Load(a, size) PROVE Memory!Next
  <2>1. Memory!Loaded(a, size) BY <1>1, <1>5, LoadIs
  <2> QED BY <1>1, <1>2, <2>1 DEF Memory!Next
<1>6. ASSUME NEW ni \in held, Drop(ni) PROVE UNCHANGED Memory!vars
  BY <1>1, <1>6 DEF Drop, Memory!vars
<1>7. CASE UNCHANGED vars BY <1>7 DEF vars, Memory!vars
<1> QED BY <1>3, <1>4, <1>5, <1>6, <1>7 DEF Next, Hold, Instruction

\* Users of an image and its instruction provider see a memory without a history:
\* whether an instruction comes from the cache, is translated again or is held by
\* somebody else makes no difference to any answer.
THEOREM ProviderIsMemory == Spec => ImplementsMemory
<1>1. MemoryInv /\ [Next]_vars => MemoryInv' BY NextMemory
<1>2. MemoryInv /\ [Next]_vars => [Memory!Next]_(Memory!vars) BY StepOfMemory
<1> QED BY <1>1, <1>2, InitMemory, PTL DEF Spec, ImplementsMemory, Memory!Spec
=============================================================================
