-------------------------- MODULE CborUploadProofs --------------------------
(***************************************************************************)
(* Theorems about CborUpload, for every message, every size of the counts   *)
(* that CborAssumption allows and every set of lengths in map headers: the  *)
(* decoder accepts upload requests only, with their members as its result,  *)
(* its backups nest as the grammar does, every alternative is tried from    *)
(* where its member starts, and, with the four states that the code has, it *)
(* rejects no upload request.                                               *)
(***************************************************************************)
EXTENDS CborUploadProps, SequenceTheorems, TLAPS

-----------------------------------------------------------------------------
(* The inductive invariant. Between two members the position in the payload *)
(* and the count of elements to come are those of the members read so far;  *)
(* inside a member the newest backup holds them instead.                    *)

\* cbor_state_t, as far as a backup keeps it.
Saved == [payload : Nat, elem_count : Nat]

Pcs == {"map_start", "member", "key", "value", "union_end", "multi_end", "done"}

TypeInv ==
    /\ message \in Seq(Items) /\ complete \in BOOLEAN
    /\ pc \in Pcs
    /\ payload \in Nat /\ elem_count \in Nat
    /\ backups \in Seq(Saved)
    /\ alt \in DOMAIN Alternatives /\ int_res \in BOOLEAN
    /\ members \in Seq(DOMAIN Alternatives) /\ Len(members) <= MaxMembers
    /\ ret \in BOOLEAN

\* The elements that the map of m announces: its keys and its values.
Total(m) ==
    IF m = <<>> THEN IndetLen
    ELSE IF m[1].n = IndetLen THEN IndetLen ELSE 2 * m[1].n

\* The header of the map was accepted. An empty payload passes for one of
\* indeterminate length.
Opened ==
    IF message = <<>>
       THEN complete
       ELSE /\ message[1].is = "map"
            /\ message[1].n = IndetLen \/ ~INDET_LEN(2 * message[1].n)

\* The message continues with the members decoded so far.
Read ==
    /\ members # <<>> => Len(message) >= 1 + 2 * Len(members)
    /\ \A k \in 1..Len(members) : IsPair(message, 2 * k, members[k])

\* The position p and count e stand `items` behind the members read so far.
Stands(p, e, items) ==
    /\ p = 1 + 2 * Len(members) + items
    /\ e + 2 * Len(members) + items = Total(message)

\* What follows the members read so far is not alternative a: the map is at
\* its end, or the payload is, or the key or the value is another item.
NotMember(a) ==
    LET key == 2 + 2 * Len(members) IN
    \/ Total(message) = 2 * Len(members)
    \/ complete /\ Len(message) <= key
    \/ key <= Len(message) /\ message[key].is # KeyOf(a)
    \/ key < Len(message) /\ message[key + 1].is # TypeOf(a)

NoMember == \A a \in DOMAIN Alternatives : NotMember(a)

\* What holds at each of the decoding functions.
AtMapStart ==
    pc = "map_start" =>
        /\ payload = 0 /\ elem_count = 1 /\ backups = <<>> /\ members = <<>>

InMap ==
    pc \in {"member", "key", "value", "union_end", "multi_end"} => Opened /\ Read

BetweenMembers ==
    pc \in {"member", "multi_end"} =>
        Len(backups) = 1 /\ Stands(payload, elem_count, 0)

InMember ==
    pc \in {"key", "value", "union_end"} =>
        /\ Len(backups) = 2 /\ Len(members) < MaxMembers
        /\ Stands(Newest.payload, Newest.elem_count, 0)

AtKey == pc = "key" => Stands(payload, elem_count, 0)

AtValue ==
    pc = "value" => /\ Stands(payload, elem_count, 1)
                    /\ payload <= Len(message)
                    /\ message[payload].is = KeyOf(alt)

MemberRead ==
    pc = "union_end" /\ int_res =>
        /\ Stands(payload, elem_count, 2)
        /\ payload <= Len(message)
        /\ IsPair(message, payload - 1, alt)

Accepted ==
    pc = "done" /\ ret => /\ IsUpload(message, members, payload)
                          /\ backups = <<>>

Shape == /\ AtMapStart /\ InMap /\ BetweenMembers /\ InMember
         /\ AtKey /\ AtValue /\ MemberRead /\ Accepted

Inv == TypeInv /\ Shape

\* Every alternative given up so far was given up for a reason. This one
\* needs room for the backup of the union.
Tried ==
    /\ pc \in {"key", "value"} => \A a \in 1..(alt - 1) : NotMember(a)
    /\ pc = "union_end" /\ ~int_res => NoMember
    /\ pc = "multi_end" => Len(members) = MaxMembers \/ NoMember

-----------------------------------------------------------------------------
\* The five keys differ, and neither they nor the types of their values are
\* the break that ends a map.
LEMMA TheAlternatives ==
    /\ DOMAIN Alternatives = 1..5 /\ Len(Alternatives) = 5
    /\ \A a \in 1..5 : /\ KeyOf(a) \in Simple \ {"break", "map"}
                       /\ TypeOf(a) \in Simple \ {"break", "map"}
    /\ \A a, b \in 1..5 : KeyOf(a) = KeyOf(b) => a = b
<1>1. DOMAIN Alternatives = 1..5 /\ Len(Alternatives) = 5
  BY DEF Alternatives
<1>2. /\ KeyOf(1) = "image" /\ TypeOf(1) = "int"
      /\ KeyOf(2) = "data" /\ TypeOf(2) = "bstr"
      /\ KeyOf(3) = "len" /\ TypeOf(3) = "int"
      /\ KeyOf(4) = "off" /\ TypeOf(4) = "int"
      /\ KeyOf(5) = "sha" /\ TypeOf(5) = "bstr"
  BY DEF Alternatives, KeyOf, TypeOf
<1>3. \A a \in 1..5 : a = 1 \/ a = 2 \/ a = 3 \/ a = 4 \/ a = 5
  OBVIOUS
<1> QED
  BY <1>1, <1>2, <1>3 DEF Simple

\* The initial state of the decoder satisfies the invariant.
LEMMA InitInv == Init => Inv
<1> SUFFICES ASSUME Init PROVE Inv
  OBVIOUS
<1>1. <<>> \in Seq(Items) /\ <<>> \in Seq(Saved) /\ <<>> \in Seq(1..5)
      /\ Len(<<>>) <= MaxMembers /\ 1 \in 1..5 /\ 0 \in Nat /\ 1 \in Nat
  BY DEF MaxMembers
<1>2. TypeInv
  BY <1>1, TheAlternatives, Zenon DEF Init, TypeInv, Pcs
<1> QED
  BY <1>2 DEF Init, Inv, Shape, AtMapStart, InMap, BetweenMembers, InMember,
      AtKey, AtValue, MemberRead, Accepted

\* What the three operations on backups do to them.
LEMMA NewestSaved ==
    ASSUME TypeInv, HasBackup
    PROVE  Newest \in Saved /\ Newest.payload \in Nat /\ Newest.elem_count \in Nat
<1>1. backups \in Seq(Saved) /\ Len(backups) \in 1..Len(backups)
  BY DEF TypeInv, HasBackup
<1>2. Newest \in Saved
  BY <1>1 DEF Newest
<1> QED
  BY <1>2 DEF Saved

\* A backup taken is the newest.
LEMMA Pushed ==
    ASSUME TypeInv, NEW saved \in Saved, Push(saved)
    PROVE  /\ backups' \in Seq(Saved)
           /\ Len(backups') = Len(backups) + 1
           /\ Newest' = saved
  BY DEF TypeInv, Push, Newest

\* A backup consumed leaves one less.
LEMMA Popped ==
    ASSUME TypeInv, HasBackup, Pop
    PROVE  /\ backups' \in Seq(Saved)
           /\ Len(backups') = Len(backups) - 1
<1>1. backups \in Seq(Saved) /\ Len(backups) \in Nat \ {0}
  BY DEF TypeInv, HasBackup
<1>2. backups' = SubSeq(backups, 1, Len(backups) - 1)
  BY DEF Pop
<1> DEFINE n == Len(backups) - 1
<1>3. n \in Int /\ n >= 0 /\ \A i \in 1..n : backups[i] \in Saved
  BY <1>1
<1>4. backups' = SubSeq(backups, 1, n)
  BY <1>2
<1> HIDE DEF n
<1>5. /\ SubSeq(backups, 1, n) \in Seq(Saved)
      /\ Len(SubSeq(backups, 1, n)) = n
  BY <1>3, SubSeqProperties
<1> QED
  BY <1>4, <1>5 DEF n

\* An alternative that fails leads to the next, or to the end of the union.
LEMMA NextAlternativeType ==
    ASSUME TypeInv, NextAlternative
    PROVE  /\ pc' \in {"key", "union_end"}
           /\ payload' \in Nat /\ elem_count' \in Nat /\ backups' = backups
           /\ alt' \in DOMAIN Alternatives /\ int_res' \in BOOLEAN
<1> USE TheAlternatives DEF TypeInv
<1>1. CASE alt < Len(Alternatives) /\ HasBackup
  BY <1>1, NewestSaved DEF NextAlternative, Restore
<1>2. CASE ~(alt < Len(Alternatives) /\ HasBackup)
  BY <1>2 DEF NextAlternative, state
<1> QED
  BY <1>1, <1>2

\* An item consumed keeps the types: there was an element to come.
LEMMA ConsumeType ==
    ASSUME TypeInv, CanExtract, Consume
    PROVE  payload' \in Nat /\ elem_count' \in Nat /\ backups' = backups
  BY DEF TypeInv, CanExtract, Consume

\* The types are preserved by every step.
LEMMA TypeStep == Inv /\ [Next]_vars => TypeInv'
<1> SUFFICES ASSUME Inv, [Next]_vars PROVE TypeInv'
  OBVIOUS
<1>t. TypeInv
  BY DEF Inv
<1> USE TheAlternatives
<1>1. CASE MapStartIndet
  <2>1. [payload |-> payload + 1, elem_count |-> elem_count] \in Saved
    BY <1>t DEF TypeInv, Saved
  <2> QED
    BY <1>1, <1>t, <2>1, Pushed, CborAssumption DEF TypeInv, MapStartIndet, Pcs
<1>2. CASE MapStart
  <2>1. elem_count = 1 /\ payload = 0
    BY <1>2, <1>t DEF Inv, Shape, AtMapStart, MapStart
  <2>2. [payload |-> payload + 1, elem_count |-> elem_count - 1] \in Saved
    BY <2>1 DEF Saved
  <2>3. NextItem.n \in Nat
    <3>1. NextItem \in Items /\ NextItem.is = "map"
      BY <1>2, <1>t DEF TypeInv, MapStart, CanExtract, NextItem, AtEnd
    <3>2. NextItem \in [is : {"map"}, n : MapLengths \cup {IndetLen}]
      BY <3>1, Zenon DEF Items
    <3> QED
      BY <3>2, CborAssumption
  <2>4. backups' \in Seq(Saved)
    BY <1>2, <1>t, <2>2, Pushed DEF MapStart
  <2>5. /\ payload' \in Nat /\ elem_count' \in Nat
        /\ pc' \in Pcs /\ ret' \in BOOLEAN
    <3>1. CASE INDET_LEN(NextItem.n * 2)
      <4>1. payload' = payload /\ elem_count' = NextItem.n + 1
        BY <1>2, <3>1, Zenon DEF MapStart
      <4>2. pc' = "done" /\ ret' = FALSE
        BY <1>2, <3>1, Zenon DEF MapStart, Finish
      <4>3. payload' \in Nat /\ elem_count' \in Nat
        BY <2>1, <2>3, <4>1
      <4> QED
        BY <4>2, <4>3, Zenon DEF Pcs
    <3>2. CASE ~INDET_LEN(NextItem.n * 2)
      <4>1. payload' = payload + 1 /\ elem_count' = NextItem.n * 2
        BY <1>2, <3>2, Zenon DEF MapStart
      <4>2. pc' = "member" /\ ret' = ret
        BY <1>2, <3>2, Zenon DEF MapStart
      <4>3. payload' \in Nat /\ elem_count' \in Nat
        BY <2>1, <2>3, <4>1
      <4> QED
        BY <1>t, <4>2, <4>3, Zenon DEF Pcs, TypeInv
    <3> QED
      BY <3>1, <3>2
  <2> QED
    BY <1>2, <1>t, <2>4, <2>5 DEF TypeInv, MapStart
<1>3. CASE MapStartFails
  BY <1>3, <1>t DEF MapStartFails, TypeInv, Finish, state, Pcs
<1>4. CASE UnionStart
  <2>1. Current \in Saved
    BY <1>t DEF TypeInv, Saved, Current
  <2>2. backups' \in Seq(Saved)
    BY <1>4, <1>t, <2>1, Pushed DEF UnionStart, TypeInv
  <2> QED
    BY <1>4, <1>t, <2>2 DEF TypeInv, UnionStart, Pcs
<1>5. CASE Key
  BY <1>5, <1>t, NextAlternativeType, ConsumeType DEF TypeInv, Key, Pcs, Matches
<1>6. CASE Value
  BY <1>6, <1>t, NextAlternativeType, ConsumeType DEF TypeInv, Value, Pcs, Matches
<1>7. CASE UnionEnd
  <2>1. int_res => Len(members) < MaxMembers
    BY <1>7 DEF Inv, Shape, InMember, UnionEnd
  <2>2. members' \in Seq(DOMAIN Alternatives) /\ Len(members') <= MaxMembers
    <3>1. CASE int_res
      <4>1. members' = Append(members, alt)
        BY <1>7, <3>1 DEF UnionEnd
      <4>2. members \in Seq(1..5) /\ alt \in 1..5 /\ Len(members) < 5
        BY <1>t, <2>1, <3>1 DEF TypeInv, MaxMembers
      <4> QED
        BY <4>1, <4>2 DEF MaxMembers
    <3>2. CASE ~int_res
      BY <1>7, <1>t, <3>2 DEF UnionEnd, TypeInv
    <3> QED
      BY <3>1, <3>2
  <2>3. payload' \in Nat /\ elem_count' \in Nat /\ backups' \in Seq(Saved)
    BY <1>7, <1>t, NewestSaved, Popped DEF UnionEnd, TypeInv, Restore
  <2> QED
    BY <1>7, <1>t, <2>2, <2>3 DEF TypeInv, UnionEnd, Pcs
<1>8. CASE MultiFull
  BY <1>8, <1>t DEF MultiFull, TypeInv, state, Pcs
<1>9. CASE MapEnd
  <2>1. CASE INDET_LEN(elem_count) /\ NextItem.is # "break"
    BY <1>9, <1>t, <2>1 DEF MapEnd, Finish, TypeInv, Pcs, state
  <2>2. CASE ~(INDET_LEN(elem_count) /\ NextItem.is # "break")
    <3>1. EnoughMembers \in BOOLEAN
      BY DEF EnoughMembers
    <3>2. HasBackup /\ Pop /\ elem_count' = Newest.elem_count
      BY <1>9, <2>2 DEF MapEnd
    <3>3. payload' \in {payload, payload + 1, Newest.payload}
      BY <1>9, <2>2, Zenon DEF MapEnd
    <3>4. pc' = "done" /\ ret' \in BOOLEAN
      BY <1>9, <2>2, <3>1, Zenon DEF MapEnd, Finish
    <3>5. payload' \in Nat /\ elem_count' \in Nat /\ backups' \in Seq(Saved)
      BY <1>t, <3>2, <3>3, NewestSaved, Popped DEF TypeInv
    <3> QED
      BY <1>9, <1>t, <3>4, <3>5 DEF MapEnd, TypeInv, Pcs
  <2> QED
    BY <2>1, <2>2
<1>10. CASE RevealEnd
  BY <1>10, <1>t DEF RevealEnd, TypeInv, state
<1>11. ASSUME NEW item \in Items, Reveal(item) PROVE TypeInv'
  BY <1>11, <1>t DEF Reveal, TypeInv, state
<1>12. CASE UNCHANGED vars
  BY <1>12, <1>t DEF vars, state, TypeInv
<1> QED
  BY <1>1, <1>2, <1>3, <1>4, <1>5, <1>6, <1>7, <1>8, <1>9, <1>10, <1>11, <1>12
  DEF Next, Decode

-----------------------------------------------------------------------------
(* The rest of the invariant is preserved, one lemma per action. *)

\* The next item is one of the message, or there is none.
LEMMA FirstItem ==
    ASSUME TypeInv
    PROVE  /\ ~AtEnd => NextItem = message[payload + 1] /\ NextItem \in Items
           /\ AtEnd => NextItem.is = "nothing"
           /\ \A item \in Items : /\ item.is \in Simple
                                  /\ item.is = "map" => item.n \in Nat
<1>1. \A item \in Items : item.is \in Simple /\ (item.is = "map" => item.n \in Nat)
  <2> SUFFICES ASSUME NEW item \in Items
               PROVE  item.is \in Simple /\ (item.is = "map" => item.n \in Nat)
    OBVIOUS
  <2>1. CASE item \in [is : Simple \ {"map"}]
    BY <2>1 DEF Simple
  <2>2. CASE item \in [is : {"map"}, n : MapLengths \cup {IndetLen}]
    BY <2>2, CborAssumption DEF Simple
  <2> QED
    BY <2>1, <2>2 DEF Items
<1>2. ~AtEnd => NextItem = message[payload + 1] /\ NextItem \in Items
  BY DEF TypeInv, AtEnd, NextItem
<1> QED
  BY <1>1, <1>2 DEF NextItem

\* A map of indeterminate length is opened: any number of members may follow.
LEMMA MapStartIndetShape == Inv /\ MapStartIndet => Shape'
<1> SUFFICES ASSUME Inv, MapStartIndet PROVE Shape'
  OBVIOUS
<1>1. TypeInv /\ payload = 0 /\ backups = <<>> /\ members = <<>>
  BY DEF Inv, Shape, AtMapStart, MapStartIndet
<1>2. /\ pc' = "member" /\ members' = members
      /\ message' = message /\ complete' = complete
      /\ payload' = 1 /\ elem_count' = IndetLen
  BY <1>1, CborAssumption DEF MapStartIndet
<1>3. Opened /\ Total(message) = IndetLen
  <2>1. CASE message = <<>>
    BY <1>1, <2>1 DEF MapStartIndet, Known, AtEnd, Opened, Total
  <2>2. CASE message # <<>>
    <3>1. ~AtEnd
      BY <1>1, <2>2 DEF AtEnd, TypeInv
    <3>2. message[1].is = "map" /\ message[1].n = IndetLen
      BY <1>1, <3>1, FirstItem DEF MapStartIndet, Simple
    <3> QED
      BY <2>2, <3>2 DEF Opened, Total
  <2> QED
    BY <2>1, <2>2
<1>4. Len(backups') = 1
  BY <1>1 DEF MapStartIndet, Push
<1>5. Read' /\ Opened' /\ Stands(payload, elem_count, 0)'
  BY <1>1, <1>2, <1>3, CborAssumption DEF Read, Opened, Stands, Total, INDET_LEN
<1> QED
  BY <1>2, <1>4, <1>5 DEF Shape, AtMapStart, InMap, BetweenMembers, InMember,
      AtKey, AtValue, MemberRead, Accepted

\* A map of definite length is opened, or its doubled length is too large.
LEMMA MapStartShape == Inv /\ MapStart => Shape'
<1> SUFFICES ASSUME Inv, MapStart PROVE Shape'
  OBVIOUS
<1>1. TypeInv /\ payload = 0 /\ backups = <<>> /\ members = <<>>
  BY DEF Inv, Shape, AtMapStart, MapStart
<1>2. members' = members /\ message' = message
  BY DEF MapStart
<1>3. message # <<>> /\ NextItem = message[1]
      /\ NextItem.is = "map" /\ NextItem.n \in Nat
  BY <1>1, FirstItem DEF MapStart, CanExtract, AtEnd, TypeInv
<1>4. Len(backups') = 1
  BY <1>1 DEF MapStart, Push
<1>5. CASE INDET_LEN(NextItem.n * 2)
  <2>1. pc' = "done" /\ ret' = FALSE
    BY <1>5, Zenon DEF MapStart, Finish
  <2> QED
    BY <2>1 DEF Shape, AtMapStart, InMap, BetweenMembers, InMember,
      AtKey, AtValue, MemberRead, Accepted
<1>6. CASE ~INDET_LEN(NextItem.n * 2)
  <2>1. pc' = "member" /\ payload' = payload + 1 /\ elem_count' = NextItem.n * 2
    BY <1>6, Zenon DEF MapStart
  <2>2. NextItem.n # IndetLen
    BY <1>3, CborAssumption DEF MapStart, INDET_LEN
  <2>3. Read' /\ Opened'
    BY <1>1, <1>2, <1>3, <1>6 DEF Read, Opened, INDET_LEN
  <2>4. Stands(payload, elem_count, 0)'
    BY <1>1, <1>2, <1>3, <2>1, <2>2 DEF Stands, Total
  <2> QED
    BY <2>1, <1>4, <2>3, <2>4 DEF Shape, AtMapStart, InMap, BetweenMembers,
      InMember, AtKey, AtValue, MemberRead, Accepted
<1> QED
  BY <1>5, <1>6

\* No map: the decoder gives up.
LEMMA MapStartFailsShape == Inv /\ MapStartFails => Shape'
<1> SUFFICES ASSUME MapStartFails PROVE Shape'
  OBVIOUS
<1>1. pc' = "done" /\ ret' = FALSE
  BY Zenon DEF MapStartFails, Finish
<1> QED
  BY <1>1 DEF Shape, AtMapStart, InMap, BetweenMembers, InMember,
      AtKey, AtValue, MemberRead, Accepted

\* union_start_code takes the second backup: the boundary between members.
LEMMA UnionStartShape == Inv /\ UnionStart => Shape'
<1> SUFFICES ASSUME Inv, UnionStart PROVE Shape'
  OBVIOUS
<1>1. /\ TypeInv /\ pc = "member" /\ Len(members) < MaxMembers
      /\ Opened /\ Read /\ Len(backups) = 1 /\ Stands(payload, elem_count, 0)
  BY DEF Inv, Shape, InMap, BetweenMembers, UnionStart
<1>2. UNCHANGED <<message, complete, payload, elem_count, members>>
  BY DEF UnionStart
<1>3. Opened' /\ Read' /\ Stands(payload, elem_count, 0)'
  BY <1>1, <1>2 DEF Opened, Read, Stands
<1>4. CASE HasRoom
  <2>1. Push(Current) /\ pc' = "key"
    BY <1>4 DEF UnionStart
  <2>2. Current \in Saved /\ Current.payload = payload /\ Current.elem_count = elem_count
    BY <1>1 DEF TypeInv, Current, Saved
  <2>3. Len(backups') = 2 /\ Newest' = Current
    BY <1>1, <2>1, <2>2, Pushed
  <2>4. Stands(Newest.payload, Newest.elem_count, 0)'
    BY <1>1, <1>2, <2>2, <2>3 DEF Stands
  <2> QED
    BY <1>1, <1>2, <1>3, <2>1, <2>3, <2>4 DEF Shape, AtMapStart, InMap, BetweenMembers,
      InMember, AtKey, AtValue, MemberRead, Accepted
<1>5. CASE ~HasRoom
  BY <1>1, <1>3, <1>5 DEF UnionStart, Shape, AtMapStart, InMap, BetweenMembers,
      InMember, AtKey, AtValue, MemberRead, Accepted
<1> QED
  BY <1>4, <1>5

\* The next alternative starts from the newest backup.
LEMMA NextAlternativeShape ==
    ASSUME TypeInv, HasBackup, NextAlternative
    PROVE  \/ /\ pc' = "key"
              /\ payload' = Newest.payload /\ elem_count' = Newest.elem_count
           \/ pc' = "union_end" /\ int_res' = FALSE
<1>1. CASE alt < Len(Alternatives) /\ HasBackup
  BY <1>1 DEF NextAlternative, Restore
<1>2. CASE ~(alt < Len(Alternatives) /\ HasBackup)
  BY <1>2, Zenon DEF NextAlternative
<1> QED
  BY <1>1, <1>2

\* What the decoding of a key or a value does not touch.
LEMMA InMemberKept ==
    ASSUME Inv, pc \in {"key", "value"},
           UNCHANGED <<message, complete, members, backups>>
    PROVE  /\ HasBackup /\ Len(backups') = 2 /\ Len(members') < MaxMembers
           /\ Opened' /\ Read'
           /\ Stands(Newest.payload, Newest.elem_count, 0)
           /\ Stands(Newest.payload, Newest.elem_count, 0)'
<1>1. /\ Len(backups) = 2 /\ Len(members) < MaxMembers
      /\ Opened /\ Read /\ Stands(Newest.payload, Newest.elem_count, 0)
  BY DEF Inv, Shape, InMap, InMember
<1>2. Opened' /\ Read'
  BY <1>1 DEF Opened, Read
<1>3. Stands(Newest.payload, Newest.elem_count, 0)'
  BY <1>1 DEF Stands, Newest
<1> QED
  BY <1>1, <1>2, <1>3 DEF HasBackup

\* The key of an alternative.
LEMMA KeyShape == Inv /\ Key => Shape'
<1> SUFFICES ASSUME Inv, Key PROVE Shape'
  OBVIOUS
<1>1. /\ TypeInv /\ pc = "key" /\ Stands(payload, elem_count, 0)
      /\ UNCHANGED <<message, complete, members, ret>>
  BY DEF Inv, Shape, AtKey, Key
<1>2. CASE Matches(Alternatives[alt].key)
  <2>1. /\ CanExtract /\ ~AtEnd /\ message[payload + 1].is = KeyOf(alt)
        /\ payload' = payload + 1 /\ elem_count' = elem_count - 1
        /\ backups' = backups /\ pc' = "value" /\ alt' = alt
    BY <1>1, <1>2, FirstItem DEF Key, Consume, Matches, KeyOf, CanExtract
  <2>2. Stands(payload, elem_count, 1)' /\ payload' <= Len(message')
    BY <1>1, <2>1 DEF Stands, Total, TypeInv, CanExtract, AtEnd
  <2>3. message'[payload'].is = KeyOf(alt')
    BY <1>1, <2>1
  <2> QED
    BY <1>1, <2>1, <2>2, <2>3, InMemberKept
    DEF Shape, AtMapStart, InMap, BetweenMembers, InMember, AtKey, AtValue,
        MemberRead, Accepted
<1>3. CASE ~Matches(Alternatives[alt].key)
  <2>1. NextAlternative
    BY <1>3 DEF Key
  <2>2. backups' = backups
    BY <1>1, <2>1, NextAlternativeType
  <2>3. Stands(Newest.payload, Newest.elem_count, 0)
    BY <1>1, <2>2, InMemberKept
  <2>4. CASE /\ pc' = "key"
             /\ payload' = Newest.payload /\ elem_count' = Newest.elem_count
    <3>1. Stands(payload, elem_count, 0)'
      BY <1>1, <2>3, <2>4 DEF Stands
    <3> QED
      BY <1>1, <2>2, <2>4, <3>1, InMemberKept
      DEF Shape, AtMapStart, InMap, BetweenMembers, InMember, AtKey, AtValue,
          MemberRead, Accepted
  <2>5. CASE pc' = "union_end" /\ int_res' = FALSE
    BY <1>1, <2>2, <2>5, InMemberKept
    DEF Shape, AtMapStart, InMap, BetweenMembers, InMember, AtKey, AtValue,
        MemberRead, Accepted
  <2> QED
    BY <1>1, <2>1, <2>2, <2>4, <2>5, InMemberKept, NextAlternativeShape
<1> QED
  BY <1>2, <1>3

\* The value of an alternative.
LEMMA ValueShape == Inv /\ Value => Shape'
<1> SUFFICES ASSUME Inv, Value PROVE Shape'
  OBVIOUS
<1>1. /\ TypeInv /\ pc = "value" /\ Stands(payload, elem_count, 1)
      /\ message[payload].is = KeyOf(alt)
      /\ UNCHANGED <<message, complete, members, ret>>
  BY DEF Inv, Shape, AtValue, Value
<1>2. CASE Matches(Alternatives[alt].type)
  <2>1. /\ CanExtract /\ ~AtEnd /\ message[payload + 1].is = TypeOf(alt)
        /\ payload' = payload + 1 /\ elem_count' = elem_count - 1
        /\ backups' = backups /\ pc' = "union_end" /\ alt' = alt
    BY <1>1, <1>2, FirstItem DEF Value, Consume, Matches, TypeOf, CanExtract
  <2>2. Stands(payload, elem_count, 2)' /\ payload' <= Len(message')
    BY <1>1, <2>1 DEF Stands, Total, TypeInv, CanExtract, AtEnd
  <2>3. payload \in Nat /\ payload' - 1 = payload
    BY <1>1, <2>1 DEF TypeInv
  <2>4. IsPair(message', payload' - 1, alt')
    BY <1>1, <2>1, <2>3 DEF IsPair
  <2> QED
    BY <1>1, <2>1, <2>2, <2>4, InMemberKept
    DEF Shape, AtMapStart, InMap, BetweenMembers, InMember, AtKey, AtValue,
        MemberRead, Accepted
<1>3. CASE ~Matches(Alternatives[alt].type)
  <2>1. NextAlternative
    BY <1>3 DEF Value
  <2>2. backups' = backups
    BY <1>1, <2>1, NextAlternativeType
  <2>3. Stands(Newest.payload, Newest.elem_count, 0)
    BY <1>1, <2>2, InMemberKept
  <2>4. CASE /\ pc' = "key"
             /\ payload' = Newest.payload /\ elem_count' = Newest.elem_count
    <3>1. Stands(payload, elem_count, 0)'
      BY <1>1, <2>3, <2>4 DEF Stands
    <3> QED
      BY <1>1, <2>2, <2>4, <3>1, InMemberKept
      DEF Shape, AtMapStart, InMap, BetweenMembers, InMember, AtKey, AtValue,
          MemberRead, Accepted
  <2>5. CASE pc' = "union_end" /\ int_res' = FALSE
    BY <1>1, <2>2, <2>5, InMemberKept
    DEF Shape, AtMapStart, InMap, BetweenMembers, InMember, AtKey, AtValue,
        MemberRead, Accepted
  <2> QED
    BY <1>1, <2>1, <2>2, <2>4, <2>5, InMemberKept, NextAlternativeShape
<1> QED
  BY <1>2, <1>3

\* A member was read, or none was found and the boundary is restored.
LEMMA UnionEndShape == Inv /\ UnionEnd => Shape'
<1> SUFFICES ASSUME Inv, UnionEnd PROVE Shape'
  OBVIOUS
<1>1. /\ TypeInv /\ pc = "union_end" /\ Opened /\ Read /\ HasBackup /\ Pop
      /\ Len(backups) = 2 /\ Len(members) < MaxMembers
      /\ Stands(Newest.payload, Newest.elem_count, 0)
      /\ UNCHANGED <<message, complete, alt, int_res, ret>>
  BY DEF Inv, Shape, InMap, InMember, UnionEnd
<1>2. Len(backups') = 1
  BY <1>1, Popped
<1>3. Opened'
  BY <1>1 DEF Opened
<1>4. CASE int_res
  <2>1. /\ members' = Append(members, alt) /\ pc' = "member"
        /\ payload' = payload /\ elem_count' = elem_count
    BY <1>4 DEF UnionEnd
  <2>2. /\ Stands(payload, elem_count, 2) /\ payload <= Len(message)
        /\ IsPair(message, payload - 1, alt)
    BY <1>1, <1>4 DEF Inv, Shape, MemberRead
  <2> DEFINE L == Len(members)
  <2>3. /\ L \in Nat /\ Len(members') = L + 1 /\ members'[L + 1] = alt
        /\ \A k \in 1..L : members'[k] = members[k]
    BY <1>1, <2>1, TheAlternatives DEF TypeInv
  <2>4. payload = 3 + 2 * L /\ payload - 1 = 2 * (L + 1)
        /\ elem_count + 2 * L + 2 = Total(message)
    BY <1>1, <2>2, <2>3 DEF Stands, TypeInv
  <2>5. members' # <<>>
    BY <2>1, <2>3
  <2> HIDE DEF L
  <2>6. Stands(payload, elem_count, 0)'
    <3>1. elem_count \in Nat /\ payload \in Nat
      BY <1>1 DEF TypeInv
    <3>2. /\ payload = 1 + 2 * (L + 1) + 0
          /\ elem_count + 2 * (L + 1) + 0 = Total(message)
      BY <2>3, <2>4, <3>1
    <3>3. message' = message
      BY <1>1
    <3> QED
      BY <2>1, <2>3, <3>2, <3>3 DEF Stands
  <2>7. \A k \in 1..(L + 1) : IsPair(message, 2 * k, members'[k])
    <3>1. \A k \in 1..L : IsPair(message, 2 * k, members[k])
      BY <1>1 DEF Read, L
    <3>2. IsPair(message, 2 * (L + 1), members'[L + 1])
      BY <2>2, <2>3, <2>4
    <3>3. \A k \in 1..(L + 1) : k \in 1..L \/ k = L + 1
      BY <2>3
    <3> QED
      BY <2>3, <3>1, <3>2, <3>3
  <2>8. Read'
    BY <1>1, <2>2, <2>3, <2>4, <2>7 DEF Read, TypeInv
  <2> QED
    BY <1>2, <1>3, <2>1, <2>6, <2>8
    DEF Shape, AtMapStart, InMap, BetweenMembers, InMember, AtKey, AtValue,
        MemberRead, Accepted
<1>5. CASE ~int_res
  <2>1. /\ payload' = Newest.payload /\ elem_count' = Newest.elem_count
        /\ pc' = "multi_end" /\ members' = members
    BY <1>5 DEF UnionEnd, Restore
  <2>2. Read' /\ Stands(payload, elem_count, 0)'
    BY <1>1, <2>1 DEF Read, Stands
  <2> QED
    BY <1>1, <1>2, <1>3, <2>1, <2>2
    DEF Shape, AtMapStart, InMap, BetweenMembers, InMember, AtKey, AtValue,
        MemberRead, Accepted
<1> QED
  BY <1>4, <1>5

\* Five members were read.
LEMMA MultiFullShape == Inv /\ MultiFull => Shape'
<1> SUFFICES ASSUME Inv, MultiFull PROVE Shape'
  OBVIOUS
<1>1. /\ Opened /\ Read /\ Len(backups) = 1 /\ Stands(payload, elem_count, 0)
      /\ pc' = "multi_end"
      /\ UNCHANGED <<message, complete, members, payload, elem_count, backups>>
  BY DEF Inv, Shape, InMap, BetweenMembers, MultiFull, state
<1>2. Opened' /\ Read' /\ Stands(payload, elem_count, 0)'
  BY <1>1 DEF Opened, Read, Stands
<1> QED
  BY <1>1, <1>2 DEF Shape, AtMapStart, InMap, BetweenMembers, InMember, AtKey,
     AtValue, MemberRead, Accepted

\* The end of the map: what is accepted is an upload request.
LEMMA MapEndShape == Inv /\ MapEnd => Shape'
<1> SUFFICES ASSUME Inv, MapEnd PROVE Shape'
  OBVIOUS
<1>1. /\ TypeInv /\ Opened /\ Read /\ Len(backups) = 1
      /\ Stands(payload, elem_count, 0)
  BY DEF Inv, Shape, InMap, BetweenMembers, MapEnd
<1>2. /\ pc' = "done" /\ message' = message /\ members' = members
  BY Zenon DEF MapEnd, Finish
<1> SUFFICES ASSUME ret'
             PROVE  IsUpload(message, members, payload)' /\ backups' = <<>>
  BY <1>2 DEF Shape, AtMapStart, InMap, BetweenMembers, InMember, AtKey,
     AtValue, MemberRead, Accepted
<1>3. ~(INDET_LEN(elem_count) /\ NextItem.is # "break")
  BY DEF MapEnd, Finish
<1>4. HasBackup /\ Pop /\ EnoughMembers
  BY <1>3, Zenon DEF MapEnd, Finish
<1>5. backups' = <<>>
  BY <1>1, <1>4, Popped DEF Saved
<1> DEFINE L == Len(members)
<1>6. L \in 1..MaxMembers /\ members # <<>>
  <2>1. members \in Seq(1..5) /\ L <= 5
    BY <1>1, TheAlternatives DEF TypeInv, MaxMembers
  <2>2. L \in Nat /\ L >= 1
    BY <1>4, <2>1 DEF EnoughMembers, MinMembers
  <2>3. members # <<>>
    BY <2>2
  <2> HIDE DEF L
  <2> QED
    BY <2>1, <2>2, <2>3 DEF MaxMembers
<1>7. Len(message) >= 1 + 2 * L /\ message # <<>>
  BY <1>1, <1>6 DEF Read, TypeInv, MaxMembers
<1>8. /\ message[1] \in Items /\ message[1].is = "map"
      /\ message[1].n = IndetLen \/ ~INDET_LEN(2 * message[1].n)
  BY <1>1, <1>6, <1>7 DEF Opened, TypeInv, MaxMembers
<1>9. message[1].n \in Nat
  BY <1>1, <1>8, FirstItem
<1>10. payload = 1 + 2 * L /\ elem_count + 2 * L = Total(message)
  BY <1>1, <1>6 DEF Stands, TypeInv, MaxMembers
<1>11. CASE INDET_LEN(elem_count)
  <2>1. payload' = payload + 1 /\ NextItem.is = "break"
    BY <1>3, <1>11, Zenon DEF MapEnd
  <2>2. message[1].n = IndetLen
    BY <1>1, <1>6, <1>7, <1>8, <1>9, <1>10, <1>11, CborAssumption
    DEF Total, INDET_LEN, TypeInv, MaxMembers
  <2>3. ~AtEnd /\ message[2 + 2 * L].is = "break" /\ Len(message) >= 2 + 2 * L
    <3>1. ~AtEnd
      BY <1>1, <2>1, FirstItem
    <3>2. payload + 1 = 2 + 2 * L
      BY <1>6, <1>10 DEF MaxMembers
    <3> QED
      BY <1>1, <2>1, <3>1, <3>2, FirstItem DEF AtEnd, TypeInv
  <2>4. payload' = 2 + 2 * L
    BY <1>6, <1>10, <2>1 DEF MaxMembers
  <2> QED
    BY <1>1, <1>2, <1>5, <1>6, <1>7, <1>8, <2>2, <2>3, <2>4
    DEF IsUpload, IsPairs, Read, MinMembers
<1>12. CASE ~INDET_LEN(elem_count)
  <2>1. elem_count = 0 /\ payload' = payload
    BY <1>3, <1>12, Zenon DEF MapEnd, Finish
  <2>2. message[1].n # IndetLen
    <3>1. Total(message) = 2 * L /\ L \in 1..5
      BY <1>6, <1>10, <2>1 DEF MaxMembers
    <3> HIDE DEF L
    <3>2. Total(message) # IndetLen
      BY <3>1, CborAssumption
    <3> QED
      BY <1>7, <3>2 DEF Total
  <2>3. message[1].n = L
    BY <1>6, <1>7, <1>9, <1>10, <2>1, <2>2 DEF Total, MaxMembers
  <2> QED
    BY <1>1, <1>2, <1>5, <1>6, <1>7, <1>8, <1>10, <2>1, <2>3
    DEF IsUpload, IsPairs, Read, MinMembers
<1> QED
  BY <1>11, <1>12

\* Items that are looked at later change nothing of what was read before.
LEMMA Revealed ==
    ASSUME TypeInv, NEW item \in Items, Reveal(item)
    PROVE  /\ Len(message') = Len(message) + 1 /\ message' # <<>>
           /\ \A i \in 1..Len(message) : message'[i] = message[i]
           /\ payload >= Len(message) /\ ~complete /\ complete' = complete
           /\ pc # "done"
           /\ UNCHANGED <<pc, payload, elem_count, backups, alt, int_res, members, ret>>
  BY DEF TypeInv, Reveal, AtEnd, state

\* A further item changes nothing of what was read before.
LEMMA RevealShape ==
    ASSUME Inv, NEW item \in Items, Reveal(item)
    PROVE  Shape'
<1>1. TypeInv
  BY DEF Inv
<1> DEFINE L == Len(members)
<1>2. L \in Nat /\ Len(message) \in Nat /\ (members = <<>> <=> L = 0)
  BY <1>1 DEF TypeInv
<1>3. AtMapStart'
  BY <1>1, Revealed DEF Inv, Shape, AtMapStart
<1>4. Accepted'
  BY <1>1, Revealed DEF Accepted
<1>5. CASE pc \in {"member", "key", "value", "union_end", "multi_end"}
  <2>1. Opened /\ Read
    BY <1>5 DEF Inv, Shape, InMap
  <2>2. message # <<>> /\ Len(message) >= 1
    BY <1>1, <2>1, Revealed DEF Opened, TypeInv
  <2>3. message'[1] = message[1]
    BY <1>1, <1>2, <2>2, Revealed
  <2>4. Opened' /\ Total(message') = Total(message)
    BY <1>1, <2>1, <2>2, <2>3, Revealed DEF Opened, Total, INDET_LEN
  <2>5. Read'
    <3>1. \A k \in 1..L : 2 * k \in 1..Len(message) /\ 2 * k + 1 \in 1..Len(message)
      BY <1>2, <2>1 DEF Read
    <3> QED
      BY <1>1, <1>2, <2>1, <3>1, Revealed DEF Read, IsPair
  <2>6. ASSUME NEW p, NEW e, NEW n, Stands(p, e, n)
        PROVE  p = 1 + 2 * Len(members') + n /\ e + 2 * Len(members') + n = Total(message')
    BY <1>1, <2>4, <2>6, Revealed DEF Stands
  <2>7. BetweenMembers' /\ InMember' /\ AtKey'
    BY <1>1, <2>6, Revealed
    DEF Inv, Shape, BetweenMembers, InMember, AtKey, Stands, Newest
  <2>8. AtValue'
    <3>1. SUFFICES ASSUME pc = "value" PROVE AtValue'
      BY <1>1, Revealed DEF AtValue
    <3>2. /\ Stands(payload, elem_count, 1) /\ payload <= Len(message)
          /\ message[payload].is = KeyOf(alt)
      BY <3>1 DEF Inv, Shape, AtValue
    <3>3. payload \in 1..Len(message)
      BY <1>1, <1>2, <3>2 DEF Stands, TypeInv
    <3> QED
      BY <1>1, <1>2, <2>6, <3>2, <3>3, Revealed DEF AtValue, Stands
  <2>9. MemberRead'
    <3>1. SUFFICES ASSUME pc = "union_end", int_res PROVE MemberRead'
      BY <1>1, Revealed DEF MemberRead
    <3>2. /\ Stands(payload, elem_count, 2) /\ payload <= Len(message)
          /\ IsPair(message, payload - 1, alt)
      BY <3>1 DEF Inv, Shape, MemberRead
    <3>3. payload - 1 \in 1..Len(message) /\ (payload - 1) + 1 \in 1..Len(message)
      BY <1>1, <1>2, <3>2 DEF Stands, TypeInv
    <3>4. IsPair(message', payload - 1, alt)
      BY <1>1, <3>2, <3>3, Revealed DEF IsPair
    <3>5. Stands(payload, elem_count, 2)'
      BY <1>1, <2>6, <3>2, Revealed DEF Stands
    <3>6. payload' = payload /\ alt' = alt
      BY <1>1, Revealed
    <3>7. payload' <= Len(message')
      BY <1>1, <1>2, <3>2, <3>6, Revealed DEF TypeInv
    <3>8. IsPair(message', payload' - 1, alt')
      BY <3>4, <3>6
    <3> QED
      BY <3>5, <3>7, <3>8 DEF MemberRead
  <2> QED
    BY <1>3, <1>4, <2>4, <2>5, <2>7, <2>8, <2>9 DEF Shape, InMap
<1>6. CASE pc = "map_start"
  BY <1>1, <1>3, <1>4, <1>6, Revealed DEF Shape, InMap, BetweenMembers, InMember,
      AtKey, AtValue, MemberRead
<1> QED
  BY <1>1, <1>5, <1>6, Revealed DEF TypeInv, Pcs

\* That there is no further item changes nothing either.
LEMMA RevealEndShape == Inv /\ RevealEnd => Shape'
<1> SUFFICES ASSUME Inv, RevealEnd PROVE Shape'
  OBVIOUS
<1>1. /\ Shape /\ complete' = TRUE
      /\ UNCHANGED <<message, pc, payload, elem_count, backups, alt, int_res, members, ret>>
  BY DEF Inv, RevealEnd, state
<1>2. Opened => Opened'
  BY <1>1 DEF Opened
<1>3. /\ Read => Read' 
      /\ Newest' = Newest
      /\ Total(message') = Total(message)
  BY <1>1 DEF Read, Newest
<1>4. AtMapStart' /\ BetweenMembers' /\ InMember' /\ AtKey' /\ AtValue' /\ MemberRead'
  BY <1>1, <1>3 DEF Shape, AtMapStart, BetweenMembers, InMember, AtKey, AtValue,
      MemberRead, Stands
<1>5. InMap' /\ Accepted'
  BY <1>1, <1>2, <1>3 DEF Shape, InMap, Accepted
<1> QED
  BY <1>4, <1>5 DEF Shape

\* Neither does a step that changes nothing.
LEMMA StutterShape == Inv /\ UNCHANGED vars => Shape'
<1> SUFFICES ASSUME Inv, UNCHANGED vars PROVE Shape'
  OBVIOUS
<1>1. /\ Shape
      /\ UNCHANGED <<message, complete, pc, payload, elem_count, backups, alt,
                     int_res, members, ret>>
  BY DEF Inv, vars, state
<1>2. /\ Read => Read' /\ (Opened => Opened')
      /\ Newest' = Newest
      /\ Total(message') = Total(message)
  BY <1>1 DEF Read, Newest, Opened
<1>3. AtMapStart' /\ BetweenMembers' /\ InMember' /\ AtKey' /\ AtValue' /\ MemberRead'
  BY <1>1, <1>2 DEF Shape, AtMapStart, BetweenMembers, InMember, AtKey, AtValue,
      MemberRead, Stands
<1>4. InMap' /\ Accepted'
  BY <1>1, <1>2 DEF Shape, InMap, Accepted
<1> QED
  BY <1>3, <1>4 DEF Shape

\* Every step preserves the invariant.
LEMMA InvStep == Inv /\ [Next]_vars => Inv'
  BY TypeStep, MapStartIndetShape, MapStartShape, MapStartFailsShape, UnionStartShape,
     KeyShape, ValueShape, UnionEndShape, MultiFullShape, MapEndShape, RevealShape,
     RevealEndShape, StutterShape
  DEF Next, Decode, Inv

\* The invariant holds in every reachable state of the decoder.
THEOREM Spec_Inv == Spec => []Inv
  BY InitInv, InvStep, PTL DEF Spec

\* cbor_decode_Upload accepts nothing but an upload request, with exactly its
\* members, and reports its length.
THEOREM AcceptsUploads == Spec => []AcceptsOnlyUploads
<1>1. Inv => AcceptsOnlyUploads
  BY DEF Inv, Shape, Accepted, AcceptsOnlyUploads
<1> QED
  BY <1>1, Spec_Inv, PTL

\* One backup for the map, one more for the union, none after an accepted
\* message: process_backup is balanced on every path.
THEOREM BackupsAlwaysNest == Spec => []BackupsNest
<1>1. Inv => BackupsNest
  BY DEF Inv, Shape, Accepted, BetweenMembers, InMember, BackupsNest
<1> QED
  BY <1>1, Spec_Inv, PTL

\* union_elem_code puts back whatever a failed alternative consumed.
THEOREM StartFresh == Spec => []AlternativesStartFresh
<1>1. Inv => AlternativesStartFresh
  <2> SUFFICES ASSUME Inv, pc = "key" PROVE AlternativesStartFresh
    BY DEF AlternativesStartFresh
  <2>1. /\ TypeInv /\ HasBackup /\ Stands(payload, elem_count, 0)
        /\ Stands(Newest.payload, Newest.elem_count, 0)
    BY DEF Inv, Shape, InMember, AtKey, HasBackup
  <2>2. Newest.elem_count \in Nat /\ elem_count \in Nat /\ payload \in Nat /\ Len(members) \in Nat
    BY <2>1, NewestSaved DEF TypeInv
  <2> QED
    BY <2>1, <2>2 DEF Stands, AlternativesStartFresh
<1> QED
  BY <1>1, Spec_Inv, PTL

-----------------------------------------------------------------------------
(* Nothing else is rejected. *)

\* Room for the backups of the map and of the union: 4 states in the code.
LEMMA RoomForUnion ==
    ASSUME NStates >= 4, TypeInv, Len(backups) = 1
    PROVE  HasRoom
  BY CborAssumption DEF HasRoom, NumBackups

\* An alternative whose key is not decoded is not what the message holds.
LEMMA KeyNotMember ==
    ASSUME Inv, Key, ~Matches(Alternatives[alt].key)
    PROVE  NotMember(alt)
<1>1. TypeInv /\ pc = "key" /\ Stands(payload, elem_count, 0) /\ Known
  BY DEF Inv, Shape, AtKey, Key
<1> DEFINE L == Len(members)
<1>2. /\ L \in 0..4 /\ payload = 1 + 2 * L /\ elem_count + 2 * L = Total(message)
      /\ Opened
  <2>1. L < MaxMembers /\ members \in Seq(1..5) /\ Opened
    BY <1>1, TheAlternatives DEF Inv, Shape, InMember, InMap, TypeInv
  <2>2. L \in Nat /\ L < 5
    BY <2>1 DEF MaxMembers
  <2>3. /\ payload = 1 + 2 * L + 0 
        /\ elem_count + 2 * L + 0 = Total(message)
    BY <1>1 DEF Stands
  <2>4. payload \in Nat /\ elem_count \in Nat
    BY <1>1 DEF TypeInv
  <2> HIDE DEF L
  <2> QED
    BY <2>1, <2>2, <2>3, <2>4
<1> HIDE DEF L
<1>3. CASE AtEnd
  BY <1>1, <1>2, <1>3 DEF Known, AtEnd, NotMember, TypeInv, L
<1>4. CASE elem_count = 0
  BY <1>1, <1>2, <1>4 DEF NotMember, L
<1>5. elem_count # MinIndetLen
  <2>1. Total(message) = IndetLen \/ Total(message) < MinIndetLen
    BY <1>1, <1>2, FirstItem, CborAssumption DEF Opened, Total, INDET_LEN, TypeInv
  <2> QED
    BY <1>1, <1>2, <2>1, CborAssumption DEF TypeInv
<1>6. CASE ~AtEnd /\ NextItem.is # KeyOf(alt)
  <2>1. payload + 1 = 2 + 2 * L /\ 2 + 2 * L <= Len(message)
    BY <1>1, <1>2, <1>6 DEF AtEnd, TypeInv
  <2> QED
    BY <1>1, <1>6, <2>1, FirstItem DEF NotMember, L
<1> QED
  BY <1>3, <1>4, <1>5, <1>6 DEF Matches, CanExtract, KeyOf

\* ... nor one whose value is not decoded.
LEMMA ValueNotMember ==
    ASSUME Inv, Value, ~Matches(Alternatives[alt].type)
    PROVE  NotMember(alt)
<1>1. TypeInv /\ pc = "value" /\ Stands(payload, elem_count, 1) /\ Known
  BY DEF Inv, Shape, AtValue, Value
<1> DEFINE L == Len(members)
<1>2. /\ L \in 0..4 /\ payload = 2 + 2 * L /\ elem_count + 2 * L + 1 = Total(message)
      /\ Opened
  <2>1. L < MaxMembers /\ members \in Seq(1..5) /\ Opened
    BY <1>1, TheAlternatives DEF Inv, Shape, InMember, InMap, TypeInv
  <2>2. L \in Nat /\ L < 5
    BY <2>1 DEF MaxMembers
  <2>3. /\ payload = 1 + 2 * L + 1 
        /\ elem_count + 2 * L + 1 = Total(message)
    BY <1>1 DEF Stands
  <2>4. payload \in Nat /\ elem_count \in Nat
    BY <1>1 DEF TypeInv
  <2> HIDE DEF L
  <2> QED
    BY <2>1, <2>2, <2>3, <2>4
<1> HIDE DEF L
<1>3. CASE AtEnd
  BY <1>1, <1>2, <1>3 DEF Known, AtEnd, NotMember, TypeInv, L
<1>4. CanExtract \/ AtEnd
  <2>1. \/ Total(message) = IndetLen
        \/ \E n \in Nat : Total(message) = 2 * n /\ 2 * n < MinIndetLen
    BY <1>1, <1>2, FirstItem, CborAssumption DEF Opened, Total, INDET_LEN, TypeInv
  <2>2. elem_count # 0 /\ elem_count # MinIndetLen
    BY <1>1, <1>2, <2>1, CborAssumption DEF TypeInv
  <2> QED
    BY <2>2 DEF CanExtract
<1>5. CASE ~AtEnd /\ NextItem.is # TypeOf(alt)
  <2>1. payload + 1 = 3 + 2 * L /\ 3 + 2 * L <= Len(message)
    BY <1>1, <1>2, <1>5 DEF AtEnd, TypeInv
  <2>2. 2 + 2 * L < Len(message) /\ (2 + 2 * L) + 1 = payload + 1
    BY <1>2, <2>1, <1>1 DEF TypeInv
  <2> QED
    BY <1>1, <1>5, <2>2, FirstItem DEF NotMember, L
<1> QED
  BY <1>3, <1>4, <1>5 DEF Matches, TypeOf

\* The reasons hold as long as the message and the members stay.
LEMMA NotMemberKept ==
    ASSUME UNCHANGED <<message, complete, members>>
    PROVE  \A a : NotMember(a) <=> NotMember(a)'
  BY DEF NotMember, Total

\* One more alternative is given up.
LEMMA NextAlternativeTried ==
    ASSUME Inv, Tried, pc \in {"key", "value"}, NotMember(alt), NextAlternative,
           UNCHANGED <<message, complete, members>>
    PROVE  Tried'
<1>1. TypeInv /\ HasBackup /\ alt \in 1..5
  <2>1. TypeInv /\ Len(backups) = 2
    BY DEF Inv, Shape, InMember
  <2> QED
    BY <2>1, TheAlternatives DEF HasBackup, TypeInv
<1>2. \A a \in 1..(alt - 1) : NotMember(a)
  BY DEF Tried
<1>3. \A a \in 1..alt : NotMember(a)
  <2>1. \A a \in 1..alt : a \in 1..(alt - 1) \/ a = alt
    BY <1>1
  <2> QED
    BY <1>2, <2>1
<1>4. CASE alt < 5
  <2>1. pc' = "key" /\ alt' = alt + 1
    BY <1>1, <1>4, TheAlternatives DEF NextAlternative
  <2>2. alt' - 1 = alt
    BY <1>1, <2>1
  <2>3. \A a \in 1..(alt' - 1) : NotMember(a)'
    BY <1>3, <2>2, NotMemberKept
  <2> QED
    BY <2>1, <2>3 DEF Tried
<1>5. CASE alt = 5
  <2>1. pc' = "union_end"
    BY <1>1, <1>5, TheAlternatives DEF NextAlternative
  <2>2. \A a \in 1..5 : NotMember(a)'
    BY <1>3, <1>5, NotMemberKept
  <2> QED
    BY <2>1, <2>2, TheAlternatives DEF Tried, NoMember
<1> QED
  BY <1>1, <1>4, <1>5

\* The reasons outlast further items.
LEMMA NotMemberRevealed ==
    ASSUME TypeInv, NEW item \in Items, Reveal(item), message # <<>>
    PROVE  \A a : NotMember(a) => NotMember(a)'
<1> SUFFICES ASSUME NEW a, NotMember(a) PROVE NotMember(a)'
  OBVIOUS
<1> DEFINE key == 2 + 2 * Len(members)
<1>1. /\ key \in Nat /\ key >= 1 /\ Len(message) \in Nat
      /\ members' = members /\ 1 \in 1..Len(message)
  BY Revealed DEF TypeInv
<1> HIDE DEF key
<1>2. Total(message') = Total(message)
  BY <1>1, Revealed DEF Total
<1>3. ~complete
  BY Revealed
<1>4. \/ Total(message) = 2 * Len(members)
      \/ key <= Len(message) /\ message[key].is # KeyOf(a)
      \/ key < Len(message) /\ message[key + 1].is # TypeOf(a)
  BY <1>3 DEF NotMember, key
<1>5. CASE key <= Len(message) /\ message[key].is # KeyOf(a)
  <2>1. key <= Len(message') /\ message'[key].is # KeyOf(a)
    BY <1>1, <1>5, Revealed
  <2> QED
    BY <1>1, <2>1 DEF NotMember, key
<1>6. CASE key < Len(message) /\ message[key + 1].is # TypeOf(a)
  <2>1. key < Len(message') /\ message'[key + 1].is # TypeOf(a)
    BY <1>1, <1>6, Revealed
  <2> QED
    BY <1>1, <2>1 DEF NotMember, key
<1> QED
  BY <1>1, <1>2, <1>4, <1>5, <1>6 DEF NotMember

\* Every step preserves the reasons.
LEMMA TriedStep ==
    ASSUME NStates >= 4, Inv, Tried, [Next]_vars
    PROVE  Tried'
<1>t. TypeInv
  BY DEF Inv
<1>1. CASE MapStartIndet \/ MapStart \/ MapStartFails \/ MapEnd
  <2>1. pc' \in {"member", "done"}
    BY <1>1, Zenon DEF MapStartIndet, MapStart, MapStartFails, MapEnd, Finish
  <2> QED
    BY <2>1 DEF Tried
<1>2. CASE UnionStart
  <2>1. HasRoom
    BY <1>2, <1>t, RoomForUnion DEF Inv, Shape, BetweenMembers, UnionStart
  <2>2. pc' = "key" /\ alt' = 1
    BY <1>2, <2>1 DEF UnionStart
  <2> QED
    BY <2>2 DEF Tried
<1>3. CASE Key
  <2>1. pc = "key" /\ UNCHANGED <<message, complete, members>>
    BY <1>3 DEF Key
  <2>2. CASE Matches(Alternatives[alt].key)
    <3>1. pc' = "value" /\ alt' = alt
      BY <1>3, <2>2 DEF Key
    <3>2. \A a \in 1..(alt' - 1) : NotMember(a)'
      BY <2>1, <3>1, NotMemberKept DEF Tried
    <3> QED
      BY <3>1, <3>2 DEF Tried
  <2>3. CASE ~Matches(Alternatives[alt].key)
    <3>1. NextAlternative
      BY <1>3, <2>3 DEF Key
    <3> QED
      BY <1>3, <2>1, <2>3, <3>1, KeyNotMember, NextAlternativeTried
  <2> QED
    BY <2>2, <2>3
<1>4. CASE Value
  <2>1. pc = "value" /\ UNCHANGED <<message, complete, members>>
    BY <1>4 DEF Value
  <2>2. CASE Matches(Alternatives[alt].type)
    BY <1>4, <2>2, Zenon DEF Value, Tried
  <2>3. CASE ~Matches(Alternatives[alt].type)
    <3>1. NextAlternative
      BY <1>4, <2>3 DEF Value
    <3> QED
      BY <1>4, <2>1, <2>3, <3>1, ValueNotMember, NextAlternativeTried
  <2> QED
    BY <2>2, <2>3
<1>5. CASE UnionEnd
  <2>1. CASE int_res
    BY <1>5, <2>1, Zenon DEF UnionEnd, Tried
  <2>2. CASE ~int_res
    <3>1. NoMember /\ pc' = "multi_end" /\ UNCHANGED <<message, complete, members>>
      BY <1>5, <2>2 DEF UnionEnd, Tried
    <3>2. NoMember'
      BY <3>1, NotMemberKept DEF NoMember
    <3> QED
      BY <3>1, <3>2 DEF Tried
  <2> QED
    BY <2>1, <2>2
<1>6. CASE MultiFull
  BY <1>6 DEF MultiFull, Tried
<1>7. ASSUME UNCHANGED <<message, members, pc, alt, int_res>>,
             complete => complete'
      PROVE  Tried'
  <2>1. \A a : NotMember(a) => NotMember(a)'
    BY <1>7 DEF NotMember, Total
  <2> QED
    BY <1>7, <2>1 DEF Tried, NoMember
<1>8. CASE RevealEnd
  BY <1>7, <1>8 DEF RevealEnd
<1>9. ASSUME NEW item \in Items, Reveal(item) PROVE Tried'
  <2>1. UNCHANGED <<members, pc, alt, int_res>>
    BY <1>9 DEF Reveal
  <2>2. pc \in {"key", "value", "union_end", "multi_end"} => message # <<>>
    BY <1>t, <1>9, Revealed DEF Inv, Shape, InMap, Opened
  <2>3. message # <<>> => \A a : NotMember(a) => NotMember(a)'
    BY <1>t, <1>9, NotMemberRevealed
  <2> QED
    BY <2>1, <2>2, <2>3 DEF Tried, NoMember
<1>10. CASE UNCHANGED vars
  BY <1>7, <1>10 DEF vars
<1> QED
  BY <1>1, <1>2, <1>3, <1>4, <1>5, <1>6, <1>8, <1>9, <1>10 DEF Next, Decode

\* No break stands among the members read so far.
LEMMA NoBreakYet ==
    ASSUME TypeInv, Read
    PROVE  \A i \in 2..(1 + 2 * Len(members)) : message[i].is # "break"
<1> SUFFICES ASSUME NEW i \in 2..(1 + 2 * Len(members))
             PROVE  message[i].is # "break"
  OBVIOUS
<1>1. members \in Seq(1..5)
  BY TheAlternatives DEF TypeInv
<1>2. PICK k \in 1..Len(members) : i = 2 * k \/ i = 2 * k + 1
  <2>1. /\ i \div 2 \in 1..Len(members)
        /\ i = 2 * (i \div 2) \/ i = 2 * (i \div 2) + 1
    BY <1>1
  <2> QED
    BY <2>1
<1>3. IsPair(message, 2 * k, members[k]) /\ members[k] \in 1..5
  BY <1>1 DEF Read
<1> QED
  BY <1>2, <1>3, TheAlternatives DEF IsPair

\* The map goes on behind the members read, but not with one more.
LEMMA GivenUp ==
    ASSUME TypeInv, Opened, Read, Len(members) = MaxMembers \/ NoMember,
           message # <<>>,
           \/ message[1].n # IndetLen /\ message[1].n > Len(members)
           \/ /\ message[1].n = IndetLen
              /\ IF Len(message) >= 2 + 2 * Len(members)
                    THEN message[2 + 2 * Len(members)].is # "break"
                    ELSE complete
    PROVE  ~Hopeful(message) \/ (complete /\ ~Whole(message))
<1> DEFINE L == Len(members)
           n == message[1].n
           len == Len(message)
<1>1. /\ L \in 0..5 /\ len \in Nat /\ len >= 1
      /\ message[1].is = "map" /\ n \in Nat
  <2>1. members \in Seq(1..5) /\ L <= 5
    BY TheAlternatives DEF TypeInv, MaxMembers
  <2>2. message[1] \in Items /\ len \in Nat /\ len >= 1
    BY DEF TypeInv
  <2>3. message[1].is = "map"
    BY DEF Opened
  <2>4. L \in Nat
    BY <2>1
  <2>5. n \in Nat
    BY <2>2, <2>3, FirstItem
  <2> HIDE DEF L, n, len
  <2> QED
    BY <2>1, <2>2, <2>3, <2>4, <2>5 DEF n
<1>2. ASSUME NEW i \in 1..(3 + 2 * L), i <= len + 1
      PROVE  ~Behind(message, i)
  <2>1. CASE n # IndetLen
    <3>1. n > L
      BY <2>1
    <3> HIDE DEF L, n, len
    <3>2. i <= 1 + 2 * n
      BY <1>1, <3>1
    <3>3. i \in Nat /\ 1 + 2 * n \in Nat
      BY <1>1
    <3> QED
      BY <1>1, <2>1, <3>2, <3>3 DEF Behind, n
  <2>2. CASE n = IndetLen
    <3> SUFFICES ASSUME NEW j \in 2..(i - 1) PROVE message[j].is # "break"
      BY <2>2 DEF Behind
    <3>1. \A k \in 2..(1 + 2 * L) : message[k].is # "break"
      BY NoBreakYet
    <3>2. len >= 2 + 2 * L => message[2 + 2 * L].is # "break"
      BY <2>2
    <3> HIDE DEF L, len, n
    <3>3. j \in 2..(1 + 2 * L) \/ (j = 2 + 2 * L /\ len >= 2 + 2 * L)
      BY <1>1, <1>2
    <3> QED
      BY <3>1, <3>2, <3>3
  <2> QED
    BY <2>1, <2>2
<1>3. CASE len <= 2 + 2 * L /\ complete
  <2>1. len + 1 \in 1..(3 + 2 * L) /\ len + 1 <= len + 1
    <3> HIDE DEF L, len
    <3> QED
      BY <1>1, <1>3
  <2>2. ~Behind(message, len + 1)
    BY <1>2, <2>1
  <2> QED
    BY <1>3, <2>2 DEF Whole
<1>4. /\ 2 + 2 * L \in 1..(3 + 2 * L) /\ 3 + 2 * L \in 1..(3 + 2 * L)
      /\ (2 + 2 * L) % 2 = 0 /\ (3 + 2 * L) % 2 = 1
      /\ (3 + 2 * L) - 1 = 2 + 2 * L /\ (2 + 2 * L) + 1 = 3 + 2 * L
  <2> HIDE DEF L
  <2> QED
    BY <1>1
<1>5. ASSUME NEW i \in 2..len, ~Fits(message, i)
      PROVE  ~Hopeful(message)
  BY <1>5 DEF Hopeful
<1>6. CASE ~(len <= 2 + 2 * L /\ complete)
  <2>1. CASE L = 5
    <3>1. CASE n # IndetLen
      <4>1. n > L
        BY <3>1
      <4> HIDE DEF L, n
      <4>2. n \notin (1..5) \cup {IndetLen}
        BY <1>1, <2>1, <3>1, <4>1
      <4> QED
        BY <4>2 DEF Hopeful, n, MinMembers, MaxMembers
    <3>2. CASE n = IndetLen
      <4>1. len >= 2 + 2 * L /\ message[2 + 2 * L].is # "break"
        <5>1. \/ len >= 2 + 2 * L /\ message[2 + 2 * L].is # "break"
              \/ ~(len >= 2 + 2 * L) /\ complete
          BY <3>2
        <5> HIDE DEF L, len, n
        <5> QED
          BY <1>1, <1>6, <5>1
      <4>2. 2 + 2 * L = 12 /\ 12 <= len + 1
        <5> HIDE DEF L, len
        <5> QED
          BY <1>1, <2>1, <4>1
      <4>3. ~Behind(message, 12)
        BY <1>2, <1>4, <4>2
      <4>4. ~Fits(message, 12)
        BY <4>1, <4>2, <4>3 DEF Fits, MaxMembers
      <4>5. 12 \in 2..len
        <5> HIDE DEF L, len
        <5> QED
          BY <1>1, <4>1, <4>2
      <4> QED
        BY <1>5, <4>4, <4>5
    <3> QED
      BY <3>1, <3>2
  <2>2. CASE NoMember /\ L < 5
    <3>1. Total(message) # 2 * L
      <4>1. \/ n # IndetLen /\ n > L
            \/ n = IndetLen
        OBVIOUS
      <4>2. Total(message) = IF n = IndetLen THEN IndetLen ELSE 2 * n
        BY DEF Total
      <4> HIDE DEF L, n
      <4> QED
        BY <1>1, <4>1, <4>2, CborAssumption
    <3>2. \A a \in 1..5 :
            \/ 2 + 2 * L <= len /\ message[2 + 2 * L].is # KeyOf(a)
            \/ 2 + 2 * L < len /\ message[3 + 2 * L].is # TypeOf(a)
      BY <1>4, <1>6, <2>2, <3>1, TheAlternatives DEF NoMember, NotMember
    <3>3. 2 + 2 * L \in 2..len /\ 2 + 2 * L <= len + 1
      <4>1. 2 + 2 * L <= len
        <5>1. 1 \in 1..5
          OBVIOUS
        <5>2. 2 + 2 * L <= len \/ 2 + 2 * L < len
          BY <3>2, <5>1
        <5> HIDE DEF L, len
        <5> QED
          BY <1>1, <5>2
      <4> HIDE DEF L, len
      <4> QED
        BY <1>1, <4>1
    <3>4. CASE \E a \in 1..5 : message[2 + 2 * L].is = KeyOf(a)
      <4>1. PICK a \in 1..5 : message[2 + 2 * L].is = KeyOf(a)
        BY <3>4
      <4>2. 2 + 2 * L < len /\ message[3 + 2 * L].is # TypeOf(a)
        BY <3>2, <4>1
      <4>3. 3 + 2 * L \in 2..len /\ 3 + 2 * L <= len + 1
        <5> HIDE DEF L, len
        <5> QED
          BY <1>1, <4>2
      <4>4. ~Behind(message, 3 + 2 * L)
        BY <1>2, <1>4, <4>3
      <4>5. \A b \in 1..5 : ~IsPair(message, (3 + 2 * L) - 1, b)
        BY <1>4, <4>1, <4>2, TheAlternatives DEF IsPair
      <4>6. ~Fits(message, 3 + 2 * L)
        BY <1>4, <4>4, <4>5, TheAlternatives DEF Fits
      <4> QED
        BY <1>5, <4>3, <4>6
    <3>5. CASE ~\E a \in 1..5 : message[2 + 2 * L].is = KeyOf(a)
      <4>1. ~Behind(message, 2 + 2 * L)
        BY <1>2, <1>4, <3>3
      <4>2. n = IndetLen => message[2 + 2 * L].is # "break"
        BY <3>3
      <4>3. ~Fits(message, 2 + 2 * L)
        BY <1>4, <3>5, <4>1, <4>2, TheAlternatives DEF Fits
      <4> QED
        BY <1>5, <3>3, <4>3
    <3> QED
      BY <3>4, <3>5
  <2>3. L = 5 \/ (NoMember /\ L < 5)
    <3>1. L = 5 \/ NoMember
      BY DEF MaxMembers
    <3> HIDE DEF L
    <3> QED
      BY <1>1, <3>1
  <2> QED
    BY <2>1, <2>2, <2>3
<1> QED
  BY <1>3, <1>6

\* Whatever step gives a message up had a reason.
LEMMA RejectStep ==
    ASSUME Inv, Tried, RejectsOnlyOthers, [Next]_vars
    PROVE  RejectsOnlyOthers'
<1>t. TypeInv
  BY DEF Inv
<1>1. CASE MapStartIndet \/ UnionStart \/ MultiFull
  <2>1. pc' \in {"member", "key", "multi_end"}
    BY <1>1, Zenon DEF MapStartIndet, UnionStart, MultiFull
  <2> QED
    BY <2>1 DEF RejectsOnlyOthers
<1>2. CASE Key \/ Value
  <2>1. pc' # "done"
    BY <1>2, <1>t, NextAlternativeType DEF Key, Value
  <2> QED
    BY <2>1 DEF RejectsOnlyOthers
<1>3. CASE UnionEnd
  <2>1. pc' # "done"
    BY <1>3, Zenon DEF UnionEnd
  <2> QED
    BY <2>1 DEF RejectsOnlyOthers
<1>4. CASE MapStart
  <2>1. payload = 0 /\ ~AtEnd
    BY <1>4 DEF Inv, Shape, AtMapStart, MapStart, CanExtract
  <2>2. /\ message # <<>> /\ NextItem = message[1] /\ NextItem.is = "map"
        /\ NextItem.n \in Nat /\ ~INDET_LEN(NextItem.n)
    BY <1>4, <1>t, <2>1, FirstItem DEF AtEnd, MapStart, TypeInv
  <2>3. CASE INDET_LEN(NextItem.n * 2)
    <3>1. message[1].n \notin (MinMembers..MaxMembers) \cup {IndetLen}
      BY <2>2, <2>3, CborAssumption DEF INDET_LEN, MinMembers, MaxMembers
    <3>2. ~Hopeful(message)
      BY <2>2, <3>1 DEF Hopeful
    <3>3. message' = message
      BY <1>4 DEF MapStart
    <3> QED
      BY <3>2, <3>3 DEF RejectsOnlyOthers
  <2>4. CASE ~INDET_LEN(NextItem.n * 2)
    <3>1. pc' = "member"
      BY <1>4, <2>4, Zenon DEF MapStart
    <3> QED
      BY <3>1 DEF RejectsOnlyOthers
  <2> QED
    BY <2>3, <2>4
<1>5. CASE MapStartFails
  <2>1. payload = 0 /\ UNCHANGED <<message, complete>>
    BY <1>5 DEF Inv, Shape, AtMapStart, MapStartFails
  <2>2. CASE AtEnd
    BY <1>5, <1>t, <2>1, <2>2
    DEF AtEnd, Known, MapStartFails, TypeInv, Whole, RejectsOnlyOthers
  <2>3. CASE ~AtEnd
    <3>1. message # <<>> /\ NextItem = message[1] /\ NextItem \in Items
      BY <1>t, <2>1, <2>3, FirstItem DEF AtEnd, TypeInv
    <3>2. \/ message[1].is # "map"
          \/ message[1].n \in Nat /\ INDET_LEN(message[1].n) /\ message[1].n # IndetLen
      BY <1>5, <1>t, <3>1, FirstItem DEF MapStartFails
    <3>3. ~Hopeful(message)
      BY <3>1, <3>2, CborAssumption DEF Hopeful, INDET_LEN, MinMembers, MaxMembers
    <3> QED
      BY <2>1, <3>3 DEF RejectsOnlyOthers
  <2> QED
    BY <2>2, <2>3
<1>6. CASE MapEnd
  <2> SUFFICES ASSUME ~ret'
               PROVE  ~Hopeful(message) \/ (complete /\ ~Whole(message))
    BY <1>6, Zenon DEF MapEnd, RejectsOnlyOthers
  <2>1. /\ Opened /\ Read /\ Stands(payload, elem_count, 0)
        /\ Len(members) = MaxMembers \/ NoMember
    BY <1>6 DEF Inv, Shape, InMap, BetweenMembers, MapEnd, Tried
  <2>2. CASE message = <<>>
    BY <2>1, <2>2 DEF Opened, Whole
  <2>3. CASE message # <<>>
    <3> DEFINE L == Len(members)
               n == message[1].n
    <3>1. L \in 0..5
      <4>1. members \in Seq(1..5) /\ L <= 5
        BY <1>t, TheAlternatives DEF TypeInv, MaxMembers
      <4>2. L \in Nat
        BY <4>1
      <4> HIDE DEF L
      <4> QED
        BY <4>1, <4>2
    <3>2. /\ message[1] \in Items /\ message[1].is = "map"
          /\ n = IndetLen \/ ~INDET_LEN(2 * n)
      BY <1>t, <2>1, <2>3 DEF Opened, TypeInv
    <3>3. n \in Nat
      BY <1>t, <3>2, FirstItem
    <3>4. /\ payload = 1 + 2 * L /\ elem_count + 2 * L = Total(message)
          /\ elem_count \in Nat /\ Len(message) \in Nat
      BY <1>t, <2>1, <3>1 DEF Stands, TypeInv
    <3>5. Total(message) = IF n = IndetLen THEN IndetLen ELSE 2 * n
      BY <2>3 DEF Total
    <3>6. INDET_LEN(elem_count) <=> n = IndetLen
      <4>1. n # IndetLen => 2 * n < MinIndetLen
        BY <3>2, <3>3, CborAssumption DEF INDET_LEN
      <4> HIDE DEF L, n
      <4> QED
        BY <3>1, <3>3, <3>4, <3>5, <4>1, CborAssumption DEF INDET_LEN
    <3>7. CASE n = IndetLen
      <4>1. Known
        BY <1>6, <3>6, <3>7 DEF MapEnd
      <4>2. CASE NextItem.is # "break"
        <5>1. IF Len(message) >= 2 + 2 * L
                THEN message[2 + 2 * L].is # "break"
                ELSE complete
          <6>1. AtEnd => complete
            BY <4>1 DEF Known
          <6>2. AtEnd <=> ~(Len(message) >= 2 + 2 * L)
            <7> HIDE DEF L
            <7> QED
              BY <3>1, <3>4 DEF AtEnd
          <6>3. payload + 1 = 2 + 2 * L
            <7> HIDE DEF L
            <7> QED
              BY <3>1, <3>4
          <6> QED
            BY <1>t, <4>2, <6>1, <6>2, <6>3, FirstItem
        <5> QED
          BY <1>t, <2>1, <2>3, <3>7, <5>1, GivenUp
      <4>3. CASE NextItem.is = "break"
        <5>1. ~EnoughMembers
          BY <1>6, <3>6, <3>7, <4>3, Zenon DEF MapEnd, Finish
        <5>2. L = 0
          BY <3>1, <5>1 DEF EnoughMembers, MinMembers
        <5>3. ~AtEnd /\ NextItem = message[payload + 1]
          BY <1>t, <4>3, FirstItem
        <5>4. payload + 1 = 2 /\ 2 \in 2..Len(message)
          BY <3>4, <5>2, <5>3 DEF AtEnd
        <5>5. message[2].is = "break"
          BY <4>3, <5>3, <5>4
        <5>6. ~Fits(message, 2)
          <6>1. ~Behind(message, 2)
            BY <3>7 DEF Behind
          <6>2. \A a \in 1..5 : message[2].is # KeyOf(a)
            BY <5>5, TheAlternatives
          <6> QED
            BY <6>1, <6>2, TheAlternatives DEF Fits, MinMembers
        <5> QED
          BY <2>3, <5>4, <5>6 DEF Hopeful
      <4> QED
        BY <4>2, <4>3
    <3>8. CASE n # IndetLen
      <4>1. ~(elem_count = 0 /\ EnoughMembers)
        BY <1>6, <3>6, <3>8, Zenon DEF MapEnd, Finish
      <4>2. CASE elem_count # 0
        <5>1. n > L
          <6> HIDE DEF L, n
          <6> QED
            BY <3>1, <3>3, <3>4, <3>5, <3>8, <4>2
        <5> QED
          BY <1>t, <2>1, <2>3, <3>8, <5>1, GivenUp
      <4>3. CASE elem_count = 0
        <5>1. L = 0
          BY <3>1, <4>1, <4>3 DEF EnoughMembers, MinMembers
        <5>2. n = 0
          <6> HIDE DEF L, n
          <6> QED
            BY <3>3, <3>4, <3>5, <3>8, <4>3, <5>1
        <5> QED
          BY <2>3, <3>8, <5>2 DEF Hopeful, MinMembers, MaxMembers
      <4> QED
        BY <4>2, <4>3
    <3> QED
      BY <3>7, <3>8
  <2> QED
    BY <2>2, <2>3
<1>7. CASE RevealEnd
  BY <1>7 DEF RevealEnd, RejectsOnlyOthers
<1>8. ASSUME NEW item \in Items, Reveal(item) PROVE RejectsOnlyOthers'
  BY <1>8 DEF Reveal, RejectsOnlyOthers
<1>9. CASE UNCHANGED vars
  BY <1>9 DEF vars, RejectsOnlyOthers
<1> QED
  BY <1>1, <1>2, <1>3, <1>4, <1>5, <1>6, <1>7, <1>8, <1>9 DEF Next, Decode

\* cbor_decode_Upload rejects no upload request, provided that its states
\* array has room for the backups of the map and of the union. The code's has:
\* states[4] in cbor_decode_Upload. With one state less every request would be
\* rejected.
THEOREM RejectsOthers ==
    NStates >= 4 => (Spec => []RejectsOnlyOthers)
<1> SUFFICES ASSUME NStates >= 4 PROVE Spec => []RejectsOnlyOthers
  OBVIOUS
<1>1. Init => Tried /\ RejectsOnlyOthers
  BY DEF Init, Tried, RejectsOnlyOthers
<1>2. Inv /\ Tried /\ RejectsOnlyOthers /\ [Next]_vars => (Tried /\ RejectsOnlyOthers)'
  BY TriedStep, RejectStep
<1> QED
  BY <1>1, <1>2, Spec_Inv, PTL DEF Spec
-----------------------------------------------------------------------------
(* Why the array of states has four elements *)

\* With three, the map's own backup leaves no room for that of a member.
NoRoomForMembers ==
    /\ pc \in {"map_start", "member", "multi_end", "done"}
    /\ pc = "map_start" => backups = <<>>
    /\ pc = "member" => Len(backups) = 1
    /\ members = <<>> /\ ret = FALSE

\* RejectsOthers needs its hypothesis: with a state less in cbor_decode_Upload no
\* member is decoded and every upload is rejected, of the grammar or not.
THEOREM ThreeStatesReject == NStates = 3 => (Spec => [](members = <<>> /\ ret = FALSE))
<1> SUFFICES ASSUME NStates = 3 PROVE Spec => [](members = <<>> /\ ret = FALSE)
  OBVIOUS
<1>1. Init => NoRoomForMembers
  BY DEF Init, NoRoomForMembers
<1>2. NoRoomForMembers /\ [Next]_vars => NoRoomForMembers'
  <2> SUFFICES ASSUME NoRoomForMembers, [Next]_vars PROVE NoRoomForMembers'
    OBVIOUS
  <2> USE DEF NoRoomForMembers
  <2>1. CASE MapStartIndet \/ MapStart
    <3>1. pc = "map_start" /\ backups = <<>>
      BY <2>1 DEF MapStartIndet, MapStart
    <3>2. \A saved : Len(Append(<<>>, saved)) = 1
      OBVIOUS
    <3>3. Len(backups') = 1
      BY <2>1, <3>1, <3>2 DEF MapStartIndet, MapStart, Push
    <3> QED
      BY <2>1, <3>3 DEF MapStartIndet, MapStart, Finish
  <2>2. CASE MapStartFails
    BY <2>2 DEF MapStartFails, Finish, state
  <2>3. CASE UnionStart
    <3>1. ~HasRoom
      BY <2>3 DEF UnionStart, HasRoom, NumBackups
    <3> QED
      BY <2>3, <3>1 DEF UnionStart
  <2>4. CASE Key \/ Value \/ UnionEnd \/ MultiFull
    BY <2>4 DEF Key, Value, UnionEnd, MultiFull, MaxMembers
  <2>5. CASE MapEnd
    <3>1. EnoughMembers = FALSE /\ (elem_count = 0 /\ EnoughMembers) = FALSE
      BY DEF EnoughMembers, MinMembers
    <3>2. Finish(FALSE) /\ members' = members
      <4> HIDE DEF Finish
      <4> QED
        BY <2>5, <3>1 DEF MapEnd
    <3> QED
      BY <3>2 DEF Finish
  <2>6. CASE RevealEnd \/ \E item \in Items : Reveal(item)
    BY <2>6 DEF RevealEnd, Reveal, state
  <2>7. CASE UNCHANGED vars
    BY <2>7 DEF vars, state
  <2> QED
    BY <2>1, <2>2, <2>3, <2>4, <2>5, <2>6, <2>7 DEF Next, Decode
<1>3. NoRoomForMembers => members = <<>> /\ ret = FALSE
  BY DEF NoRoomForMembers
<1> QED
  BY <1>1, <1>2, <1>3, PTL DEF Spec
=============================================================================
