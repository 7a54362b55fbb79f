-------------------------- MODULE CborUploadProps --------------------------
(* The properties of CborUpload, and the grammar it is to accept. *)
EXTENDS CborUpload

-----------------------------------------------------------------------------
(* The grammar:  Upload = { 1*5 Member }, with Member one of the five pairs *)

KeyOf(a)  == Alternatives[a].key
TypeOf(a) == Alternatives[a].type

\* The pair that starts at item i of m is alternative a.
IsPair(m, i, a) == m[i].is = KeyOf(a) /\ m[i + 1].is = TypeOf(a)

IsPairs(m, as) ==
    /\ Len(m) >= 1 + 2 * Len(as)
    /\ \A k \in 1..Len(as) : IsPair(m, 2 * k, as[k])

\* The message starts with a map of exactly the members `as`, the first
\* `used` items of it.
IsUpload(m, as, used) ==
    /\ Len(as) \in MinMembers..MaxMembers
    /\ IsPairs(m, as)
    /\ m[1].is = "map"
    /\ \/ m[1].n = Len(as) /\ used = 1 + 2 * Len(as)
       \/ /\ m[1].n = IndetLen
          /\ used = 2 + 2 * Len(as)
          /\ Len(m) >= used /\ m[used].is = "break"

\* Item i of m lies behind the end of its map.
Behind(m, i) ==
    IF m[1].n = IndetLen THEN \E j \in 2..(i - 1) : m[j].is = "break"
                         ELSE i > 1 + 2 * m[1].n

\* Item i of m may stand there: a key, the value of the key before it, or the
\* break that ends a map of indeterminate length.
Fits(m, i) ==
    \/ Behind(m, i)
    \/ i % 2 = 0 /\ i <= 2 * MaxMembers
         /\ \E a \in DOMAIN Alternatives : m[i].is = KeyOf(a)
    \/ i % 2 = 1 /\ \E a \in DOMAIN Alternatives : IsPair(m, i - 1, a)
    \/ m[1].n = IndetLen /\ i % 2 = 0 /\ i > 2 * MinMembers /\ m[i].is = "break"

\* m, or some continuation of m, is an upload request.
Hopeful(m) ==
    \/ m = <<>>
    \/ /\ m[1].is = "map"
       /\ m[1].n \in (MinMembers..MaxMembers) \cup {IndetLen}
       /\ \A i \in 2..Len(m) : Fits(m, i)

Whole(m) == m # <<>> /\ Behind(m, Len(m) + 1)

-----------------------------------------------------------------------------
\* cbor_decode_Upload accepts nothing but an upload request, and then its
\* result holds exactly the members of the message, in their order, and the
\* length it reports ends with the map.
AcceptsOnlyUploads ==
    pc = "done" /\ ret => IsUpload(message, members, payload)

\* It rejects no upload request: what it has seen when it gives up can be
\* continued to one by nothing, or is cut off.
RejectsOnlyOthers ==
    pc = "done" /\ ~ret =>
        ~Hopeful(message) \/ (complete /\ ~Whole(message))

\* The backups nest as the grammar does: one for the map, one more for the
\* union. Two states are always enough, and none is left by a message that
\* was accepted.
BackupsNest ==
    /\ pc = "member" => Len(backups) = 1
    /\ pc \in {"key", "value", "union_end"} => Len(backups) = 2
    /\ pc = "multi_end" => Len(backups) = 1
    /\ pc = "done" /\ ret => Len(backups) = 0

\* An alternative is always tried from where its member starts: whatever an
\* earlier alternative consumed before it failed has been put back.
AlternativesStartFresh ==
    pc = "key" => /\ payload = Newest.payload
                  /\ elem_count = Newest.elem_count
                  /\ payload = 1 + 2 * Len(members)
=============================================================================
