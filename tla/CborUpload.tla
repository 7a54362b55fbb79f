----------------------------- MODULE CborUpload -----------------------------
(***************************************************************************)
(* cbor_decode_Upload, the decoder of an mcumgr upload request: a map of    *)
(* one to five members, each one of five alternatives of a union. It works  *)
(* by backtracking on a cbor_state_t, whose earlier values it keeps in an   *)
(* array of backups of fixed size.                                          *)
(*                                                                          *)
(* A message is a sequence of data items: what one decoding call consumes.  *)
(* An item cut off by the end of the payload is "other": no call takes it.  *)
(***************************************************************************)
EXTENDS Naturals, Sequences

CONSTANTS
    NStates,          \* length of the states array of cbor_decode_Upload
    MinIndetLen,      \* MIN_INDET_LEN_ELEM_COUNT, 2^31 in the code
    IndetLen,         \* INDET_LEN_ELEM_COUNT, 2^32 - 16 in the code
    MapLengths        \* the lengths that a map's header announces

ASSUME CborAssumption ==
    /\ NStates \in Nat /\ NStates > 2
    /\ MinIndetLen \in Nat /\ MinIndetLen > 16
    /\ IndetLen \in Nat /\ IndetLen > MinIndetLen + 10
    /\ MapLengths \subseteq Nat

MinMembers == 1
MaxMembers == 5

\* The alternatives of decode_Member, in the order in which it tries them.
Alternatives == << [key |-> "image", type |-> "int"],
                   [key |-> "data",  type |-> "bstr"],
                   [key |-> "len",   type |-> "int"],
                   [key |-> "off",   type |-> "int"],
                   [key |-> "sha",   type |-> "bstr"] >>

Simple == {"image", "data", "len", "off", "sha", "int", "bstr", "break",
           "map", "other"}
Items  == [is : Simple \ {"map"}] \cup [is : {"map"}, n : MapLengths \cup {IndetLen}]

VARIABLES
    message,   \* the data items of the payload that were looked at so far
    complete,  \* ... and there are no others
    pc,        \* the decoding function that runs
    payload,   \* cbor_state_t: items consumed
    elem_count,
    backups,   \* cbor_state_t: earlier values of the two, the newest last
    alt,       \* decode_Member: the alternative it tries
    int_res,   \* decode_Member: its result before union_end_code
    members,   \* the members decoded so far, by the number of the alternative
    ret        \* the result of decode_Upload

state == <<payload, elem_count, backups>>
vars  == <<message, complete, pc, state, alt, int_res, members, ret>>

AtEnd   == payload >= Len(message)
NextItem == IF AtEnd THEN [is |-> "nothing"] ELSE message[payload + 1]

\* The item that a step looks at is known. The message itself is there from
\* the start; items are chosen when they are first looked at, so that TLC need
\* not enumerate what no step can see.
Known == ~AtEnd \/ complete

Reveal(item) ==
    /\ pc # "done" /\ AtEnd /\ ~complete
    /\ message' = Append(message, item)
    /\ UNCHANGED <<complete, pc, state, alt, int_res, members, ret>>

RevealEnd ==
    /\ pc # "done" /\ AtEnd /\ ~complete
    /\ complete' = TRUE
    /\ UNCHANGED <<message, pc, state, alt, int_res, members, ret>>

-----------------------------------------------------------------------------
(* cbor_common.c: backups of the decoder's state *)

\* Mutant: a state more is set aside.
NumBackupsShort == NStates - 3
NumBackups == NStates - 2
Current    == [payload |-> payload, elem_count |-> elem_count]
Newest     == backups[Len(backups)]

HasRoom   == Len(backups) < NumBackups
HasBackup == Len(backups) > 0

Push(saved) == backups' = Append(backups, saved)
\* Mutant: the backup is not consumed.
PopLeaks    == UNCHANGED backups
Pop         == backups' = SubSeq(backups, 1, Len(backups) - 1)

\* Mutant: the element count is not restored.
RestorePayloadOnly == payload' = Newest.payload /\ UNCHANGED elem_count

\* union_elem_code: process_backup(FLAG_RESTORE).
Restore ==
    /\ payload' = Newest.payload
    /\ elem_count' = Newest.elem_count

-----------------------------------------------------------------------------
(* cbor_decode.c *)

INDET_LEN(count) == count >= MinIndetLen

\* value_extract succeeds only with an element to come and payload left.
CanExtract == ~AtEnd /\ elem_count # 0 /\ elem_count # MinIndetLen

Consume ==
    /\ payload' = payload + 1
    /\ elem_count' = elem_count - 1
    /\ UNCHANGED backups

Finish(result) == pc' = "done" /\ ret' = result

\* map_start_decode. Its first look at the payload is not preceded by a check
\* for its end: an empty payload shows whatever the buffer held before.
MapStartIndet ==
    /\ pc = "map_start" /\ Known
    /\ NextItem.is \in {"nothing", "map"}
    /\ NextItem.is = "map" => NextItem.n = IndetLen
    /\ HasRoom
    /\ payload' = payload + 1
    /\ Push([payload |-> payload + 1, elem_count |-> elem_count])
    /\ elem_count' = IndetLen
    /\ pc' = "member"
    /\ UNCHANGED <<message, complete, alt, int_res, members, ret>>

\* A definite length: as an array's it must leave the top bit clear, and
\* doubled, for keys and values, as well. A backup has been taken by then.
MapStart ==
    /\ pc = "map_start" /\ CanExtract
    /\ NextItem.is = "map" /\ ~INDET_LEN(NextItem.n)
    /\ HasRoom
    /\ Push([payload |-> payload + 1, elem_count |-> elem_count - 1])
    /\ \/ /\ ~INDET_LEN(NextItem.n * 2)
          /\ payload' = payload + 1
          /\ elem_count' = NextItem.n * 2
          /\ pc' = "member" /\ UNCHANGED ret
       \/ /\ INDET_LEN(NextItem.n * 2)
          /\ elem_count' = NextItem.n + 1
          /\ UNCHANGED payload
          /\ Finish(FALSE)
    /\ UNCHANGED <<message, complete, alt, int_res, members>>

MapStartFails ==
    /\ pc = "map_start" /\ Known
    /\ NextItem.is = "map" => INDET_LEN(NextItem.n) /\ NextItem.n # IndetLen
    /\ Finish(FALSE)
    /\ UNCHANGED <<message, complete, state, alt, int_res, members>>

-----------------------------------------------------------------------------
(* decode_Member: a union of the alternatives *)

\* multi_decode calls the decoder at most MaxMembers times; decode_Member
\* starts with union_start_code.
UnionStart ==
    /\ pc = "member" /\ Len(members) < MaxMembers
    /\ \/ /\ HasRoom
          /\ Push(Current)
          /\ alt' = 1 /\ pc' = "key"
       \/ /\ ~HasRoom
          /\ pc' = "multi_end"
          /\ UNCHANGED <<backups, alt>>
    /\ UNCHANGED <<message, complete, payload, elem_count, int_res, members, ret>>

\* An alternative fails: union_elem_code restores the state for the next one.
NextAlternative ==
    \/ /\ alt < Len(Alternatives) /\ HasBackup
       /\ Restore
       /\ alt' = alt + 1 /\ pc' = "key"
       /\ UNCHANGED <<backups, int_res>>
    \/ /\ alt = Len(Alternatives) \/ ~HasBackup
       /\ int_res' = FALSE /\ pc' = "union_end"
       /\ UNCHANGED <<state, alt>>

Matches(kind) == CanExtract /\ NextItem.is = kind

\* tstrx_expect of the alternative's key.
Key ==
    /\ pc = "key" /\ Known
    /\ \/ /\ Matches(Alternatives[alt].key)
          /\ Consume /\ pc' = "value"
          /\ UNCHANGED <<alt, int_res>>
       \/ /\ ~Matches(Alternatives[alt].key)
          /\ NextAlternative
    /\ UNCHANGED <<message, complete, members, ret>>

\* intx32_decode or bstrx_decode of its value.
Value ==
    /\ pc = "value" /\ Known
    /\ \/ /\ Matches(Alternatives[alt].type)
          /\ Consume
          /\ int_res' = TRUE /\ pc' = "union_end"
          /\ UNCHANGED alt
       \/ /\ ~Matches(Alternatives[alt].type)
          /\ NextAlternative
    /\ UNCHANGED <<message, complete, members, ret>>

\* union_end_code consumes the backup, whichever the result. A member that
\* failed ends the repetition, and multi_decode restores the position and
\* count it saved before: those that union_start_code saved, too.
UnionEnd ==
    /\ pc = "union_end" /\ HasBackup
    /\ Pop
    /\ \/ /\ int_res
          /\ members' = Append(members, alt)
          /\ pc' = "member"
          /\ UNCHANGED <<payload, elem_count>>
       \/ /\ ~int_res
          /\ Restore
          /\ pc' = "multi_end"
          /\ UNCHANGED members
    /\ UNCHANGED <<message, complete, alt, int_res, ret>>

MultiFull ==
    /\ pc = "member" /\ Len(members) = MaxMembers
    /\ pc' = "multi_end"
    /\ UNCHANGED <<message, complete, state, alt, int_res, members, ret>>

-----------------------------------------------------------------------------
(* decode_Upload: the end of the map *)

\* multi_decode's check of the least number. Mutant: there is none.
AnyNumber     == TRUE
EnoughMembers == Len(members) >= MinMembers

\* list_map_end_decode is called even if multi_decode failed. Its backup is
\* restored and consumed, but the payload is kept.
MapEnd ==
    /\ pc = "multi_end" /\ (INDET_LEN(elem_count) => Known)
    /\ \/ \* the break that ends a map of indeterminate length is missing
          /\ INDET_LEN(elem_count)
          /\ NextItem.is # "break"
          /\ Finish(FALSE)
          /\ UNCHANGED state
       \/ /\ INDET_LEN(elem_count) => NextItem.is = "break"
          /\ HasBackup
          /\ Pop
          /\ elem_count' = Newest.elem_count
          /\ IF INDET_LEN(elem_count)
                THEN /\ payload' = payload + 1
                     /\ Finish(EnoughMembers)
                ELSE /\ payload' = IF elem_count = 0 THEN payload
                                                     ELSE Newest.payload
                     /\ Finish(elem_count = 0 /\ EnoughMembers)
    /\ UNCHANGED <<message, complete, alt, int_res, members>>

-----------------------------------------------------------------------------
\* cbor_decode_Upload: new_state with room for one element.
Init ==
    /\ message = <<>> /\ complete = FALSE
    /\ pc = "map_start"
    /\ payload = 0 /\ elem_count = 1 /\ backups = <<>>
    /\ alt = 1 /\ int_res = FALSE
    /\ members = <<>> /\ ret = FALSE

Decode ==
    \/ MapStartIndet \/ MapStart \/ MapStartFails
    \/ UnionStart \/ Key \/ Value \/ UnionEnd \/ MultiFull
    \/ MapEnd

Next == Decode \/ RevealEnd \/ \E item \in Items : Reveal(item)

Spec == Init /\ [][Next]_vars
=============================================================================
